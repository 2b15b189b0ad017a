---------------------------- MODULE AtomicLeaves ----------------------------
(***************************************************************************)
(* What a host directory promises about its leaves: every call takes       *)
(* effect at one instant between its invocation and its return, a compare- *)
(* exchange replaces the leaf exactly when it holds the expected content   *)
(* at that instant, and it reports the content it met.  An error promises  *)
(* nothing: the call may or may not have taken effect.  A process may die  *)
(* with its calls, and a power cut may leave any content behind.           *)
(***************************************************************************)
CONSTANTS Clients, Leaves, Contents, Requests, NoCall, Absent

VARIABLES
  content,  \* what each leaf holds
  call,     \* the request each client is waiting for, or NoCall
  effect,   \* of that request: "pending", "applied" or "refused"
  met,      \* the content it met when it took effect, Absent until then
  reply     \* the client's last answer: "none", "applied", "refused" or "error"

vars == <<content, call, effect, met, reply>>

Init ==
  /\ content \in [Leaves -> Contents]
  /\ call = [c \in Clients |-> NoCall]
  /\ effect = [c \in Clients |-> "pending"]
  /\ met = [c \in Clients |-> Absent]
  /\ reply = [c \in Clients |-> "none"]

Invoke(c) ==
  /\ call[c] = NoCall
  /\ call'[c] \in Requests
  /\ call' = [call EXCEPT ![c] = call'[c]]
  /\ effect' = [effect EXCEPT ![c] = "pending"]
  /\ met' = [met EXCEPT ![c] = Absent]
  /\ reply' = [reply EXCEPT ![c] = "none"]
  /\ UNCHANGED content

Matches(o, m) == o.kind = "cas" => o.expected = m

TakeEffect(c) ==
  /\ call[c] # NoCall /\ effect[c] = "pending"
  /\ effect'[c] # "pending"
  /\ LET o == call[c]
         m == content[o.leaf]
     IN /\ met' = [met EXCEPT ![c] = m]
        /\ \/ /\ Matches(o, m)
              /\ content' = [content EXCEPT ![o.leaf] = o.new]
              /\ effect' = [effect EXCEPT ![c] = "applied"]
           \/ /\ ~Matches(o, m)
              /\ effect' = [effect EXCEPT ![c] = "refused"]
              /\ UNCHANGED content
  /\ UNCHANGED <<call, reply>>

Forget(gone) ==
  /\ effect' = [c \in Clients |-> IF c \in gone THEN "pending" ELSE effect[c]]
  /\ met' = [c \in Clients |-> IF c \in gone THEN Absent ELSE met[c]]

Return(c) ==
  /\ call[c] # NoCall /\ call'[c] = NoCall
  /\ call' = [call EXCEPT ![c] = NoCall]
  /\ \/ /\ effect[c] # "pending"
        /\ reply' = [reply EXCEPT ![c] = effect[c]]
        /\ UNCHANGED <<effect, met>>
     \/ /\ reply' = [reply EXCEPT ![c] = "error"]
        /\ Forget({c})
  /\ UNCHANGED content

\* The clients in `gone` lose their calls, and what they were told.
Die(gone) ==
  /\ call' = [c \in Clients |-> IF c \in gone THEN NoCall ELSE call[c]]
  /\ reply' = [c \in Clients |-> IF c \in gone THEN "none" ELSE reply[c]]
  /\ Forget(gone)

Crash    == UNCHANGED content /\ \E gone \in SUBSET Clients : Die(gone)
PowerCut == Die(Clients) /\ content' \in [Leaves -> Contents]

Next ==
  \/ \E c \in Clients : Invoke(c) \/ TakeEffect(c) \/ Return(c)
  \/ Crash \/ PowerCut

Spec == Init /\ [][Next]_vars
=============================================================================
