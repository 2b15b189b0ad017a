---------------------------- MODULE CompanionLink ----------------------------
(***************************************************************************)
(* The companion's end of a wearable link: HaloCapsule of                  *)
(* sim-platform-halo/src/halo.rs, which reassembles fragmented             *)
(* notifications, and AmazfitCapsule of sim-platform-amazfit/src/lib.rs,   *)
(* whose frames are whole.  Consent, lifecycle, connection and consumer    *)
(* are the same code in both; `device` says which one runs.                *)
(*                                                                         *)
(* The link is the worst one can meet: any fragment of any message of any  *)
(* session may arrive at any time, again and again, or never.  A frame     *)
(* that decode_fragment refuses changes nothing and is left out.           *)
(***************************************************************************)
EXTENDS Naturals, Sequences

CONSTANTS
  Devices,         \* subset of {"halo", "amazfit"}
  Messages,        \* messages peers send
  HeaderOf,        \* what each fragment of a message says of the whole: session,
                   \* sequence, kind, count, total
  LengthsOf,       \* the payload bytes of each of its fragments
  Decodes,         \* messages whose whole payload is a valid input
  NoMessage,
  NoSession,
  MaxMessageBytes, \* MAX_MESSAGE_BYTES
  MaxPending       \* MAX_PENDING_EVENTS

Session(m)  == HeaderOf[m].session
Sequence(m) == HeaderOf[m].sequence
Count(m)    == HeaderOf[m].count
Total(m)    == HeaderOf[m].total
Sessions    == {Session(m) : m \in Messages}
Sequences   == {Sequence(m) : m \in Messages}

\* A peer gives the messages of one session different sequence numbers, and
\* no header that decode_fragment refuses.
ASSUME CompanionAssumption ==
  /\ Devices \subseteq {"halo", "amazfit"}
  /\ \A m \in Messages :
       /\ Count(m) \in Nat \ {0} /\ Total(m) \in 0 .. MaxMessageBytes
       /\ LengthsOf[m] \in [1 .. Count(m) -> Nat]
  /\ \A m, n \in Messages :
       Session(m) = Session(n) /\ Sequence(m) = Sequence(n) => m = n
  /\ NoMessage \notin Messages /\ NoSession \notin Sessions
  /\ MaxMessageBytes \in Nat /\ MaxPending \in Nat

\* A fragment is its message and its place, a payload the fragments it is
\* made of.
Pieces(m) == [i \in 1 .. Count(m) |-> <<m, i>>]
Fragments == UNION {{<<m, i>> : i \in 1 .. Count(m)} : m \in Messages}

VARIABLES
  device,     \* which of the capsules this is
  lifecycle,
  consent,
  connected,
  session,    \* `session`, or NoSession before the first connect
  seen,       \* sequences accepted in this connection
  assembly,   \* the message whose fragments are collected, or NoMessage
  payload,    \* the fragments collected
  bytes,      \* their bytes
  pending,    \* payloads of the inputs queued for the consumer
  delivered,  \* history: messages accepted since the capsule was made
  reused,     \* history: a connection took a session number used before
  repeated,   \* history: a message was accepted for the second time
  run,        \* history: the fragments that just arrived in order, as
              \* [of |-> message, upto |-> number], nothing between them
  crowded     \* history: the queue was full when the last one arrived

linkVars    == <<device, lifecycle, consent>>
sessionVars == <<connected, session, seen>>
partVars    == <<assembly, payload, bytes>>
pastVars    == <<delivered, reused, repeated>>
runVars     == <<run, crowded>>
vars == <<linkVars, sessionVars, partVars, pending, pastVars, runVars>>

NoRun == [of |-> NoMessage, upto |-> 0]

TypeOK ==
  /\ device \in Devices
  /\ lifecycle \in {"Created", "Active", "Suspended", "Destroyed"}
  /\ consent \in BOOLEAN /\ connected \in BOOLEAN
  /\ session \in Sessions \cup {NoSession}
  /\ seen \subseteq Sequences
  /\ assembly \in Messages \cup {NoMessage}
  /\ payload \in Seq(Fragments) /\ bytes \in 0 .. MaxMessageBytes
  /\ pending \in Seq(Seq(Fragments)) /\ Len(pending) <= MaxPending
  /\ delivered \subseteq Messages
  /\ reused \in BOOLEAN /\ repeated \in BOOLEAN
  /\ run \in [of : Messages \cup {NoMessage}, upto : Nat]
  /\ crowded \in BOOLEAN

Init ==
  /\ device \in Devices
  /\ lifecycle = "Created" /\ consent = FALSE
  /\ connected = FALSE /\ session = NoSession /\ seen = {}
  /\ assembly = NoMessage /\ payload = <<>> /\ bytes = 0
  /\ pending = <<>>
  /\ delivered = {} /\ reused = FALSE /\ repeated = FALSE
  /\ run = NoRun /\ crowded = FALSE

-----------------------------------------------------------------------------
(* The host: lifecycle, consent, connection, consumer.                     *)

DropAssembly == assembly' = NoMessage /\ payload' = <<>> /\ bytes' = 0

\* Fault: queued inputs stay for the consumer.
KeepInputs  == seen' = {} /\ DropAssembly /\ UNCHANGED pending
Emptied     == seen' = {} /\ DropAssembly /\ pending' = <<>>

Disconnect ==
  /\ connected' = FALSE
  /\ Emptied
  /\ run' = NoRun
  /\ UNCHANGED <<session, crowded>>

Lifecycle(state) ==
  /\ lifecycle' = state
  /\ IF state \in {"Suspended", "Destroyed"}
     THEN Disconnect
     ELSE UNCHANGED <<sessionVars, partVars, pending, runVars>>
  /\ UNCHANGED <<device, consent, pastVars>>

SetConsent(granted) ==
  /\ consent' = granted
  /\ IF granted
     THEN UNCHANGED <<sessionVars, partVars, pending, runVars>>
     ELSE Disconnect
  /\ UNCHANGED <<device, lifecycle, pastVars>>

HostDisconnects ==
  /\ Disconnect
  /\ UNCHANGED <<linkVars, pastVars>>

\* Some message of a session with that number was accepted before.
UsedBefore(s) == \E m \in delivered : Session(m) = s

Connect(s) ==
  /\ consent /\ lifecycle = "Active"
  /\ connected' = TRUE /\ session' = s
  /\ Emptied
  /\ reused' = (reused \/ UsedBefore(s))
  /\ run' = NoRun
  /\ UNCHANGED <<linkVars, delivered, repeated, crowded>>

\* next_input and next_event look at nothing but the queue.
NextInput ==
  /\ pending # <<>>
  /\ pending' = Tail(pending)
  /\ UNCHANGED <<linkVars, sessionVars, partVars, pastVars, runVars>>

-----------------------------------------------------------------------------
(* A fragment arrives.                                                     *)

RequireActive == consent /\ connected /\ lifecycle = "Active"

\* Received by an active capsule, for its session, and not a replay.
Current(m) == RequireActive /\ Session(m) = session
Fresh(m)   == Current(m) /\ Sequence(m) \notin seen

\* Fault: an accepted message is not remembered.
Forgotten(m)  == seen
Remembered(m) == seen \cup {Sequence(m)}

Accept(m, content) ==
  /\ seen' = Remembered(m)
  /\ pending' = Append(pending, content)
  /\ delivered' = delivered \cup {m}
  /\ repeated' = (repeated \/ m \in delivered)
  /\ UNCHANGED <<connected, session, reused>>

\* Fault: a first fragment joins the assembly that is open.
OpenAssembly(i) == i = 1 /\ assembly = NoMessage
Restarts(i)     == i = 1

\* The assembly after the fragment's index was looked at.
Assembling(m, i) == IF Restarts(i) THEN m ELSE assembly
Collected(i)     == IF Restarts(i) THEN <<>> ELSE payload
Size(i)          == IF Restarts(i) THEN 0 ELSE bytes

\* Fault: the place of a fragment in its message is not compared.
SameMessage(m, i) ==
  Assembling(m, i) # NoMessage /\ HeaderOf[Assembling(m, i)] = HeaderOf[m]
Expected(m, i) ==
  /\ Assembling(m, i) # NoMessage
  /\ HeaderOf[Assembling(m, i)] = HeaderOf[m]
  /\ Len(Collected(i)) + 1 = i

SizeWith(m, i)    == Size(i) + LengthsOf[m][i]
PayloadWith(m, i) == Append(Collected(i), <<m, i>>)
Complete(m, i)    == Len(Collected(i)) + 1 = Count(m)

\* Fault: the queue takes one input too many.
LastSlot == Len(pending) <= MaxPending
Room     == Len(pending) < MaxPending

\* Refused, and the assembly goes on waiting for its next fragment.
OutOfOrder(m, i) ==
  /\ ~Expected(m, i)
  /\ UNCHANGED <<partVars, pending, seen, delivered, repeated>>

Oversized(m, i) ==
  /\ Expected(m, i) /\ SizeWith(m, i) > MaxMessageBytes
  /\ DropAssembly
  /\ UNCHANGED <<pending, seen, delivered, repeated>>

Collect(m, i) ==
  /\ Expected(m, i) /\ SizeWith(m, i) <= MaxMessageBytes /\ ~Complete(m, i)
  /\ assembly' = Assembling(m, i)
  /\ payload' = PayloadWith(m, i)
  /\ bytes' = SizeWith(m, i)
  /\ UNCHANGED <<pending, seen, delivered, repeated>>

\* The last fragment: its message is taken out of the assembly whatever
\* happens to it.
Usable(m, i) == SizeWith(m, i) = Total(m) /\ m \in Decodes

Finish(m, i) ==
  /\ Expected(m, i) /\ SizeWith(m, i) <= MaxMessageBytes /\ Complete(m, i)
  /\ DropAssembly
  /\ IF Usable(m, i) /\ Room
     THEN Accept(m, PayloadWith(m, i))
     ELSE UNCHANGED <<pending, seen, delivered, repeated>>

Arrived(m, i) ==
  run' = IF ~Current(m) THEN NoRun
         ELSE IF i = 1 THEN [of |-> m, upto |-> 1]
         ELSE IF run = [of |-> m, upto |-> i - 1] THEN [of |-> m, upto |-> i]
         ELSE NoRun

ReceiveFragment(m, i) ==
  /\ device = "halo" /\ i \in 1 .. Count(m)
  /\ IF Fresh(m)
     THEN OutOfOrder(m, i) \/ Oversized(m, i) \/ Collect(m, i) \/ Finish(m, i)
     ELSE UNCHANGED <<partVars, pending, seen, delivered, repeated>>
  /\ Arrived(m, i)
  /\ crowded' = ~Room
  /\ UNCHANGED <<linkVars, connected, session, reused>>

\* A watch frame is a whole message.
ReceiveFrame(m) ==
  /\ device = "amazfit" /\ Count(m) = 1
  /\ IF Fresh(m) /\ m \in Decodes /\ Room
     THEN Accept(m, Pieces(m))
     ELSE UNCHANGED <<pending, seen, delivered, repeated>>
  /\ Arrived(m, 1)
  /\ crowded' = ~Room
  /\ UNCHANGED <<linkVars, connected, session, partVars, reused>>

Next ==
  \/ \E state \in {"Created", "Active", "Suspended", "Destroyed"} : Lifecycle(state)
  \/ \E granted \in BOOLEAN : SetConsent(granted)
  \/ HostDisconnects
  \/ \E s \in Sessions : Connect(s)
  \/ NextInput
  \/ \E m \in Messages : \E i \in 1 .. Count(m) : ReceiveFragment(m, i)
  \/ \E m \in Messages : ReceiveFrame(m)

Spec == Init /\ [][Next]_vars

-----------------------------------------------------------------------------
(* Properties.                                                             *)

\* No input outlives the consent, the lifecycle or the connection it arrived
\* under: what waits for the consumer belongs to the connection that is up.
InputsOfThisConnection ==
  pending # <<>> =>
    /\ consent /\ connected /\ lifecycle \notin {"Suspended", "Destroyed"}
    /\ \A k \in 1 .. Len(pending) :
         \E m \in delivered : pending[k] = Pieces(m) /\ Session(m) = session

\* As long as no session number is used twice no message is accepted twice,
\* however often its fragments arrive and however the connection is cut.
AcceptedOnce == ~reused => ~repeated

\* The running totals of the bytes of a message, when they end at its total.
Totals(m) ==
  {sum \in [0 .. Count(m) -> 0 .. Total(m)] :
     /\ sum[0] = 0 /\ sum[Count(m)] = Total(m)
     /\ \A i \in 1 .. Count(m) : sum[i] = sum[i - 1] + LengthsOf[m][i]}

Good(m) == m \in Decodes /\ Totals(m) # {}

\* A good message whose fragments arrive in order with nothing in between is
\* accepted, or was before, whatever remains of other messages lie in the
\* assembly; only a full queue refuses it.
InOrderAccepted ==
  run.of # NoMessage /\ run.upto = Count(run.of) /\ Good(run.of) =>
    Sequence(run.of) \in seen \/ crowded

Mailbox == INSTANCE ProxyMailbox WITH
  SessionOf <- Session,
  WholeOf   <- Pieces,
  Capacity  <- MaxPending,
  line      <- IF connected THEN session ELSE NoSession,
  accepted  <- {m \in Messages : connected /\ Session(m) = session /\ Sequence(m) \in seen},
  box       <- pending

\* Reassembly, replay detection and gating together are a mailbox: only whole
\* messages of the open session get in, each at most once, up to MaxPending.
ImplementsMailbox == Mailbox!Spec
=============================================================================
