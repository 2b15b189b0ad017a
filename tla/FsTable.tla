------------------------------ MODULE FsTable ------------------------------
(***************************************************************************)
(* One key of a filesystem table (FsDir over a HostDirPort).  A key is a   *)
(* subdirectory of its own name, or a leaf file `key.ext`, where the       *)
(* extension is inferred from the value that is first stored.  A call is   *)
(* made of several port calls: metadata for the subdirectory, metadata for *)
(* every known extension, then a read, a write, a removal or an exchange.  *)
(* Each port call happens at one instant, but for the exchange of the      *)
(* Ubuntu port, which compares and then writes, under a lock that other    *)
(* exchanges of the leaf take and nobody else does.  Between two of these  *)
(* steps every other client may act.  The in-memory port holds a mutex     *)
(* over a whole call: its runs are those where nothing comes between the   *)
(* two steps of an exchange.                                               *)
(***************************************************************************)
EXTENDS Naturals, Sequences

CONSTANTS
  Clients,
  ExtOrder,     \* known_exts, in the order they are looked for
  DefaultExt,   \* DEFAULT_EXT, "siml"
  DomainExts,   \* the extensions with an encoder of their own, such as "mid"
  Values,
  InferredExt,  \* the domain extension a value infers, or NoExt
  Texts,        \* the values that are strings, which edit accepts
  FoundExts,    \* extensions of leaves that other programs left for the key
  NoExt, Absent, Garbage, NoCall

Exts == {ExtOrder[i] : i \in DOMAIN ExtOrder}

ASSUME FsTableAssumption ==
  /\ ExtOrder \in Seq(STRING) /\ DefaultExt \in Exts
  /\ \A i, j \in DOMAIN ExtOrder : ExtOrder[i] = ExtOrder[j] => i = j
  /\ DomainExts \subseteq Exts \ {DefaultExt} /\ FoundExts \subseteq Exts
  /\ InferredExt \in [Values -> DomainExts \cup {NoExt}]
  /\ Texts \subseteq {v \in Values : InferredExt[v] = NoExt}
  /\ NoExt \notin Exts /\ Absent \notin Values /\ Garbage \notin Values
  /\ Absent # Garbage

VARIABLES
  leaf,       \* per extension, the content of `key.ext`, or Absent
  directory,  \* the key is a subdirectory
  home,       \* bound: the extension that all values written here infer
  call,       \* the call each client is in, or NoCall
  job,        \* where it is in that call, and what it found so far
  reply,      \* its last answer
  seen,       \* history: what the key held during the call
  crossed     \* history: the clients between the two steps of an exchange, since
              \* whose first one a leaf changed without the lock

vars == <<leaf, directory, home, call, job, reply, seen, crossed>>

(***************************************************************************)
(* Values and contents.  A content is a value in the form of an extension: *)
(* only the decoder of that extension reads it back.  Leaves without an    *)
(* encoder of their own are written by codec/lisp, the form of siml.       *)
(***************************************************************************)
Contents == [form : Exts, value : Values]

Encodable(e, v) == e \in DomainExts => InferredExt[v] = e

\* Fault: every value is written by codec/lisp.
LispOnly(e, v) == [form |-> DefaultExt, value |-> v]

Encode(e, v) == [form |-> IF e \in DomainExts THEN e ELSE DefaultExt, value |-> v]
Decode(e, x) == IF x.form = e THEN x.value ELSE Garbage

InferExt(v) ==
  IF v = Absent \/ InferredExt[v] = NoExt THEN DefaultExt ELSE InferredExt[v]

Written == {v \in Values : InferExt(v) = home}
Several(found) == \E d, e \in found : d # e
Leaves == {e \in Exts : leaf[e] # Absent}

\* What the key holds: one value, unless it has several leaves.
Held ==
  IF Leaves = {} THEN {Absent} ELSE {Decode(e, leaf[e]) : e \in Leaves}

(***************************************************************************)
(* Calls and answers.                                                      *)
(***************************************************************************)
Requests ==
  [op : {"get", "has", "del", "clear", "mkdir", "rmdir"}]
    \cup [op : {"set"}, new : Values]
    \cup [op : {"edit"}, new : Texts]
    \cup [op : {"cas"}, expected : Values \cup {Absent}, new : Values \cup {Absent}]

Kinds == {"none", "error", "done", "missing", "present", "value",
          "exchanged", "refused"}

Replies == [is : Kinds, value : Values \cup {Absent}]
Said(kind) == [is |-> kind, value |-> Absent]

Places == {"idle", "list", "base", "scan", "rescan", "purge", "read", "write",
           "remove", "swap", "commit", "mkdir", "rmdir"}

Jobs == [at : Places, asked : 0 .. Len(ExtOrder), found : SUBSET Exts,
         existing : SUBSET Exts, saw : Values \cup {Absent}]

Idle == [at |-> "idle", asked |-> 0, found |-> {}, existing |-> {}, saw |-> Absent]

Entry(op) ==
  CASE op = "clear" -> "list"
    [] op \in {"set", "has", "rmdir"} -> "base"
    [] op \in {"get", "del", "edit", "cas", "mkdir"} -> "scan"

ASSUME NamesAssumption == NoCall \notin Requests /\ Absent \notin Contents

TypeStore ==
  leaf \in [Exts -> Contents \cup {Absent}] /\ directory \in BOOLEAN /\ home \in Exts

TypeCalls ==
  /\ call \in [Clients -> Requests \cup {NoCall}]
  /\ job \in [Clients -> Jobs]
  /\ reply \in [Clients -> Replies]
  /\ \A c \in Clients : /\ call[c] = NoCall <=> job[c].at = "idle"
                        /\ ~Several(job[c].existing)

TypeSeen ==
  seen \in [Clients -> SUBSET (Values \cup {Absent, Garbage})] /\ crossed \subseteq Clients

TypeOK == TypeStore /\ TypeCalls /\ TypeSeen

Init ==
  /\ home \in {InferExt(v) : v \in Values}
  /\ \/ leaf = [e \in Exts |-> Absent]
     \/ \E e \in {home} \cup FoundExts, v \in Values :
          /\ Encodable(e, v) /\ (e = home => InferExt(v) = home)
          /\ leaf = [d \in Exts |-> IF d = e THEN [form |-> e, value |-> v]
                                             ELSE Absent]
  /\ directory = FALSE
  /\ call = [c \in Clients |-> NoCall]
  /\ job = [c \in Clients |-> Idle]
  /\ reply = [c \in Clients |-> Said("none")]
  /\ seen = [c \in Clients |-> {}] /\ crossed = {}

(***************************************************************************)
(* Steps of a call.                                                        *)
(***************************************************************************)
At(c, place) == call[c] # NoCall /\ job[c].at = place

Proceed(c, j) == job' = [job EXCEPT ![c] = j] /\ UNCHANGED <<call, reply>>
Goto(c, place) == Proceed(c, [job[c] EXCEPT !.at = place])

Answer(c, r) ==
  /\ reply' = [reply EXCEPT ![c] = r]
  /\ call' = [call EXCEPT ![c] = NoCall]
  /\ job' = [job EXCEPT ![c] = Idle]

\* A port call that took effect may still report an error (a failing sync).
Effective(c, r) == Answer(c, r) \/ Answer(c, Said("error"))

\* History: replace and remove_file take no lock.
WritesUnlocked(c) ==
  job[c].at \in {"purge", "write", "remove"} /\ job'[c] # job[c] /\ leaf' # leaf

\* History: what the key held since a call began, and which exchanges were crossed.
Witness ==
  /\ seen' = [c \in Clients |-> IF call'[c] = NoCall THEN {} ELSE seen[c] \cup Held']
  /\ crossed' = {c \in Clients :
                   /\ job'[c].at = "commit"
                   /\ \/ c \in crossed
                      \/ job[c].at = "commit" /\ \E d \in Clients : WritesUnlocked(d)}

Quiet == UNCHANGED <<leaf, directory, home>> /\ Witness

Allowed(r) ==
  /\ r.op = "set" => r.new \in Written
  /\ r.op = "cas" => r.new \in Written \cup {Absent}

Begin(c, r) ==
  /\ call[c] = NoCall /\ Allowed(r)
  /\ call' = [call EXCEPT ![c] = r]
  /\ job' = [job EXCEPT ![c] = [Idle EXCEPT !.at = Entry(r.op)]]
  /\ reply' = [reply EXCEPT ![c] = Said("none")]
  /\ Quiet

\* keys, of which clear only deletes those that are there.
List(c) ==
  /\ At(c, "list")
  /\ IF directory \/ Leaves # {} THEN Goto(c, "base") ELSE Answer(c, Said("done"))
  /\ Quiet

\* The metadata of the key's own name, and what each call makes of a directory.
OnDirectory(c) ==
  CASE call[c].op = "rmdir" -> Goto(c, "rmdir")
    [] call[c].op = "has"   -> Answer(c, Said("present"))
    [] call[c].op = "clear" -> Answer(c, Said("done"))
    [] call[c].op = "set"   -> Answer(c, Said("error"))

AskBase(c) ==
  /\ At(c, "base")
  /\ \/ directory /\ OnDirectory(c)
     \/ ~directory /\ call[c].op = "rmdir" /\ Answer(c, Said("error"))
     \/ ~directory /\ call[c].op # "rmdir" /\ Goto(c, "scan")
  /\ Quiet

\* leaf_candidates: one metadata call for each known extension.
Scanning(c) == At(c, "scan") \/ At(c, "rescan")

AskLeaf(c) ==
  /\ Scanning(c) /\ job[c].asked < Len(ExtOrder)
  /\ LET e == ExtOrder[job[c].asked + 1]
     IN Proceed(c, [job[c] EXCEPT !.asked = @ + 1,
                                  !.found = @ \cup ({e} \cap Leaves)])
  /\ Quiet

\* Fault: the last extension is not asked for.
ScannedButOne(c, place) == At(c, place) /\ job[c].asked = Len(ExtOrder) - 1

Scanned(c, place) == At(c, place) /\ job[c].asked = Len(ExtOrder)
Found(c, place) ==
  [job[c] EXCEPT !.at = place, !.asked = 0, !.found = {}, !.existing = job[c].found]

\* leaf_path_for_read, and what each call does next.
WithoutLeaf(c) ==
  CASE call[c].op \in {"get", "has", "del"} -> Answer(c, Said("missing"))
    [] call[c].op = "clear" -> Answer(c, Said("done"))
    [] call[c].op = "edit"  -> Answer(c, Said("error"))
    [] call[c].op = "mkdir" -> Proceed(c, Found(c, "mkdir"))
    [] call[c].op = "set"   -> Proceed(c, Found(c, "rescan"))
    [] call[c].op = "cas"   -> Proceed(c, Found(c, "swap"))

WithLeaf(c) ==
  CASE call[c].op = "has"   -> Answer(c, Said("present"))
    [] call[c].op = "mkdir" -> Answer(c, Said("error"))
    [] call[c].op \in {"del", "clear", "edit"} -> Proceed(c, Found(c, "read"))
    [] call[c].op \in {"get", "set"} -> Proceed(c, Found(c, "rescan"))
    [] call[c].op = "cas"   -> Proceed(c, Found(c, "swap"))

FindLeaf(c) ==
  /\ Scanned(c, "scan")
  /\ IF Several(job[c].found) THEN Answer(c, Said("error"))
     ELSE IF job[c].found = {} THEN WithoutLeaf(c) ELSE WithLeaf(c)
  /\ Quiet

\* get looks for its leaf a second time, in read_leaf_expr.
FindAgain(c) ==
  /\ Scanned(c, "rescan") /\ call[c].op = "get"
  /\ IF Several(job[c].found) \/ job[c].found = {}
     THEN Answer(c, Said("error"))
     ELSE Proceed(c, Found(c, "read"))
  /\ Quiet

\* Fault: a new leaf is always named .siml.
TargetUninferred(c) ==
  IF job[c].existing = {} THEN DefaultExt
  ELSE CHOOSE e \in job[c].existing : TRUE

\* The extension a call works on: that of the leaf it found, or the inferred one.
Target(c) ==
  IF job[c].existing = {} THEN InferExt(call[c].new)
  ELSE CHOOSE e \in job[c].existing : TRUE

\* Fault: the leaf that is about to be replaced is removed as well.
AllButDefault(c) == job[c].found \ {DefaultExt}

\* set removes the candidates that are neither the leaf it found nor siml.
Superfluous(c) == (job[c].found \ job[c].existing) \ {DefaultExt}

FindRivals(c) ==
  /\ Scanned(c, "rescan") /\ call[c].op = "set"
  /\ Proceed(c, [job[c] EXCEPT !.at = "purge", !.found = Superfluous(c)])
  /\ Quiet

FirstOf(found, e) ==
  \E i \in DOMAIN ExtOrder : /\ ExtOrder[i] = e /\ e \in found
                             /\ \A j \in 1 .. i - 1 : ExtOrder[j] \notin found

RemoveRival(c, e) ==
  /\ At(c, "purge") /\ FirstOf(job[c].found, e)
  /\ IF leaf[e] = Absent
     THEN Answer(c, Said("error")) /\ UNCHANGED leaf
     ELSE /\ leaf' = [leaf EXCEPT ![e] = Absent]
          /\ Proceed(c, [job[c] EXCEPT !.found = @ \ {e}])
  /\ UNCHANGED <<directory, home>> /\ Witness

EncodeValue(c) ==
  /\ At(c, "purge") /\ job[c].found = {}
  /\ IF Encodable(Target(c), call[c].new)
     THEN Goto(c, "write") ELSE Answer(c, Said("error"))
  /\ Quiet

\* read_leaf_path.  An edit may find that it does not apply to the text.
ReadLeaf(c) ==
  /\ At(c, "read")
  /\ LET x == leaf[Target(c)]
         v == IF x = Absent THEN Garbage ELSE Decode(Target(c), x)
     IN \/ /\ v = Garbage \/ (call[c].op = "edit")
           /\ Answer(c, Said("error"))
        \/ /\ v # Garbage /\ call[c].op = "get"
           /\ Answer(c, [is |-> "value", value |-> v])
        \/ /\ v # Garbage /\ call[c].op \in {"del", "clear"}
           /\ Proceed(c, [job[c] EXCEPT !.at = "remove", !.saw = v])
        \/ /\ v \in Texts /\ call[c].op = "edit"
           /\ Encodable(Target(c), call[c].new)
           /\ Goto(c, "write")
  /\ Quiet

WriteLeaf(c) ==
  /\ At(c, "write")
  /\ leaf' = [leaf EXCEPT ![Target(c)] = Encode(Target(c), call[c].new)]
  /\ Effective(c, Said("done"))
  /\ UNCHANGED <<directory, home>> /\ Witness

RemoveLeaf(c) ==
  /\ At(c, "remove")
  /\ IF leaf[Target(c)] = Absent
     THEN Answer(c, Said("error")) /\ UNCHANGED leaf
     ELSE /\ leaf' = [leaf EXCEPT ![Target(c)] = Absent]
          /\ Effective(c, IF call[c].op = "del"
                          THEN [is |-> "value", value |-> job[c].saw]
                          ELSE Said("done"))
  /\ UNCHANGED <<directory, home>> /\ Witness

\* compare_exchange: both values are encoded before the port is asked, the
\* content it met is decoded after it acted.
SwapEncodable(c) ==
  \A v \in {call[c].expected, call[c].new} \ {Absent} : Encodable(Target(c), v)

\* Fault: a deletion leaves an empty leaf behind.
EmptyStored(e, v) == Encode(e, v)

Stored(e, v) == IF v = Absent THEN Absent ELSE Encode(e, v)

\* The port compares bytes: the leaf as it is with the expected value, encoded.
Exchanges(c) == leaf[Target(c)] = Stored(Target(c), call[c].expected)

\* Fault: the lock keeps nobody out.
NoLock(c) == TRUE

\* The leaf's lock is held from the comparison to the end of the exchange.
LeafFree(c) ==
  \A d \in Clients : d # c /\ At(d, "commit") => Target(d) # Target(c)

\* Lock, read and compare; without a match the content is the answer.
Compare(c) ==
  /\ At(c, "swap") /\ SwapEncodable(c) /\ LeafFree(c)
  /\ LET e == Target(c)
         value == IF leaf[e] = Absent THEN Absent ELSE Decode(e, leaf[e])
     IN \/ Exchanges(c) /\ Goto(c, "commit")
        \/ ~Exchanges(c) /\ value = Garbage /\ Answer(c, Said("error"))
        \/ ~Exchanges(c) /\ value # Garbage
           /\ Effective(c, [is |-> "refused", value |-> value])
  /\ Quiet

\* What the exchange met, decoded: the expected value as its leaf holds it.
Observed(c) ==
  IF call[c].expected = Absent THEN Absent
  ELSE Decode(Target(c), Encode(Target(c), call[c].expected))

\* Replace the leaf or remove it, unless there was none to remove.  Removing
\* fails on a leaf that somebody else has removed meanwhile.
Commit(c) ==
  /\ At(c, "commit")
  /\ LET e == Target(c)
         removes == call[c].new = Absent /\ call[c].expected # Absent
     IN /\ leaf' = IF call[c].new # Absent \/ removes
                   THEN [leaf EXCEPT ![e] = Stored(e, call[c].new)] ELSE leaf
        /\ IF (removes /\ leaf[e] = Absent) \/ Observed(c) = Garbage
           THEN Answer(c, Said("error"))
           ELSE Effective(c, [is |-> "exchanged", value |-> Observed(c)])
  /\ UNCHANGED <<directory, home>> /\ Witness

SwapRefused(c) ==
  /\ At(c, "swap") /\ ~SwapEncodable(c)
  /\ Answer(c, Said("error"))
  /\ Quiet

MakeDir(c) ==
  /\ At(c, "mkdir")
  /\ directory' = TRUE
  /\ Effective(c, Said("done"))
  /\ UNCHANGED <<leaf, home>> /\ Witness

RemoveDir(c) ==
  /\ At(c, "rmdir")
  /\ directory' = FALSE
  /\ \/ directory /\ Effective(c, Said("done"))
     \/ ~directory /\ Answer(c, Said("error"))
  /\ UNCHANGED <<leaf, home>> /\ Witness

\* A port call fails without effect; the client may also be gone for good.
PortFails(c) ==
  /\ call[c] # NoCall
  /\ Scanning(c) => job[c].asked < Len(ExtOrder)
  /\ At(c, "purge") => job[c].found # {}
  /\ Answer(c, Said("error"))
  /\ Quiet

Next ==
  \E c \in Clients :
    \/ \E r \in Requests : Begin(c, r)
    \/ List(c) \/ AskBase(c) \/ AskLeaf(c) \/ FindLeaf(c) \/ FindAgain(c)
    \/ FindRivals(c) \/ (\E e \in Exts : RemoveRival(c, e)) \/ EncodeValue(c)
    \/ ReadLeaf(c) \/ WriteLeaf(c) \/ RemoveLeaf(c) \/ Compare(c) \/ Commit(c)
    \/ SwapRefused(c)
    \/ MakeDir(c) \/ RemoveDir(c) \/ PortFails(c)

Spec == Init /\ [][Next]_vars

(***************************************************************************)
(* Properties.                                                             *)
(***************************************************************************)
Answers(c) == call[c] # NoCall /\ call'[c] = NoCall
During(c) == seen[c] \cup Held'

\* While all values written under a key infer one extension, calls that
\* interleave between looking the leaf up and writing it never give the key a
\* second leaf, after which every lookup would fail.
OneLeaf == ~Several(Leaves)

\* What a table stores can be read back: the decoder of a leaf's extension
\* reads the form its content was written in.
LeavesDecode == Garbage \notin Held

\* A call that looks a leaf up and reads it later answers with a value, or with
\* the absence, that the key really had at some moment of the call.
AnswersWereHeld ==
  [][\A c \in Clients : Answers(c) =>
       /\ reply'[c].is \in {"value", "refused"} => reply'[c].value \in During(c)
       /\ reply'[c].is = "missing" => Absent \in During(c)]_vars

\* A compare-exchange finds the leaf first, compares it later and writes last.  If
\* it changes the key then the whole key held the expected value at that instant,
\* or somebody wrote in between without the lock (a set, an edit, a removal, and
\* never another exchange); in every case the key then holds the new value.  If
\* it claims an exchange, the key held both values during the call.
ExchangeIsExact ==
  [][\A c \in Clients : At(c, "commit") /\ Answers(c) =>
       /\ Held' # Held => /\ Held = {call[c].expected} \/ c \in crossed
                          /\ Held' = {call[c].new}
       /\ reply'[c].is = "exchanged" => /\ call[c].expected \in During(c)
                                        /\ call[c].new \in During(c)]_vars

MayClear(c) ==
  \/ At(c, "remove")
  \/ At(c, "commit") /\ call[c].new = Absent
  \/ At(c, "purge") /\ Absent \in seen[c]

\* Storing a value never makes the key absent, except in one race: a set that
\* found no leaf, while somebody stores one under a domain extension, removes
\* that leaf before it writes its own.
ClearedOnlyBy ==
  [][Held # {Absent} /\ Held' = {Absent} =>
       \E c \in Clients : job'[c] # job[c] /\ MayClear(c)]_vars
=============================================================================
