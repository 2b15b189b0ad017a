--------------------------- MODULE FsTableProofs ---------------------------
(***************************************************************************)
(* Theorems about FsTable, for any clients, extensions and values.         *)
(***************************************************************************)
EXTENDS FsTable, TLAPS

\* Which calls get to which place, that a call which reads or removes a leaf has
\* found one, that set spares the leaf it found, and that a call begins before it
\* scans.
Route(op, j) ==
  /\ j.at = "list"   => op = "clear"
  /\ j.at = "base"   => op \in {"clear", "set", "has", "rmdir"}
  /\ j.at = "scan"   => op # "rmdir"
  /\ j.at = "rescan" => op \in {"get", "set"}
  /\ j.at = "purge"  => op = "set" /\ j.found \cap j.existing = {}
  /\ j.at = "read"   => op \in {"get", "del", "clear", "edit"} /\ j.existing # {}
  /\ j.at = "write"  => op = "set" \/ (op = "edit" /\ j.existing # {})
  /\ j.at = "remove" => op \in {"del", "clear"} /\ j.existing # {}
  /\ j.at \in {"swap", "commit"} => op = "cas"
  /\ j.at \in {"list", "base"} => j.asked = 0

Routed == \A c \in Clients : call[c] # NoCall => Route(call[c].op, job[c])

TypeInv == TypeOK /\ Routed

-----------------------------------------------------------------------------
(* Types.                                                                  *)

\* A new place in a call, reached with what the call may know.
LEMMA ProceedType ==
  ASSUME TypeCalls, Routed, NEW c \in Clients, call[c] # NoCall,
         NEW j \in Jobs, j.at # "idle", ~Several(j.existing),
         Route(call[c].op, j), Proceed(c, j)
  PROVE  TypeCalls' /\ Routed'
<1>1. /\ job' = [job EXCEPT ![c] = j]
      /\ call' = call /\ reply' = reply
  BY DEF Proceed
<1>2. job' \in [Clients -> Jobs] /\ job'[c] = j
      /\ \A d \in Clients : d # c => job'[d] = job[d]
  BY <1>1 DEF TypeCalls
<1> QED
  BY <1>1, <1>2 DEF TypeCalls, Routed

LEMMA AnswerType ==
  ASSUME TypeCalls, Routed, NEW c \in Clients, NEW r \in Replies, Answer(c, r)
  PROVE  TypeCalls' /\ Routed'
<1>1. Idle \in Jobs /\ Idle.at = "idle" /\ Idle.existing = {}
  <2>1. 0 \in 0 .. Len(ExtOrder)
    BY FsTableAssumption
  <2> QED
    BY <2>1 DEF Idle, Jobs, Places
<1>2. /\ job' = [job EXCEPT ![c] = Idle]
      /\ call' = [call EXCEPT ![c] = NoCall]
      /\ reply' = [reply EXCEPT ![c] = r]
  BY DEF Answer
<1>3. /\ job' \in [Clients -> Jobs] /\ call' \in [Clients -> Requests \cup {NoCall}]
      /\ reply' \in [Clients -> Replies]
      /\ job'[c] = Idle /\ call'[c] = NoCall
      /\ \A d \in Clients : d # c => job'[d] = job[d] /\ call'[d] = call[d]
  BY <1>1, <1>2 DEF TypeCalls
<1> QED
  BY <1>1, <1>3 DEF TypeCalls, Routed, Several

LEMMA SaidType == \A kind \in Kinds : Said(kind) \in Replies
BY DEF Said, Replies

\* Requests have the fields that their calls look at.
LEMMA RequestFields ==
  ASSUME NEW r \in Requests
  PROVE  /\ r.op \in {"get", "has", "del", "clear", "mkdir", "rmdir", "set",
                      "edit", "cas"}
         /\ r.op = "set" => r.new \in Values
         /\ r.op = "edit" => r.new \in Texts /\ r.new \in Values
         /\ r.op = "cas" => /\ r.expected \in Values \cup {Absent}
                            /\ r.new \in Values \cup {Absent}
BY FsTableAssumption DEF Requests

LEMMA Callers ==
  ASSUME TypeCalls, NEW c \in Clients, NEW place \in Places, At(c, place)
  PROVE  call[c] \in Requests /\ call[c] # NoCall /\ job[c] \in Jobs
BY DEF TypeCalls, At

LEMMA InferExtType ==
  ASSUME NEW v \in Values \cup {Absent}
  PROVE  InferExt(v) \in DomainExts \cup {DefaultExt} /\ InferExt(v) \in Exts
BY FsTableAssumption DEF InferExt

LEMMA EncodeType ==
  ASSUME NEW e \in Exts, NEW v \in Values
  PROVE  Encode(e, v) \in Contents
BY FsTableAssumption DEF Encode, Contents

\* A call's target is the leaf it found, or the inferred one.
LEMMA TargetType ==
  ASSUME TypeCalls, NEW c \in Clients, job[c].existing # {} \/ call[c].new \in Values \cup {Absent}
  PROVE  /\ Target(c) \in Exts
         /\ job[c].existing # {} => Target(c) \in job[c].existing
<1>1. CASE job[c].existing = {}
  BY <1>1, InferExtType DEF Target
<1>2. CASE job[c].existing # {}
  <2>1. PICK e \in job[c].existing : TRUE
    BY <1>2
  <2>2. (CHOOSE x \in job[c].existing : TRUE) \in job[c].existing
    BY <2>1
  <2>3. job[c].existing \subseteq Exts
    BY DEF TypeCalls, Jobs
  <2> QED
    BY <1>2, <2>2, <2>3 DEF Target
<1> QED
  BY <1>1, <1>2

LEMMA TypeInit == Init => TypeInv
<1> SUFFICES ASSUME Init PROVE TypeInv
  OBVIOUS
<1>1. home \in Exts
  BY InferExtType DEF Init
<1>2. leaf \in [Exts -> Contents \cup {Absent}]
  <2>1. CASE leaf = [e \in Exts |-> Absent]
    BY <2>1
  <2>2. ASSUME NEW e \in {home} \cup FoundExts, NEW v \in Values,
               leaf = [d \in Exts |-> IF d = e THEN [form |-> e, value |-> v]
                                               ELSE Absent]
        PROVE  leaf \in [Exts -> Contents \cup {Absent}]
    <3>1. [form |-> e, value |-> v] \in Contents
      BY <1>1, FsTableAssumption DEF Contents
    <3> QED
      BY <2>2, <3>1
  <2> QED
    BY <2>1, <2>2 DEF Init
<1>3. Idle \in Jobs /\ Idle.at = "idle" /\ Idle.existing = {}
  <2>1. 0 \in 0 .. Len(ExtOrder)
    BY FsTableAssumption
  <2> QED
    BY <2>1 DEF Idle, Jobs, Places
<1>4. TypeCalls /\ Routed
  BY <1>3, SaidType DEF Init, TypeCalls, Routed, Several, Kinds
<1> QED
  BY <1>1, <1>2, <1>4 DEF Init, TypeInv, TypeOK, TypeStore, TypeSeen

\* The history keeps its type: it collects what the key holds.
LEMMA WitnessType ==
  ASSUME TypeSeen, TypeStore', Witness
  PROVE  TypeSeen'
<1>1. Held' \subseteq Values \cup {Absent, Garbage}
  BY DEF TypeStore, Held, Leaves, Decode, Contents
<1> QED
  BY <1>1 DEF TypeSeen, Witness

\* Steps that leave the store alone keep its type.
LEMMA QuietType == ASSUME TypeStore, Quiet PROVE TypeStore'
BY DEF TypeStore, Quiet

\* One step of one client keeps types and routes of its call and of the store.
LEMMA TypeBegin ==
  ASSUME TypeInv, NEW c \in Clients, NEW r \in Requests, Begin(c, r)
  PROVE  TypeCalls' /\ Routed'
<1> DEFINE j == [Idle EXCEPT !.at = Entry(r.op)]
<1>1. /\ Entry(r.op) \in {"list", "base", "scan"}
      /\ Entry(r.op) = "list" => r.op = "clear"
      /\ Entry(r.op) = "base" => r.op \in {"clear", "set", "has", "rmdir"}
      /\ Entry(r.op) = "scan" => r.op # "rmdir"
  BY RequestFields DEF Entry
<1>2. j \in Jobs /\ j.at = Entry(r.op) /\ j.existing = {} /\ j.asked = 0
  <2>1. 0 \in 0 .. Len(ExtOrder)
    BY FsTableAssumption
  <2> QED
    BY <1>1, <2>1 DEF Idle, Jobs, Places
<1>3. /\ job' = [job EXCEPT ![c] = j]
      /\ call' = [call EXCEPT ![c] = r]
      /\ reply' = [reply EXCEPT ![c] = Said("none")]
  BY DEF Begin
<1>4. TypeCalls
  BY DEF TypeInv, TypeOK
<1>5. /\ job' \in [Clients -> Jobs] /\ call' \in [Clients -> Requests \cup {NoCall}]
      /\ reply' \in [Clients -> Replies]
      /\ job'[c] = j /\ call'[c] = r
      /\ \A d \in Clients : d # c => job'[d] = job[d] /\ call'[d] = call[d]
  BY <1>2, <1>3, <1>4, SaidType DEF TypeCalls, Kinds
<1> HIDE DEF j
<1>6. TypeCalls'
  BY <1>1, <1>2, <1>4, <1>5, NamesAssumption DEF TypeCalls, Several
<1>7. Route(r.op, j)
  BY <1>1, <1>2 DEF Route
<1> QED
  BY <1>5, <1>6, <1>7 DEF Routed, TypeInv

\* Going on, at another place and with what was found there.
LEMMA GotoType ==
  ASSUME TypeCalls, Routed, NEW c \in Clients, call[c] # NoCall,
         NEW place \in Places \ {"idle"}, Goto(c, place),
         Route(call[c].op, [job[c] EXCEPT !.at = place])
  PROVE  TypeCalls' /\ Routed'
<1> DEFINE j == [job[c] EXCEPT !.at = place]
<1>1. j \in Jobs /\ j.at = place /\ ~Several(j.existing)
  BY DEF TypeCalls, Jobs
<1> HIDE DEF j
<1>2. Proceed(c, j) /\ Route(call[c].op, j)
  BY DEF Goto, j
<1> QED
  BY <1>1, <1>2, ProceedType

LEMMA FoundType ==
  ASSUME TypeCalls, Routed, NEW c \in Clients, call[c] # NoCall,
         NEW place \in Places \ {"idle"}, ~Several(job[c].found),
         Proceed(c, Found(c, place)), Route(call[c].op, Found(c, place))
  PROVE  TypeCalls' /\ Routed'
<1> DEFINE j == Found(c, place)
<1>1. j \in Jobs /\ j.at = place /\ ~Several(j.existing)
  <2>1. 0 \in 0 .. Len(ExtOrder)
    BY FsTableAssumption
  <2> QED
    BY <2>1 DEF TypeCalls, Jobs, Found
<1> HIDE DEF j
<1>2. Proceed(c, j) /\ Route(call[c].op, j)
  BY DEF j
<1> QED
  BY <1>1, <1>2, ProceedType

LEMMA EffectiveType ==
  ASSUME TypeCalls, Routed, NEW c \in Clients, NEW r \in Replies, Effective(c, r)
  PROVE  TypeCalls' /\ Routed'
BY AnswerType, SaidType DEF Effective, Kinds

\* The steps that look, and change nothing in the store.
LEMMA TypeLooks ==
  ASSUME TypeInv, NEW c \in Clients,
         List(c) \/ AskBase(c) \/ AskLeaf(c) \/ FindLeaf(c) \/ FindAgain(c)
  PROVE  TypeCalls' /\ Routed'
<1>0. TypeStore /\ TypeCalls /\ Routed
  BY DEF TypeInv, TypeOK
<1>1. CASE List(c)
  <2>1. call[c] \in Requests /\ call[c] # NoCall /\ job[c] \in Jobs
        /\ call[c].op = "clear" /\ job[c].asked = 0
    BY <1>0, <1>1, Callers DEF List, At, Places, Routed, Route
  <2>2. Route(call[c].op, [job[c] EXCEPT !.at = "base"])
    BY <2>1 DEF Route, Jobs
  <2>3. Goto(c, "base") \/ Answer(c, Said("done"))
    BY <1>1 DEF List
  <2> QED
    BY <1>0, <2>1, <2>2, <2>3, GotoType, AnswerType, SaidType DEF Kinds, Places
<1>2. CASE AskBase(c)
  <2>1. call[c] \in Requests /\ call[c] # NoCall /\ job[c] \in Jobs
        /\ call[c].op \in {"clear", "set", "has", "rmdir"}
    BY <1>0, <1>2, Callers DEF AskBase, At, Places, Routed, Route
  <2>2. call[c].op # "rmdir" => Route(call[c].op, [job[c] EXCEPT !.at = "scan"])
    BY <2>1 DEF Route, Jobs
  <2>3. Route(call[c].op, [job[c] EXCEPT !.at = "rmdir"])
    BY <2>1 DEF Route, Jobs
  <2>4. \/ Goto(c, "rmdir")
        \/ call[c].op # "rmdir" /\ Goto(c, "scan")
        \/ \E kind \in Kinds : Answer(c, Said(kind))
    BY <1>2, <2>1 DEF AskBase, OnDirectory, Kinds
  <2> QED
    BY <1>0, <2>1, <2>2, <2>3, <2>4, GotoType, AnswerType, SaidType DEF Places
<1>3. CASE AskLeaf(c)
  <2> DEFINE e == ExtOrder[job[c].asked + 1]
             j == [job[c] EXCEPT !.asked = @ + 1, !.found = @ \cup ({e} \cap Leaves)]
  <2>1. call[c] \in Requests /\ call[c] # NoCall /\ job[c] \in Jobs
        /\ job[c].at \in {"scan", "rescan"} /\ job[c].asked < Len(ExtOrder)
    BY <1>0, <1>3, Callers DEF AskLeaf, Scanning, At, Places, Routed, Route
  <2>2. job[c].asked \in 0 .. Len(ExtOrder) /\ Len(ExtOrder) \in Nat
    BY <2>1, FsTableAssumption DEF Jobs
  <2>3. job[c].asked + 1 \in 0 .. Len(ExtOrder)
    BY <2>1, <2>2
  <2>4. job[c].found \cup ({e} \cap Leaves) \subseteq Exts
    BY <2>1 DEF Jobs, Leaves
  <2>5. j \in Jobs /\ j.at = job[c].at /\ j.existing = job[c].existing
    BY <2>1, <2>3, <2>4 DEF Jobs
  <2>6. ~Several(j.existing) /\ Route(call[c].op, j)
    BY <1>0, <2>1, <2>5 DEF TypeCalls, Routed, Route
  <2>7. Proceed(c, j)
    BY <1>3 DEF AskLeaf
  <2> HIDE DEF j
  <2> QED
    BY <1>0, <2>1, <2>5, <2>6, <2>7, ProceedType
<1>4. CASE FindLeaf(c)
  <2>1. call[c] \in Requests /\ call[c] # NoCall /\ job[c] \in Jobs
        /\ call[c].op # "rmdir"
    BY <1>0, <1>4, Callers DEF FindLeaf, Scanned, At, Places, Routed, Route
  <2>2. \/ \E kind \in Kinds : Answer(c, Said(kind))
        \/ /\ ~Several(job[c].found)
           /\ \/ Proceed(c, Found(c, "mkdir"))
              \/ call[c].op \in {"get", "set"} /\ Proceed(c, Found(c, "rescan"))
              \/ call[c].op = "cas" /\ Proceed(c, Found(c, "swap"))
              \/ /\ call[c].op \in {"del", "clear", "edit"} /\ job[c].found # {}
                 /\ Proceed(c, Found(c, "read"))
    <3>1. CASE Several(job[c].found)
      BY <1>4, <3>1 DEF FindLeaf, Kinds
    <3>2. CASE ~Several(job[c].found) /\ job[c].found = {}
      BY <1>4, <2>1, <3>2, RequestFields DEF FindLeaf, WithoutLeaf, Kinds
    <3>3. CASE ~Several(job[c].found) /\ job[c].found # {}
      BY <1>4, <2>1, <3>3, RequestFields DEF FindLeaf, WithLeaf, Kinds
    <3> QED
      BY <3>1, <3>2, <3>3
  <2>3. \A place \in Places : /\ Found(c, place).at = place
                             /\ Found(c, place).existing = job[c].found
    BY <2>1 DEF Found, Jobs
  <2>4. /\ Route(call[c].op, Found(c, "mkdir"))
        /\ call[c].op \in {"get", "set"} => Route(call[c].op, Found(c, "rescan"))
        /\ call[c].op = "cas" => Route(call[c].op, Found(c, "swap"))
        /\ call[c].op \in {"del", "clear", "edit"} /\ job[c].found # {} =>
             Route(call[c].op, Found(c, "read"))
    BY <2>3 DEF Route, Places
  <2> QED
    BY <1>0, <2>1, <2>2, <2>4, FoundType, AnswerType, SaidType DEF Places
<1>5. CASE FindAgain(c)
  <2>1. call[c] \in Requests /\ call[c] # NoCall /\ job[c] \in Jobs
        /\ call[c].op = "get"
    BY <1>0, <1>5, Callers DEF FindAgain, Scanned, At, Places
  <2>2. \/ Answer(c, Said("error"))
        \/ /\ ~Several(job[c].found) /\ job[c].found # {}
           /\ Proceed(c, Found(c, "read"))
    BY <1>5 DEF FindAgain
  <2>3. job[c].found # {} => Route(call[c].op, Found(c, "read"))
    BY <2>1 DEF Route, Found, Jobs
  <2> QED
    BY <1>0, <2>1, <2>2, <2>3, FoundType, AnswerType, SaidType DEF Places, Kinds
<1> QED
  BY <1>1, <1>2, <1>3, <1>4, <1>5

\* The steps of a call that works on the leaf it found.
LEMMA TypeWorks ==
  ASSUME TypeInv, NEW c \in Clients,
         FindRivals(c) \/ EncodeValue(c) \/ ReadLeaf(c)
  PROVE  TypeCalls' /\ Routed'
<1>0. TypeStore /\ TypeCalls /\ Routed
  BY DEF TypeInv, TypeOK
<1>1. CASE FindRivals(c)
  <2> DEFINE j == [job[c] EXCEPT !.at = "purge", !.found = Superfluous(c)]
  <2>1. call[c] \in Requests /\ call[c] # NoCall /\ job[c] \in Jobs
        /\ call[c].op = "set"
    BY <1>0, <1>1, Callers DEF FindRivals, Scanned, At, Places
  <2>2. Superfluous(c) \subseteq Exts
    BY <2>1 DEF Superfluous, Jobs
  <2>3. /\ j \in Jobs /\ j.at = "purge" /\ j.existing = job[c].existing
        /\ j.found \cap j.existing = {}
    BY <2>1, <2>2 DEF Jobs, Places, Superfluous
  <2>4. ~Several(j.existing) /\ Route(call[c].op, j)
    BY <1>0, <2>1, <2>3 DEF TypeCalls, Route
  <2>5. Proceed(c, j)
    BY <1>1 DEF FindRivals
  <2> HIDE DEF j
  <2> QED
    BY <1>0, <2>1, <2>3, <2>4, <2>5, ProceedType
<1>2. CASE EncodeValue(c)
  <2>1. call[c] \in Requests /\ call[c] # NoCall /\ job[c] \in Jobs
        /\ call[c].op = "set"
    BY <1>0, <1>2, Callers DEF EncodeValue, At, Places, Routed, Route
  <2>2. Route(call[c].op, [job[c] EXCEPT !.at = "write"])
    BY <2>1 DEF Route, Jobs
  <2>3. Goto(c, "write") \/ Answer(c, Said("error"))
    BY <1>2 DEF EncodeValue
  <2> QED
    BY <1>0, <2>1, <2>2, <2>3, GotoType, AnswerType, SaidType DEF Kinds, Places
<1>3. CASE ReadLeaf(c)
  <2>1. call[c] \in Requests /\ call[c] # NoCall /\ job[c] \in Jobs
        /\ job[c].existing # {}
    BY <1>0, <1>3, Callers DEF ReadLeaf, At, Places, Routed, Route
  <2>2. Target(c) \in Exts
    BY <1>0, <2>1, TargetType
  <2> DEFINE v == IF leaf[Target(c)] = Absent THEN Garbage
                  ELSE Decode(Target(c), leaf[Target(c)])
  <2>3. v # Garbage => v \in Values
    BY <1>0, <2>2 DEF TypeStore, Decode, Contents
  <2>4. \/ Answer(c, Said("error"))
        \/ v # Garbage /\ Answer(c, [is |-> "value", value |-> v])
        \/ /\ v # Garbage /\ call[c].op \in {"del", "clear"}
           /\ Proceed(c, [job[c] EXCEPT !.at = "remove", !.saw = v])
        \/ call[c].op = "edit" /\ Goto(c, "write")
    BY <1>3 DEF ReadLeaf
  <2> HIDE DEF v
  <2>5. CASE v # Garbage /\ Answer(c, [is |-> "value", value |-> v])
    <3>1. [is |-> "value", value |-> v] \in Replies
      BY <2>3, <2>5 DEF Replies, Kinds
    <3> QED
      BY <1>0, <2>5, <3>1, AnswerType
  <2>6. CASE /\ v # Garbage /\ call[c].op \in {"del", "clear"}
             /\ Proceed(c, [job[c] EXCEPT !.at = "remove", !.saw = v])
    <3> DEFINE j == [job[c] EXCEPT !.at = "remove", !.saw = v]
    <3>1. j \in Jobs /\ j.at = "remove" /\ j.existing = job[c].existing
      BY <2>1, <2>3, <2>6 DEF Jobs, Places
    <3>2. ~Several(j.existing) /\ Route(call[c].op, j)
      BY <1>0, <2>1, <2>6, <3>1 DEF TypeCalls, Route
    <3>3. Proceed(c, j)
      BY <2>6
    <3> HIDE DEF j
    <3> QED
      BY <1>0, <2>1, <3>1, <3>2, <3>3, ProceedType
  <2>7. CASE call[c].op = "edit" /\ Goto(c, "write")
    <3>1. Route(call[c].op, [job[c] EXCEPT !.at = "write"])
      BY <2>1, <2>7 DEF Route, Jobs
    <3> QED
      BY <1>0, <2>1, <2>7, <3>1, GotoType DEF Places
  <2> QED
    BY <1>0, <2>4, <2>5, <2>6, <2>7, AnswerType, SaidType DEF Kinds
<1> QED
  BY <1>1, <1>2, <1>3

\* The steps that change the store.
\* Comparing a leaf leads to its exchange, or to an answer.
LEMMA TypeCompare ==
  ASSUME TypeInv, NEW c \in Clients, Compare(c)
  PROVE  TypeCalls' /\ Routed'
<1>0. TypeStore /\ TypeCalls /\ Routed
  BY DEF TypeInv, TypeOK
<1>1. call[c] \in Requests /\ call[c] # NoCall /\ job[c] \in Jobs /\ call[c].op = "cas"
  BY <1>0, Callers DEF Compare, At, Places, Routed, Route
<1>2. Target(c) \in Exts
  BY <1>0, <1>1, RequestFields, TargetType
<1> DEFINE value == IF leaf[Target(c)] = Absent THEN Absent
                    ELSE Decode(Target(c), leaf[Target(c)])
<1>3. value # Garbage => [is |-> "refused", value |-> value] \in Replies
  BY <1>0, <1>2 DEF TypeStore, Decode, Contents, Replies, Kinds
<1>4. \/ Goto(c, "commit")
      \/ Answer(c, Said("error"))
      \/ value # Garbage /\ Effective(c, [is |-> "refused", value |-> value])
  BY DEF Compare
<1> HIDE DEF value
<1>5. Route(call[c].op, [job[c] EXCEPT !.at = "commit"])
  BY <1>1 DEF Route, Jobs
<1>6. "commit" \in Places \ {"idle"}
  BY DEF Places
<1> QED
  BY <1>0, <1>1, <1>3, <1>4, <1>5, <1>6, GotoType, EffectiveType, AnswerType, SaidType
  DEF Kinds

LEMMA TypeChanges ==
  ASSUME TypeInv, NEW c \in Clients,
         \/ \E e \in Exts : RemoveRival(c, e)
         \/ WriteLeaf(c) \/ RemoveLeaf(c) \/ Commit(c) \/ MakeDir(c) \/ RemoveDir(c)
  PROVE  TypeStore' /\ TypeCalls' /\ Routed'
<1>0. TypeStore /\ TypeCalls /\ Routed
  BY DEF TypeInv, TypeOK
<1>1. ASSUME NEW e \in Exts, RemoveRival(c, e) PROVE TypeStore' /\ TypeCalls' /\ Routed'
  <2> DEFINE j == [job[c] EXCEPT !.found = @ \ {e}]
  <2>1. call[c] \in Requests /\ call[c] # NoCall /\ job[c] \in Jobs
        /\ call[c].op = "set" /\ job[c].at = "purge"
        /\ job[c].found \cap job[c].existing = {}
    BY <1>0, <1>1, Callers DEF RemoveRival, At, Places, Routed, Route
  <2>2. /\ j \in Jobs /\ j.at = "purge" /\ j.existing = job[c].existing
        /\ j.found \cap j.existing = {}
    BY <2>1 DEF Jobs
  <2>3. ~Several(j.existing) /\ Route(call[c].op, j)
    BY <1>0, <2>1, <2>2 DEF TypeCalls, Route
  <2>4. Proceed(c, j) \/ Answer(c, Said("error"))
    BY <1>1 DEF RemoveRival
  <2> HIDE DEF j
  <2>5. TypeCalls' /\ Routed'
    BY <1>0, <2>1, <2>2, <2>3, <2>4, ProceedType, AnswerType, SaidType DEF Kinds
  <2>6. TypeStore'
    BY <1>0, <1>1 DEF RemoveRival, TypeStore
  <2> QED
    BY <2>5, <2>6
<1>2. CASE WriteLeaf(c)
  <2>1. call[c] \in Requests /\ job[c] \in Jobs /\ call[c].op \in {"set", "edit"}
    BY <1>0, <1>2, Callers DEF WriteLeaf, At, Places, Routed, Route
  <2>2. call[c].new \in Values
    BY <2>1, RequestFields
  <2>3. Encode(Target(c), call[c].new) \in Contents
    BY <1>0, <2>2, TargetType, EncodeType
  <2>4. TypeStore'
    BY <1>0, <1>2, <2>3 DEF WriteLeaf, TypeStore
  <2> QED
    BY <1>0, <1>2, <2>4, EffectiveType, SaidType DEF WriteLeaf, Kinds
<1>3. CASE RemoveLeaf(c)
  <2>1. job[c] \in Jobs
    BY <1>0, <1>3, Callers DEF RemoveLeaf, Places
  <2>2. [is |-> "value", value |-> job[c].saw] \in Replies
    BY <2>1 DEF Jobs, Replies, Kinds
  <2>3. TypeStore'
    BY <1>0, <1>3 DEF RemoveLeaf, TypeStore
  <2>4. \/ Effective(c, [is |-> "value", value |-> job[c].saw])
        \/ Effective(c, Said("done")) \/ Answer(c, Said("error"))
    BY <1>3 DEF RemoveLeaf
  <2> QED
    BY <1>0, <2>2, <2>3, <2>4, EffectiveType, AnswerType, SaidType DEF Kinds
<1>4. CASE Commit(c)
  <2>1. call[c] \in Requests /\ call[c].op = "cas"
    BY <1>0, <1>4, Callers DEF Commit, At, Places, Routed, Route
  <2>2. call[c].new \in Values \cup {Absent} /\ call[c].expected \in Values \cup {Absent}
    BY <2>1, RequestFields
  <2>3. Target(c) \in Exts
    BY <1>0, <2>2, TargetType
  <2>4. Stored(Target(c), call[c].new) \in Contents \cup {Absent}
    BY <2>2, <2>3, EncodeType DEF Stored
  <2>5. TypeStore'
    BY <1>0, <1>4, <2>4 DEF Commit, TypeStore
  <2>6. Observed(c) # Garbage => [is |-> "exchanged", value |-> Observed(c)] \in Replies
    BY <2>2 DEF Observed, Decode, Encode, Replies, Kinds
  <2>7. \/ Answer(c, Said("error"))
        \/ /\ Observed(c) # Garbage
           /\ Effective(c, [is |-> "exchanged", value |-> Observed(c)])
    BY <1>4 DEF Commit
  <2> QED
    BY <1>0, <2>5, <2>6, <2>7, EffectiveType, AnswerType, SaidType DEF Kinds
<1>5. CASE MakeDir(c) \/ RemoveDir(c)
  <2>1. TypeStore'
    BY <1>0, <1>5 DEF MakeDir, RemoveDir, TypeStore
  <2> QED
    BY <1>0, <1>5, <2>1, EffectiveType, AnswerType, SaidType
    DEF MakeDir, RemoveDir, Kinds
<1> QED
  BY <1>1, <1>2, <1>3, <1>4, <1>5

LEMMA TypeStep == TypeInv /\ [Next]_vars => TypeInv'
<1> SUFFICES ASSUME TypeInv, [Next]_vars PROVE TypeInv'
  OBVIOUS
<1>0. TypeStore /\ TypeCalls /\ TypeSeen /\ Routed
  BY DEF TypeInv, TypeOK
<1>1. CASE UNCHANGED vars
  BY <1>0, <1>1 DEF vars, TypeInv, TypeOK, TypeStore, TypeCalls, TypeSeen, Routed
<1>2. ASSUME NEW c \in Clients,
             \/ \E r \in Requests : Begin(c, r)
             \/ List(c) \/ AskBase(c) \/ AskLeaf(c) \/ FindLeaf(c) \/ FindAgain(c)
             \/ FindRivals(c) \/ EncodeValue(c) \/ ReadLeaf(c)
             \/ Compare(c) \/ SwapRefused(c) \/ PortFails(c)
      PROVE  TypeInv'
  <2>1. TypeCalls' /\ Routed'
    BY <1>0, <1>2, TypeBegin, TypeLooks, TypeWorks, TypeCompare, AnswerType, SaidType
    DEF SwapRefused, PortFails, Kinds
  <2>2. Quiet
    BY <1>2 DEF Begin, List, AskBase, AskLeaf, FindLeaf, FindAgain, FindRivals,
       EncodeValue, ReadLeaf, Compare, SwapRefused, PortFails
  <2>3. TypeStore' /\ Witness
    BY <1>0, <2>2, QuietType DEF Quiet
  <2> QED
    BY <1>0, <2>1, <2>3, WitnessType DEF TypeInv, TypeOK
<1>3. ASSUME NEW c \in Clients,
             \/ \E e \in Exts : RemoveRival(c, e)
             \/ WriteLeaf(c) \/ RemoveLeaf(c) \/ Commit(c) \/ MakeDir(c) \/ RemoveDir(c)
      PROVE  TypeInv'
  <2>1. TypeStore' /\ TypeCalls' /\ Routed'
    BY <1>3, TypeChanges
  <2>2. Witness
    BY <1>3 DEF RemoveRival, WriteLeaf, RemoveLeaf, Commit, MakeDir, RemoveDir
  <2> QED
    BY <1>0, <2>1, <2>2, WitnessType DEF TypeInv, TypeOK
<1> QED
  BY <1>1, <1>2, <1>3 DEF Next

\* Every variable keeps its type, whatever extensions a key meets, and a call is
\* only where its operation leads.
THEOREM FsTableTypeCorrect == Spec => []TypeOK
<1>1. TypeInv => TypeOK
  BY DEF TypeInv
<1> QED
  BY <1>1, TypeInit, TypeStep, PTL DEF Spec

-----------------------------------------------------------------------------
(* One extension for all leaves.  From here on no other program left a leaf *)
(* of the key behind.                                                      *)

NothingFound == FoundExts = {}

\* The only leaf is that of the extension the key's values infer.
HomeStore ==
  /\ home \in DomainExts \cup {DefaultExt}
  /\ Leaves \subseteq {home}
  /\ leaf[home] # Absent => leaf[home].form = home

\* No client has found another one, or writes a value that infers another.
HomeCalls ==
  \A c \in Clients : call[c] # NoCall =>
    /\ job[c].found \subseteq {home} /\ job[c].existing \subseteq {home}
    /\ Allowed(call[c])

\* A call at j has looked for the leaf of extension h and has not found it.
Missed(j, h) ==
  \/ /\ j.at = "scan" /\ h \notin j.found
     /\ \E i \in 1 .. j.asked : ExtOrder[i] = h
  \/ j.at \in {"rescan", "purge", "write", "swap", "commit"} /\ j.existing = {}

\* What a call found or missed was there or was missing during the call.
Past ==
  \A c \in Clients : call[c] # NoCall =>
    /\ Held \subseteq seen[c]
    /\ Missed(job[c], home) => Absent \in seen[c]
    /\ job[c].at = "remove" => job[c].saw \in seen[c]

IInv == TypeInv /\ HomeStore /\ HomeCalls /\ Past

\* A step of a call that goes on.
LEMMA ProceedHome ==
  ASSUME IInv, NEW c \in Clients, call[c] # NoCall, NEW j \in Jobs,
         j.found \subseteq {home}, j.existing \subseteq {home},
         Proceed(c, j), Witness, home' = home,
         Missed(j, home) => Absent \in seen[c] \cup Held',
         j.at = "remove" => j.saw \in seen[c] \cup Held'
  PROVE  HomeCalls' /\ Past'
<1>1. /\ call' = call /\ job'[c] = j
      /\ \A d \in Clients : d # c => job'[d] = job[d]
  BY DEF Proceed, IInv, TypeInv, TypeOK, TypeCalls
<1>2. HomeCalls'
  BY <1>1 DEF HomeCalls, IInv, Allowed, Written
<1>3. \A d \in Clients : call[d] # NoCall => seen'[d] = seen[d] \cup Held'
  BY <1>1 DEF Witness
<1> QED
  BY <1>1, <1>2, <1>3 DEF Past, IInv

\* A step that ends a call.
LEMMA AnswerHome ==
  ASSUME IInv, NEW c \in Clients, NEW r, Answer(c, r), Witness, home' = home
  PROVE  HomeCalls' /\ Past'
<1>1. /\ call'[c] = NoCall
      /\ \A d \in Clients : d # c => job'[d] = job[d] /\ call'[d] = call[d]
  BY DEF Answer, IInv, TypeInv, TypeOK, TypeCalls
<1>2. HomeCalls'
  BY <1>1 DEF HomeCalls, IInv, Allowed, Written
<1>3. \A d \in Clients : call'[d] # NoCall => seen'[d] = seen[d] \cup Held'
  BY DEF Witness
<1> QED
  BY <1>1, <1>2, <1>3 DEF Past, IInv

\* The key holds nothing exactly when the home leaf is missing.
LEMMA HomeHeld ==
  ASSUME IInv
  PROVE  /\ leaf[home] = Absent => Held = {Absent}
         /\ leaf[home] # Absent => /\ Held = {Decode(home, leaf[home])}
                                   /\ Held = {leaf[home].value}
                                   /\ leaf[home].value \in Values
<1>1. home \in Exts /\ leaf[home] \in Contents \cup {Absent} /\ Leaves \subseteq {home}
  BY DEF IInv, TypeInv, TypeOK, TypeStore, HomeStore
<1>2. CASE leaf[home] = Absent
  <2>1. Leaves = {}
    BY <1>1, <1>2 DEF Leaves
  <2> QED
    BY <1>2, <2>1 DEF Held
<1>3. CASE leaf[home] # Absent
  <2>1. Leaves = {home}
    BY <1>1, <1>3 DEF Leaves
  <2>2. Decode(home, leaf[home]) = leaf[home].value
    BY <1>3 DEF Decode, IInv, HomeStore
  <2> QED
    BY <1>1, <1>3, <2>1, <2>2 DEF Held, Contents
<1> QED
  BY <1>2, <1>3

\* Only an exchange of nothing by nothing works on another leaf than home's.
LEMMA HomeTarget ==
  ASSUME IInv, NEW c \in Clients, call[c] # NoCall
  PROVE  /\ job[c].existing # {} => Target(c) = home
         /\ call[c].op = "set" => Target(c) = home
         /\ call[c].op = "cas" /\ call[c].new # Absent => Target(c) = home
         /\ call[c].op = "cas" => Target(c) \in Exts
<1>1. call[c] \in Requests /\ TypeCalls
  BY DEF IInv, TypeInv, TypeOK, TypeCalls
<1>2. job[c].existing \subseteq {home} /\ Allowed(call[c])
  BY DEF IInv, HomeCalls
<1>3. job[c].existing # {} => Target(c) = home
  BY <1>1, <1>2, TargetType
<1>4. call[c].op = "set" => InferExt(call[c].new) = home
  BY <1>2 DEF Allowed, Written
<1>5. call[c].op = "cas" /\ call[c].new # Absent => InferExt(call[c].new) = home
  BY <1>2 DEF Allowed, Written
<1>6. call[c].op = "cas" => Target(c) \in Exts
  BY <1>1, RequestFields, TargetType
<1> QED
  BY <1>3, <1>4, <1>5, <1>6 DEF Target

LEMMA InitIInv == ASSUME NothingFound, Init PROVE IInv
<1>1. home \in DomainExts \cup {DefaultExt}
  BY InferExtType DEF Init
<1>2. Leaves \subseteq {home} /\ (leaf[home] # Absent => leaf[home].form = home)
  <2>1. CASE leaf = [e \in Exts |-> Absent]
    BY <2>1, <1>1, FsTableAssumption DEF Leaves
  <2>2. ASSUME NEW v \in Values,
               leaf = [d \in Exts |-> IF d = home THEN [form |-> home, value |-> v]
                                                  ELSE Absent]
        PROVE  Leaves \subseteq {home} /\ (leaf[home] # Absent => leaf[home].form = home)
    BY <2>2, <1>1, FsTableAssumption DEF Leaves
  <2> QED
    BY <2>1, <2>2 DEF Init, NothingFound
<1>3. \A c \in Clients : call[c] = NoCall
  BY DEF Init
<1> QED
  BY <1>1, <1>2, <1>3, TypeInit DEF IInv, HomeStore, HomeCalls, Past

LEMMA HomeBegin ==
  ASSUME IInv, NEW c \in Clients, NEW r \in Requests, Begin(c, r)
  PROVE  HomeCalls' /\ Past'
<1> DEFINE j == [Idle EXCEPT !.at = Entry(r.op)]
<1>1. TypeCalls
  BY DEF IInv, TypeInv, TypeOK
<1>2. /\ call' = [call EXCEPT ![c] = r] /\ job' = [job EXCEPT ![c] = j]
      /\ home' = home /\ Allowed(r) /\ Witness
  BY DEF Begin, Quiet
<1>3. /\ j.asked = 0 /\ j.found = {} /\ j.existing = {}
      /\ j.at \in {"list", "base", "scan"}
  BY RequestFields DEF Idle, Entry
<1>4. ~Missed(j, home)
  BY <1>3 DEF Missed
<1> HIDE DEF j
<1>5. /\ call'[c] = r /\ job'[c] = j
      /\ \A d \in Clients : d # c => job'[d] = job[d] /\ call'[d] = call[d]
  BY <1>1, <1>2 DEF TypeCalls
<1>6. HomeCalls'
  BY <1>2, <1>3, <1>5 DEF HomeCalls, IInv, Allowed, Written
<1>7. \A d \in Clients : call'[d] # NoCall => seen'[d] = seen[d] \cup Held'
  BY <1>2 DEF Witness
<1> QED
  BY <1>2, <1>3, <1>4, <1>5, <1>6, <1>7 DEF Past, IInv

\* A scan that is over and found nothing has missed the home leaf.
LEMMA ScannedMissed ==
  ASSUME IInv, NEW c \in Clients, Scanned(c, "scan"), job[c].found = {}
  PROVE  Missed(job[c], home) /\ Absent \in seen[c]
<1>1. PICK i \in DOMAIN ExtOrder : ExtOrder[i] = home
  BY DEF IInv, TypeInv, TypeOK, TypeStore, Exts
<1>2. i \in 1 .. job[c].asked
  BY <1>1, FsTableAssumption DEF Scanned
<1>3. Missed(job[c], home)
  BY <1>1, <1>2 DEF Missed, Scanned, At
<1> QED
  BY <1>3 DEF IInv, Past, Scanned, At

LEMMA HomeLooks ==
  ASSUME IInv, NEW c \in Clients,
         List(c) \/ AskBase(c) \/ AskLeaf(c) \/ FindLeaf(c) \/ FindAgain(c)
  PROVE  HomeCalls' /\ Past'
<1>0. /\ TypeCalls /\ home' = home /\ Witness
      /\ call[c] # NoCall /\ call[c] \in Requests /\ job[c] \in Jobs
      /\ job[c].found \subseteq {home} /\ job[c].existing \subseteq {home}
      /\ Missed(job[c], home) => Absent \in seen[c]
  BY DEF IInv, TypeInv, TypeOK, TypeCalls, HomeCalls, Past, Quiet, List, AskBase,
     AskLeaf, FindLeaf, FindAgain, Scanned, Scanning, At
<1>1. ASSUME NEW place \in {"base", "rmdir", "scan"}, Goto(c, place),
             job[c].at \in {"list", "base"}, place = "scan" => job[c].asked = 0
      PROVE  HomeCalls' /\ Past'
  <2> DEFINE j == [job[c] EXCEPT !.at = place]
  <2>1. /\ j \in Jobs /\ j.at = place /\ j.asked = job[c].asked
        /\ j.found = job[c].found /\ j.existing = job[c].existing
    BY <1>0 DEF Jobs, Places
  <2>2. Proceed(c, j)
    BY <1>1 DEF Goto
  <2> HIDE DEF j
  <2>3. ~Missed(j, home)
    BY <1>1, <2>1 DEF Missed
  <2> QED
    BY <1>0, <1>1, <2>1, <2>2, <2>3, ProceedHome
<1>2. ASSUME NEW place \in {"mkdir", "rescan", "swap", "read"},
             Proceed(c, Found(c, place)),
             place \in {"rescan", "swap"} /\ job[c].found = {} => Absent \in seen[c]
      PROVE  HomeCalls' /\ Past'
  <2> DEFINE j == Found(c, place)
  <2>1. /\ j \in Jobs /\ j.at = place /\ j.asked = 0
        /\ j.found = {} /\ j.existing = job[c].found
    <3>1. 0 \in 0 .. Len(ExtOrder)
      BY FsTableAssumption
    <3> QED
      BY <1>0, <3>1 DEF Found, Jobs, Places
  <2>2. Proceed(c, j)
    BY <1>2
  <2> HIDE DEF j
  <2>3. Missed(j, home) => Absent \in seen[c]
    BY <1>2, <2>1 DEF Missed
  <2> QED
    BY <1>0, <1>2, <2>1, <2>2, <2>3, ProceedHome
<1>3. CASE List(c) \/ AskBase(c)
  <2>1. Route(call[c].op, job[c])
    BY <1>0 DEF IInv, TypeInv, Routed
  <2>2. job[c].at \in {"list", "base"} /\ job[c].asked = 0
    BY <1>3, <2>1 DEF List, AskBase, At, Route
  <2>3. \/ \E place \in {"base", "rmdir", "scan"} : Goto(c, place)
        \/ \E r : Answer(c, r)
    <3>1. CASE List(c)
      BY <3>1 DEF List
    <3>2. CASE AskBase(c)
      <4>1. call[c].op \in {"clear", "set", "has", "rmdir"}
        BY <2>1, <3>2 DEF AskBase, At, Route
      <4> QED
        BY <3>2, <4>1 DEF AskBase, OnDirectory
    <3> QED
      BY <1>3, <3>1, <3>2
  <2> QED
    BY <1>0, <1>1, <2>2, <2>3, AnswerHome
<1>4. CASE AskLeaf(c)
  <2> DEFINE e == ExtOrder[job[c].asked + 1]
             j == [job[c] EXCEPT !.asked = @ + 1, !.found = @ \cup ({e} \cap Leaves)]
  <2>1. /\ job[c].asked \in Nat /\ job[c].asked < Len(ExtOrder) /\ Len(ExtOrder) \in Nat
        /\ Proceed(c, j) /\ job[c].at \in {"scan", "rescan"}
    BY <1>0, <1>4, FsTableAssumption DEF AskLeaf, Scanning, At, Jobs
  <2>2. Leaves \subseteq {home} /\ Leaves \subseteq Exts
    BY DEF IInv, HomeStore, Leaves
  <2>3. /\ j \in Jobs /\ j.at = job[c].at /\ j.asked = job[c].asked + 1
        /\ j.found = job[c].found \cup ({e} \cap Leaves)
        /\ j.existing = job[c].existing
    <3>1. job[c].asked + 1 \in 0 .. Len(ExtOrder)
      BY <2>1
    <3>2. job[c].found \cup ({e} \cap Leaves) \subseteq Exts
      BY <1>0, <2>2 DEF Jobs
    <3> QED
      BY <1>0, <3>1, <3>2 DEF Jobs
  <2> HIDE DEF j
  <2>4. Held \subseteq seen[c]
    BY <1>0 DEF IInv, Past
  <2>5. ASSUME Missed(j, home) PROVE Absent \in seen[c]
    <3>1. CASE Missed(job[c], home)
      BY <1>0, <3>1
    <3>2. CASE ~Missed(job[c], home)
      <4>1. PICK i \in 1 .. j.asked : ExtOrder[i] = home /\ home \notin j.found
        BY <2>1, <2>3, <2>5, <3>2 DEF Missed
      <4>2. i \notin 1 .. job[c].asked
        BY <2>1, <2>3, <2>5, <3>2, <4>1 DEF Missed
      <4>3. i = job[c].asked + 1
        BY <2>1, <2>3, <4>1, <4>2
      <4>4. home \notin Leaves
        BY <2>3, <4>1, <4>3
      <4>5. leaf[home] = Absent
        BY <4>4 DEF Leaves, IInv, TypeInv, TypeOK, TypeStore
      <4> QED
        BY <2>4, <4>5, HomeHeld
    <3> QED
      BY <3>1, <3>2
  <2> QED
    BY <1>0, <2>1, <2>2, <2>3, <2>5, ProceedHome
<1>5. CASE FindLeaf(c)
  <2>1. job[c].found = {} => Absent \in seen[c]
    BY <1>5, ScannedMissed DEF FindLeaf
  <2>2. \/ \E place \in {"mkdir", "rescan", "swap", "read"} : Proceed(c, Found(c, place))
        \/ \E r : Answer(c, r)
    <3>1. call[c].op # "rmdir"
      BY <1>0, <1>5 DEF FindLeaf, Scanned, At, IInv, TypeInv, Routed, Route
    <3>2. CASE Several(job[c].found)
      BY <1>5, <3>2 DEF FindLeaf
    <3>3. CASE ~Several(job[c].found) /\ job[c].found = {}
      BY <1>0, <1>5, <3>1, <3>3, RequestFields DEF FindLeaf, WithoutLeaf
    <3>4. CASE ~Several(job[c].found) /\ job[c].found # {}
      BY <1>0, <1>5, <3>1, <3>4, RequestFields DEF FindLeaf, WithLeaf
    <3> QED
      BY <3>2, <3>3, <3>4
  <2> QED
    BY <1>0, <1>2, <2>1, <2>2, AnswerHome
<1>6. CASE FindAgain(c)
  <2>1. Proceed(c, Found(c, "read")) \/ Answer(c, Said("error"))
    BY <1>6 DEF FindAgain
  <2> QED
    BY <1>0, <1>2, <2>1, AnswerHome
<1> QED
  BY <1>3, <1>4, <1>5, <1>6

LEMMA HomeWorks ==
  ASSUME IInv, NEW c \in Clients,
         FindRivals(c) \/ EncodeValue(c) \/ ReadLeaf(c)
  PROVE  HomeCalls' /\ Past'
<1>0. /\ TypeCalls /\ home' = home /\ Witness
      /\ call[c] # NoCall /\ call[c] \in Requests /\ job[c] \in Jobs
      /\ job[c].found \subseteq {home} /\ job[c].existing \subseteq {home}
      /\ Missed(job[c], home) => Absent \in seen[c]
  BY DEF IInv, TypeInv, TypeOK, TypeCalls, HomeCalls, Past, Quiet, FindRivals,
     EncodeValue, ReadLeaf, Scanned, At
<1>1. CASE FindRivals(c)
  <2> DEFINE j == [job[c] EXCEPT !.at = "purge", !.found = Superfluous(c)]
  <2>1. Superfluous(c) \subseteq job[c].found
    BY DEF Superfluous
  <2>2. /\ j \in Jobs /\ j.at = "purge" /\ j.existing = job[c].existing
        /\ j.found = Superfluous(c)
    BY <1>0, <2>1 DEF Jobs, Places
  <2>3. Proceed(c, j) /\ job[c].at = "rescan"
    BY <1>1 DEF FindRivals, Scanned, At
  <2> HIDE DEF j
  <2>4. Missed(j, home) => Missed(job[c], home)
    BY <2>2, <2>3 DEF Missed
  <2> QED
    BY <1>0, <2>1, <2>2, <2>3, <2>4, ProceedHome
<1>2. ASSUME Goto(c, "write"), job[c].at = "purge" \/ job[c].existing # {}
      PROVE  HomeCalls' /\ Past'
  <2> DEFINE j == [job[c] EXCEPT !.at = "write"]
  <2>1. /\ j \in Jobs /\ j.at = "write" /\ j.existing = job[c].existing
        /\ j.found = job[c].found
    BY <1>0 DEF Jobs, Places
  <2>2. Proceed(c, j)
    BY <1>2 DEF Goto
  <2> HIDE DEF j
  <2>3. Missed(j, home) => Missed(job[c], home)
    BY <1>2, <2>1 DEF Missed
  <2> QED
    BY <1>0, <2>1, <2>2, <2>3, ProceedHome
<1>3. CASE EncodeValue(c)
  BY <1>0, <1>2, <1>3, AnswerHome DEF EncodeValue, At
<1>4. CASE ReadLeaf(c)
  <2>1. job[c].existing # {} /\ Target(c) = home
    BY <1>0, <1>4, HomeTarget DEF ReadLeaf, At, IInv, TypeInv, Routed, Route
  <2> DEFINE v == IF leaf[Target(c)] = Absent THEN Garbage
                  ELSE Decode(Target(c), leaf[Target(c)])
  <2>2. v # Garbage => v \in Values /\ v \in Held
    BY <2>1, HomeHeld
  <2>3. \/ \E r : Answer(c, r)
        \/ v # Garbage /\ Proceed(c, [job[c] EXCEPT !.at = "remove", !.saw = v])
        \/ Goto(c, "write")
    BY <1>4 DEF ReadLeaf
  <2> HIDE DEF v
  <2>4. CASE v # Garbage /\ Proceed(c, [job[c] EXCEPT !.at = "remove", !.saw = v])
    <3> DEFINE j == [job[c] EXCEPT !.at = "remove", !.saw = v]
    <3>1. /\ j \in Jobs /\ j.at = "remove" /\ j.existing = job[c].existing
          /\ j.found = job[c].found /\ j.saw = v
      BY <1>0, <2>2, <2>4 DEF Jobs, Places
    <3>2. Proceed(c, j)
      BY <2>4
    <3> HIDE DEF j
    <3>3. ~Missed(j, home) /\ j.saw \in seen[c]
      BY <1>0, <2>2, <2>4, <3>1 DEF Missed, IInv, Past
    <3> QED
      BY <1>0, <3>1, <3>2, <3>3, ProceedHome
  <2> QED
    BY <1>0, <1>2, <2>1, <2>3, <2>4, AnswerHome
<1> QED
  BY <1>1, <1>3, <1>4

\* Comparing a leaf changes nothing but the place of the call.
LEMMA HomeCompare ==
  ASSUME IInv, NEW c \in Clients, Compare(c)
  PROVE  HomeCalls' /\ Past'
<1>0. /\ TypeCalls /\ home' = home /\ Witness /\ job[c].at = "swap"
      /\ call[c] # NoCall /\ job[c] \in Jobs
      /\ job[c].found \subseteq {home} /\ job[c].existing \subseteq {home}
      /\ Missed(job[c], home) => Absent \in seen[c]
  BY DEF IInv, TypeInv, TypeOK, TypeCalls, HomeCalls, Past, Quiet, Compare, At
<1>1. CASE \E r : Answer(c, r)
  BY <1>0, <1>1, AnswerHome
<1>2. CASE Goto(c, "commit")
  <2> DEFINE j == [job[c] EXCEPT !.at = "commit"]
  <2>1. /\ j \in Jobs /\ j.at = "commit" /\ j.existing = job[c].existing
        /\ j.found = job[c].found
    BY <1>0 DEF Jobs, Places
  <2>2. Proceed(c, j)
    BY <1>2 DEF Goto
  <2> HIDE DEF j
  <2>3. Missed(j, home) => Missed(job[c], home)
    BY <1>0, <2>1 DEF Missed
  <2> QED
    BY <1>0, <2>1, <2>2, <2>3, ProceedHome
<1> QED
  BY <1>1, <1>2 DEF Compare, Effective

\* Nothing but the home leaf is ever written.
LEMMA HomeChanges ==
  ASSUME IInv, NEW c \in Clients,
         \/ \E e \in Exts : RemoveRival(c, e)
         \/ WriteLeaf(c) \/ RemoveLeaf(c) \/ Commit(c)
  PROVE  HomeStore' /\ HomeCalls' /\ Past'
<1>0. /\ TypeStore /\ TypeCalls /\ home' = home /\ Witness /\ HomeStore
      /\ call[c] # NoCall /\ call[c] \in Requests /\ job[c] \in Jobs
      /\ job[c].found \subseteq {home} /\ job[c].existing \subseteq {home}
      /\ Missed(job[c], home) => Absent \in seen[c]
      /\ Route(call[c].op, job[c])
  BY DEF IInv, TypeInv, TypeOK, TypeCalls, HomeCalls, Past, RemoveRival, WriteLeaf,
     RemoveLeaf, Commit, At, Routed
<1>1. ASSUME NEW e \in Exts, RemoveRival(c, e)
      PROVE  HomeStore' /\ HomeCalls' /\ Past'
  <2>1. HomeStore'
    BY <1>0, <1>1 DEF RemoveRival, HomeStore, Leaves, TypeStore
  <2> DEFINE j == [job[c] EXCEPT !.found = @ \ {e}]
  <2>2. /\ j \in Jobs /\ j.at = job[c].at /\ j.existing = job[c].existing
        /\ j.found = job[c].found \ {e}
    BY <1>0 DEF Jobs
  <2>3. job[c].at = "purge" /\ (Proceed(c, j) \/ Answer(c, Said("error")))
    BY <1>1 DEF RemoveRival, At
  <2> HIDE DEF j
  <2>4. Missed(j, home) => Missed(job[c], home)
    BY <2>2, <2>3 DEF Missed
  <2> QED
    BY <1>0, <2>1, <2>2, <2>3, <2>4, ProceedHome, AnswerHome
<1>2. CASE WriteLeaf(c)
  <2>1. Target(c) = home
    BY <1>0, <1>2, HomeTarget DEF WriteLeaf, At, Route
  <2>2. leaf' = [leaf EXCEPT ![home] = Encode(home, call[c].new)]
    BY <1>2, <2>1 DEF WriteLeaf
  <2>3. Encode(home, call[c].new).form = home
    BY <1>0 DEF Encode, HomeStore
  <2>4. HomeStore'
    BY <1>0, <2>2, <2>3 DEF HomeStore, Leaves, TypeStore
  <2> QED
    BY <1>0, <1>2, <2>4, AnswerHome DEF WriteLeaf, Effective
<1>3. CASE RemoveLeaf(c)
  <2>1. HomeStore'
    BY <1>0, <1>3 DEF RemoveLeaf, HomeStore, Leaves, TypeStore
  <2>2. \E r : Answer(c, r)
    BY <1>3 DEF RemoveLeaf, Effective
  <2> QED
    BY <1>0, <2>1, <2>2, AnswerHome
<1>4. CASE Commit(c)
  <2>1. call[c].op = "cas" /\ Target(c) \in Exts
    BY <1>0, <1>4, HomeTarget DEF Commit, At, Route
  <2>2. \/ leaf' = leaf
        \/ leaf' = [leaf EXCEPT ![Target(c)] = Stored(Target(c), call[c].new)]
    BY <1>4 DEF Commit
  <2>3. call[c].new # Absent => /\ Target(c) = home
                               /\ Stored(home, call[c].new).form = home
    BY <1>0, <2>1, HomeTarget DEF Stored, Encode, HomeStore
  <2>4. call[c].new = Absent => Stored(Target(c), call[c].new) = Absent
    BY DEF Stored
  <2>5. HomeStore'
    BY <1>0, <2>1, <2>2, <2>3, <2>4 DEF HomeStore, Leaves, TypeStore
  <2>6. \E r : Answer(c, r)
    BY <1>4 DEF Commit, Effective
  <2> QED
    BY <1>0, <2>5, <2>6, AnswerHome
<1> QED
  BY <1>1, <1>2, <1>3, <1>4

LEMMA IInvStep == IInv /\ [Next]_vars => IInv'
<1> SUFFICES ASSUME IInv, [Next]_vars PROVE IInv'
  OBVIOUS
<1>0. TypeInv'
  BY TypeStep DEF IInv
<1>1. CASE UNCHANGED vars
  BY <1>0, <1>1 DEF IInv, vars, HomeStore, HomeCalls, Past, Held, Leaves, Allowed, Written
<1>2. ASSUME NEW c \in Clients,
             \/ \E r \in Requests : Begin(c, r)
             \/ List(c) \/ AskBase(c) \/ AskLeaf(c) \/ FindLeaf(c) \/ FindAgain(c)
             \/ FindRivals(c) \/ EncodeValue(c) \/ ReadLeaf(c)
             \/ Compare(c) \/ SwapRefused(c) \/ PortFails(c) \/ MakeDir(c) \/ RemoveDir(c)
      PROVE  IInv'
  <2>1. leaf' = leaf /\ home' = home /\ Witness
    BY <1>2 DEF Begin, List, AskBase, AskLeaf, FindLeaf, FindAgain, FindRivals,
       EncodeValue, ReadLeaf, Compare, SwapRefused, PortFails, MakeDir, RemoveDir, Quiet
  <2>2. HomeStore'
    BY <2>1 DEF IInv, HomeStore, Leaves
  <2>3. CASE \/ \E r \in Requests : Begin(c, r)
             \/ List(c) \/ AskBase(c) \/ AskLeaf(c) \/ FindLeaf(c) \/ FindAgain(c)
             \/ FindRivals(c) \/ EncodeValue(c) \/ ReadLeaf(c) \/ Compare(c)
    BY <1>0, <2>2, <2>3, HomeBegin, HomeLooks, HomeWorks, HomeCompare DEF IInv
  <2>4. CASE SwapRefused(c) \/ PortFails(c) \/ MakeDir(c) \/ RemoveDir(c)
    <3>1. \E r : Answer(c, r)
      BY <2>4 DEF SwapRefused, PortFails, MakeDir, RemoveDir, Effective
    <3> QED
      BY <1>0, <2>1, <2>2, <3>1, AnswerHome DEF IInv
  <2> QED
    BY <1>2, <2>3, <2>4
<1>3. ASSUME NEW c \in Clients,
             \/ \E e \in Exts : RemoveRival(c, e)
             \/ WriteLeaf(c) \/ RemoveLeaf(c) \/ Commit(c)
      PROVE  IInv'
  BY <1>0, <1>3, HomeChanges DEF IInv
<1> QED
  BY <1>1, <1>2, <1>3 DEF Next

-----------------------------------------------------------------------------
(* What a table promises for a key.                                        *)

\* The inductive invariant, for a key that starts with no foreign leaf.
THEOREM FsTableInvariant == ASSUME NothingFound PROVE Spec => []IInv
<1>1. Init => IInv
  BY InitIInv
<1> QED
  BY <1>1, IInvStep, PTL DEF Spec

\* However many clients interleave, a key whose values infer one extension never
\* gets a second leaf.
THEOREM KeysKeepOneLeaf == ASSUME NothingFound PROVE Spec => []OneLeaf
<1>1. IInv => OneLeaf
  BY DEF IInv, HomeStore, OneLeaf, Several
<1> QED
  BY <1>1, FsTableInvariant, PTL

\* The leaf of such a key can always be read back.
THEOREM LeavesAreReadable == ASSUME NothingFound PROVE Spec => []LeavesDecode
<1>1. ASSUME IInv PROVE LeavesDecode
  BY <1>1, HomeHeld, FsTableAssumption DEF LeavesDecode
<1> QED
  BY <1>1, FsTableInvariant, PTL

\* A step of one client.
Acts(c) ==
  \/ \E r \in Requests : Begin(c, r)
  \/ List(c) \/ AskBase(c) \/ AskLeaf(c) \/ FindLeaf(c) \/ FindAgain(c)
  \/ FindRivals(c) \/ (\E e \in Exts : RemoveRival(c, e)) \/ EncodeValue(c)
  \/ ReadLeaf(c) \/ WriteLeaf(c) \/ RemoveLeaf(c) \/ Compare(c) \/ Commit(c)
  \/ SwapRefused(c) \/ MakeDir(c) \/ RemoveDir(c) \/ PortFails(c)

\* Looking for a name ends the call only with what was found, or not found.
LEMMA LookAnswers ==
  ASSUME TypeInv, NEW c \in Clients,
         List(c) \/ AskBase(c) \/ FindLeaf(c) \/ FindAgain(c)
  PROVE  \/ \E j : Proceed(c, j)
         \/ \E kind \in {"done", "present", "error"} : Answer(c, Said(kind))
         \/ /\ FindLeaf(c) /\ job[c].found = {}
            /\ Answer(c, Said("missing"))
<1>0. call[c] \in Requests /\ Route(call[c].op, job[c])
  BY DEF TypeInv, TypeOK, TypeCalls, Routed, List, AskBase, FindLeaf, FindAgain,
     Scanned, At
<1>1. CASE List(c)
  BY <1>1 DEF List, Goto
<1>2. CASE AskBase(c)
  <2>1. call[c].op \in {"clear", "set", "has", "rmdir"}
    BY <1>0, <1>2 DEF AskBase, At, Route
  <2> QED
    BY <1>2, <2>1 DEF AskBase, OnDirectory, Goto
<1>3. CASE FindLeaf(c)
  <2>1. call[c].op # "rmdir"
    BY <1>0, <1>3 DEF FindLeaf, Scanned, At, Route
  <2>2. CASE Several(job[c].found)
    BY <1>3, <2>2 DEF FindLeaf
  <2>3. CASE ~Several(job[c].found) /\ job[c].found = {}
    BY <1>0, <1>3, <2>1, <2>3, RequestFields DEF FindLeaf, WithoutLeaf
  <2>4. CASE ~Several(job[c].found) /\ job[c].found # {}
    BY <1>0, <1>3, <2>1, <2>4, RequestFields DEF FindLeaf, WithLeaf
  <2> QED
    BY <2>2, <2>3, <2>4
<1>4. CASE FindAgain(c)
  BY <1>4 DEF FindAgain
<1> QED
  BY <1>1, <1>2, <1>3, <1>4

\* A client's step leaves the calls of the others where they are.
LEMMA OthersWait ==
  ASSUME TypeInv, NEW d \in Clients, Acts(d), NEW c \in Clients, c # d
  PROVE  call'[c] = call[c] /\ job'[c] = job[c]
<1>1. \/ \E j : Proceed(d, j)
      \/ \E r : Answer(d, r)
      \/ \E r \in Requests : Begin(d, r)
  <2>1. CASE List(d) \/ AskBase(d) \/ FindLeaf(d) \/ FindAgain(d)
    BY <2>1, LookAnswers
  <2>2. CASE \/ AskLeaf(d) \/ FindRivals(d) \/ EncodeValue(d) \/ ReadLeaf(d)
    BY <2>2 DEF AskLeaf, FindRivals, EncodeValue, ReadLeaf, Goto
  <2>3. CASE \/ \E e \in Exts : RemoveRival(d, e)
             \/ WriteLeaf(d) \/ RemoveLeaf(d) \/ Commit(d)
    BY <2>3 DEF RemoveRival, WriteLeaf, RemoveLeaf, Commit, Effective
  <2>4. CASE SwapRefused(d) \/ MakeDir(d) \/ RemoveDir(d) \/ PortFails(d)
    BY <2>4 DEF SwapRefused, MakeDir, RemoveDir, PortFails, Effective
  <2>5. CASE Compare(d)
    BY <2>5 DEF Compare, Goto, Effective
  <2> QED
    BY <2>1, <2>2, <2>3, <2>4, <2>5 DEF Acts
<1> QED
  BY <1>1 DEF Proceed, Answer, Begin, TypeInv, TypeOK, TypeCalls

\* Whose call ends or goes on, that client acted.
LEMMA Actor ==
  ASSUME TypeInv, Next, NEW c \in Clients, call'[c] # call[c] \/ job'[c] # job[c]
  PROVE  Acts(c)
<1>1. PICK d \in Clients : Acts(d)
  BY DEF Next, Acts
<1> QED
  BY <1>1, OthersWait

\* Of the answers, only these say something about what the key holds.
LEMMA AnswerStep ==
  ASSUME IInv, NEW c \in Clients, Acts(c), Answers(c)
  PROVE  /\ reply'[c].is \in {"value", "refused"} => reply'[c].value \in seen[c]
         /\ reply'[c].is = "missing" => Absent \in seen[c]
<1>0. /\ TypeInv /\ TypeCalls /\ call[c] # NoCall /\ Held \subseteq seen[c]
      /\ call'[c] = NoCall /\ Route(call[c].op, job[c])
  BY DEF IInv, TypeInv, TypeOK, Answers, Past, Routed
<1>1. ASSUME NEW r, Answer(c, r) PROVE reply'[c] = r
  BY <1>0, <1>1 DEF Answer, TypeCalls
<1>2. ASSUME NEW j, Proceed(c, j) PROVE FALSE
  BY <1>0, <1>2 DEF Proceed
<1>3. ASSUME NEW kind \in {"done", "present", "error"}, Answer(c, Said(kind))
      PROVE  reply'[c].is \notin {"value", "refused", "missing"}
  BY <1>1, <1>3 DEF Said
<1>4. CASE \E r \in Requests : Begin(c, r)
  BY <1>0, <1>4 DEF Begin
<1>5. CASE List(c) \/ AskBase(c) \/ FindLeaf(c) \/ FindAgain(c)
  <2>1. CASE FindLeaf(c) /\ job[c].found = {}
    <3>1. Absent \in seen[c]
      BY <2>1, ScannedMissed DEF FindLeaf
    <3>2. \E kind \in {"done", "present", "error", "missing"} : Answer(c, Said(kind))
      BY <1>0, <1>2, <1>5, LookAnswers
    <3> QED
      BY <1>1, <3>1, <3>2 DEF Said
  <2>2. CASE ~(FindLeaf(c) /\ job[c].found = {})
    BY <1>0, <1>2, <1>3, <1>5, <2>2, LookAnswers
  <2> QED
    BY <2>1, <2>2
<1>6. CASE AskLeaf(c) \/ FindRivals(c) \/ EncodeValue(c)
  BY <1>2, <1>3, <1>6 DEF AskLeaf, FindRivals, EncodeValue, Goto
<1>7. CASE ReadLeaf(c)
  <2>1. Target(c) = home
    BY <1>0, <1>7, HomeTarget DEF ReadLeaf, At, Route
  <2> DEFINE v == IF leaf[home] = Absent THEN Garbage ELSE Decode(home, leaf[home])
  <2>2. v # Garbage => v \in Held
    BY HomeHeld
  <2>3. \/ Answer(c, Said("error"))
        \/ v # Garbage /\ Answer(c, [is |-> "value", value |-> v])
    BY <1>2, <1>7, <2>1 DEF ReadLeaf, Goto
  <2> HIDE DEF v
  <2> QED
    BY <1>0, <1>1, <1>3, <2>2, <2>3
<1>8. CASE RemoveLeaf(c)
  <2>1. job[c].saw \in seen[c]
    BY <1>0, <1>8 DEF RemoveLeaf, At, IInv, Past
  <2>2. \/ Answer(c, [is |-> "value", value |-> job[c].saw])
        \/ Answer(c, Said("done")) \/ Answer(c, Said("error"))
    BY <1>8 DEF RemoveLeaf, Effective
  <2> QED
    BY <1>1, <1>3, <2>1, <2>2
<1>9. CASE Compare(c)
  <2> DEFINE value == IF leaf[Target(c)] = Absent THEN Absent
                      ELSE Decode(Target(c), leaf[Target(c)])
  <2>1. value \in seen[c]
    <3>1. CASE Target(c) = home
      BY <1>0, <3>1, HomeHeld
    <3>2. CASE Target(c) # home
      <4>1. job[c].existing = {} /\ Target(c) \in Exts /\ job[c].at = "swap"
        BY <1>0, <1>9, <3>2, HomeTarget DEF Compare, At, Route
      <4>2. leaf[Target(c)] = Absent
        BY <3>2, <4>1 DEF IInv, HomeStore, Leaves
      <4> QED
        BY <1>0, <4>1, <4>2 DEF IInv, Past, Missed
    <3> QED
      BY <3>1, <3>2
  <2>2. \/ Answer(c, [is |-> "refused", value |-> value])
        \/ Answer(c, Said("error"))
    BY <1>2, <1>9 DEF Compare, Effective, Goto
  <2> HIDE DEF value
  <2> QED
    BY <1>1, <1>3, <2>1, <2>2
<1>11. CASE Commit(c)
  <2>1. Answer(c, [is |-> "exchanged", value |-> Observed(c)]) \/ Answer(c, Said("error"))
    BY <1>11 DEF Commit, Effective
  <2> QED
    BY <1>1, <1>3, <2>1
<1>10. CASE \/ \E e \in Exts : RemoveRival(c, e)
            \/ WriteLeaf(c) \/ MakeDir(c) \/ RemoveDir(c)
            \/ SwapRefused(c) \/ PortFails(c)
  <2>1. \/ \E j : Proceed(c, j)
        \/ \E kind \in {"done", "present", "error"} : Answer(c, Said(kind))
    BY <1>10 DEF RemoveRival, WriteLeaf, MakeDir, RemoveDir, SwapRefused, PortFails,
       Effective
  <2> QED
    BY <1>2, <1>3, <2>1
<1> QED
  BY <1>4, <1>5, <1>6, <1>7, <1>8, <1>9, <1>10, <1>11 DEF Acts

\* Whoever interleaves, a value or an absence that a call answers was the key's
\* at some moment of that call.
THEOREM AnswersAreTrue == ASSUME NothingFound PROVE Spec => AnswersWereHeld
<1>1. ASSUME IInv, [Next]_vars, NEW c \in Clients, Answers(c)
      PROVE  /\ reply'[c].is \in {"value", "refused"} => reply'[c].value \in During(c)
             /\ reply'[c].is = "missing" => Absent \in During(c)
  <2>1. call'[c] # call[c]
    BY <1>1 DEF Answers
  <2>2. Next
    BY <1>1, <2>1 DEF vars
  <2>3. Acts(c)
    BY <1>1, <2>1, <2>2, Actor DEF IInv
  <2> QED
    BY <1>1, <2>3, AnswerStep DEF During
<1>2. IInv /\ [Next]_vars =>
        [\A c \in Clients : Answers(c) =>
           /\ reply'[c].is \in {"value", "refused"} => reply'[c].value \in During(c)
           /\ reply'[c].is = "missing" => Absent \in During(c)]_vars
  BY <1>1
<1> QED
  BY <1>2, FsTableInvariant, PTL DEF Spec, AnswersWereHeld

\* The same after a step: what the key then holds is read off its home leaf.
LEMMA HomeHeldNext ==
  ASSUME IInv', home' = home
  PROVE  /\ leaf'[home] = Absent => Held' = {Absent}
         /\ leaf'[home] # Absent => /\ Held' = {leaf'[home].value}
                                    /\ leaf'[home].value \in Values
<1>1. /\ home \in Exts /\ leaf'[home] \in Contents \cup {Absent}
      /\ Leaves' \subseteq {home}
      /\ leaf'[home] # Absent => leaf'[home].form = home
  BY DEF IInv, TypeInv, TypeOK, TypeStore, HomeStore
<1>2. CASE leaf'[home] = Absent
  <2>1. Leaves' = {}
    BY <1>1, <1>2 DEF Leaves
  <2> QED
    BY <1>2, <2>1 DEF Held
<1>3. CASE leaf'[home] # Absent
  <2>1. Leaves' = {home}
    BY <1>1, <1>3 DEF Leaves
  <2>2. Decode(home, leaf'[home]) = leaf'[home].value
    BY <1>1, <1>3 DEF Decode
  <2>3. Held' = {Decode(home, leaf'[home])}
    BY <1>3, <2>1 DEF Held
  <2> QED
    BY <1>1, <1>3, <2>2, <2>3 DEF Contents
<1> QED
  BY <1>2, <1>3

LEMMA HeldKept ==
  ASSUME leaf' = leaf PROVE Held' = Held
BY DEF Held, Leaves

\* The stored form of a value, and of no other.
LEMMA StoredForm ==
  ASSUME IInv, NEW v \in Values \cup {Absent}
  PROVE  /\ v = Absent => Stored(home, v) = Absent
         /\ v # Absent => /\ Stored(home, v).value = v
                          /\ Stored(home, v) # Absent
<1>1. ASSUME v # Absent PROVE Stored(home, v).value = v /\ Stored(home, v) # Absent
  <2>1. home \in Exts /\ v \in Values
    BY <1>1 DEF IInv, TypeInv, TypeOK, TypeStore
  <2>2. Encode(home, v) \in Contents
    BY <2>1, EncodeType
  <2> QED
    BY <1>1, <2>2, NamesAssumption DEF Stored, Encode
<1> QED
  BY <1>1 DEF Stored

\* An exchange that changes what the key holds has written its new value.
LEMMA CommitChanges ==
  ASSUME IInv, IInv', NEW c \in Clients, Commit(c), Held' # Held
  PROVE  Target(c) = home /\ Held' = {call[c].new}
<1>0. /\ call[c] # NoCall /\ call[c] \in Requests /\ call[c].op = "cas"
      /\ home' = home /\ leaf \in [Exts -> Contents \cup {Absent}] /\ home \in Exts
  BY DEF IInv, TypeInv, TypeOK, TypeStore, TypeCalls, Commit, At, Routed, Route
<1>1. call[c].new \in Values \cup {Absent} /\ Target(c) \in Exts
  BY <1>0, RequestFields, HomeTarget
<1>2. leaf' = [leaf EXCEPT ![Target(c)] = Stored(Target(c), call[c].new)] /\ leaf' # leaf
  BY HeldKept DEF Commit
<1>3. CASE Target(c) # home
  <2>1. call[c].new = Absent
    BY <1>0, <1>3, HomeTarget
  <2>2. leaf[Target(c)] = Absent
    BY <1>1, <1>3 DEF IInv, HomeStore, Leaves
  <2> QED
    BY <1>0, <1>2, <2>1, <2>2 DEF Stored
<1>4. CASE Target(c) = home
  <2>1. leaf'[home] = Stored(home, call[c].new)
    BY <1>0, <1>2, <1>4
  <2> QED
    BY <1>0, <1>1, <1>4, <2>1, HomeHeldNext, StoredForm
<1> QED
  BY <1>3, <1>4

\* Between its two steps an exchange has met the expected value.  Nobody else
\* exchanges that leaf, and the value is still there unless it was overwritten
\* without the lock.
Compared ==
  \A c \in Clients : At(c, "commit") =>
    /\ call[c].expected \in seen[c]
    /\ c \notin crossed => leaf[Target(c)] = Stored(Target(c), call[c].expected)
    /\ \A d \in Clients : d # c /\ At(d, "commit") => Target(d) # Target(c)

\* A comparison that matches has met the expected value in the whole key.
LEMMA CompareMeets ==
  ASSUME IInv, NEW c \in Clients, Compare(c), Exchanges(c)
  PROVE  call[c].expected \in seen[c]
<1>0. /\ call[c] # NoCall /\ call[c] \in Requests /\ call[c].op = "cas"
      /\ Held \subseteq seen[c] /\ job[c].at = "swap"
      /\ Missed(job[c], home) => Absent \in seen[c]
  BY DEF IInv, TypeInv, TypeOK, TypeCalls, Compare, At, Past, Routed, Route
<1>1. call[c].expected \in Values \cup {Absent} /\ Target(c) \in Exts
  BY <1>0, RequestFields, HomeTarget
<1>2. CASE Target(c) = home
  <2>1. leaf[home] = Stored(home, call[c].expected)
    BY <1>2 DEF Exchanges
  <2>2. Held = {call[c].expected}
    BY <1>1, <2>1, HomeHeld, StoredForm
  <2> QED
    BY <1>0, <2>2
<1>3. CASE Target(c) # home
  <2>1. job[c].existing = {}
    BY <1>0, <1>3, HomeTarget
  <2>2. leaf[Target(c)] = Absent
    BY <1>1, <1>3 DEF IInv, HomeStore, Leaves
  <2>3. ASSUME call[c].expected # Absent PROVE FALSE
    <3>1. Encode(Target(c), call[c].expected) \in Contents
      BY <1>1, <2>3, EncodeType
    <3> QED
      BY <2>2, <2>3, <3>1, NamesAssumption DEF Exchanges, Stored
  <2>4. Absent \in seen[c]
    BY <1>0, <2>1 DEF Missed
  <2> QED
    BY <2>3, <2>4
<1> QED
  BY <1>2, <1>3

\* Only a comparison that matches leads a client to its exchange.
LEMMA IntoCommit ==
  ASSUME IInv, IInv', NEW c \in Clients, Acts(c), call'[c] # NoCall, job'[c].at = "commit"
  PROVE  Compare(c) /\ Exchanges(c)
<1>0. /\ TypeCalls /\ (call[c] # NoCall => Route(call[c].op, job[c]))
      /\ Route(call'[c].op, job'[c])
  BY DEF IInv, TypeInv, TypeOK, Routed
<1>1. ASSUME NEW r, Answer(c, r) PROVE FALSE
  BY <1>0, <1>1 DEF Answer, TypeCalls
<1>2. ASSUME NEW j, Proceed(c, j) PROVE job'[c] = j /\ call[c].op = "cas" /\ call[c] # NoCall
  BY <1>0, <1>2 DEF Proceed, TypeCalls, Route
<1>3. ASSUME NEW r \in Requests, Begin(c, r) PROVE FALSE
  <2>1. job'[c] = [Idle EXCEPT !.at = Entry(r.op)]
    BY <1>0, <1>3 DEF Begin, TypeCalls
  <2>2. job'[c].at = Entry(r.op)
    BY <2>1 DEF Idle
  <2> QED
    BY <2>2, RequestFields DEF Entry
<1>4. CASE FindLeaf(c)
  <2>1. \E j : Proceed(c, j)
    BY <1>1, <1>4, LookAnswers DEF IInv
  <2>2. call[c].op = "cas" /\ call[c] # NoCall
    BY <1>2, <2>1
  <2>3. Proceed(c, Found(c, "swap"))
    BY <1>1, <1>4, <2>2 DEF FindLeaf, WithoutLeaf, WithLeaf
  <2>4. job'[c] = Found(c, "swap") /\ job[c] \in Jobs
    BY <1>0, <1>2, <2>3 DEF TypeCalls
  <2> QED
    BY <2>4 DEF Found, Jobs
<1>5. CASE AskLeaf(c)
  <2>1. \E e \in Exts : job'[c] = [job[c] EXCEPT !.asked = @ + 1, !.found = @ \cup ({e} \cap Leaves)]
    <3>1. ExtOrder[job[c].asked + 1] \in Exts
      BY <1>0, <1>5, FsTableAssumption DEF AskLeaf, TypeCalls, Jobs, Exts
    <3> QED
      BY <1>2, <1>5, <3>1 DEF AskLeaf
  <2>2. job'[c].at = job[c].at
    BY <1>0, <2>1 DEF TypeCalls, Jobs
  <2> QED
    BY <1>5, <2>2 DEF AskLeaf, Scanning, At
<1>6. CASE List(c) \/ AskBase(c) \/ FindAgain(c)
  <2>1. \E j : Proceed(c, j)
    BY <1>1, <1>6, LookAnswers DEF IInv, FindLeaf
  <2> QED
    BY <1>0, <1>2, <1>6, <2>1 DEF List, AskBase, FindAgain, Scanned, At, Route
<1>7. CASE FindRivals(c) \/ EncodeValue(c) \/ ReadLeaf(c) \/ \E e \in Exts : RemoveRival(c, e)
  <2>1. \E j : Proceed(c, j)
    BY <1>1, <1>7 DEF FindRivals, EncodeValue, ReadLeaf, RemoveRival, Goto
  <2> QED
    BY <1>0, <1>2, <1>7, <2>1 DEF FindRivals, EncodeValue, ReadLeaf, RemoveRival, Scanned,
       At, Route
<1>8. CASE \/ WriteLeaf(c) \/ RemoveLeaf(c) \/ Commit(c) \/ SwapRefused(c)
           \/ MakeDir(c) \/ RemoveDir(c) \/ PortFails(c)
  BY <1>1, <1>8 DEF WriteLeaf, RemoveLeaf, Commit, SwapRefused, MakeDir, RemoveDir,
     PortFails, Effective
<1>9. CASE Compare(c)
  BY <1>1, <1>9 DEF Compare, Effective
<1> QED
  BY <1>3, <1>4, <1>5, <1>6, <1>7, <1>8, <1>9 DEF Acts

\* Only exchanges change a leaf under its lock.
LEMMA LeafChanges ==
  ASSUME IInv, NEW d \in Clients, Acts(d), leaf' # leaf
  PROVE  WritesUnlocked(d) \/ Commit(d)
<1>0. TypeCalls
  BY DEF IInv, TypeInv, TypeOK
<1>1. CASE WriteLeaf(d) \/ RemoveLeaf(d)
  <2>1. job[d].at \in {"write", "remove"} /\ \E r : Answer(d, r)
    BY <1>1 DEF WriteLeaf, RemoveLeaf, At, Effective
  <2>2. job'[d] = Idle
    BY <1>0, <2>1 DEF Answer, TypeCalls
  <2> QED
    BY <2>1, <2>2 DEF WritesUnlocked, Idle
<1>2. ASSUME NEW e \in Exts, RemoveRival(d, e) PROVE WritesUnlocked(d)
  <2>1. job[d].at = "purge" /\ e \in job[d].found
    BY <1>2 DEF RemoveRival, At, FirstOf
  <2>2. Proceed(d, [job[d] EXCEPT !.found = @ \ {e}])
    BY <1>2 DEF RemoveRival
  <2>3. job'[d].found = job[d].found \ {e}
    BY <1>0, <2>2 DEF Proceed, TypeCalls, Jobs
  <2> QED
    BY <2>1, <2>3 DEF WritesUnlocked
<1>3. CASE Commit(d)
  BY <1>3
<1> QED
  BY <1>1, <1>2, <1>3 DEF Acts, Begin, List, AskBase, AskLeaf, FindLeaf, FindAgain,
     FindRivals, EncodeValue, ReadLeaf, Compare, SwapRefused, MakeDir, RemoveDir,
     PortFails, Quiet

Chosen(found) == CHOOSE e \in found : TRUE

\* A call that is the same and has found the same works on the same leaf.
LEMMA TargetKept ==
  ASSUME NEW c \in Clients, call'[c] = call[c], job'[c].existing = job[c].existing
  PROVE  Target(c)' = Target(c)
<1>1. Target(c) = IF job[c].existing = {} THEN InferExt(call[c].new)
                  ELSE Chosen(job[c].existing)
  BY DEF Target, Chosen
<1>2. Target(c)' = IF job'[c].existing = {} THEN InferExt(call'[c].new)
                   ELSE Chosen(job'[c].existing)
  BY DEF Target, Chosen, InferExt
<1> QED
  BY <1>1, <1>2

\* The lock keeps every other exchange out between comparing and writing.
LEMMA ComparedStep == IInv /\ Compared /\ [Next]_vars => Compared'
<1> SUFFICES ASSUME IInv, Compared, [Next]_vars PROVE Compared'
  OBVIOUS
<1>0. IInv' /\ TypeInv /\ TypeCalls
  BY IInvStep DEF IInv, TypeInv, TypeOK
<1>1. CASE UNCHANGED vars
  BY <1>1, TargetKept DEF vars, Compared, At, Stored, Encode
<1>2. ASSUME Next PROVE Compared'
  <2>0. PICK a \in Clients : Acts(a)
    BY <1>2 DEF Next, Acts
  <2>1. Witness
    BY <2>0 DEF Acts, Begin, List, AskBase, AskLeaf, FindLeaf, FindAgain, FindRivals,
       RemoveRival, EncodeValue, ReadLeaf, WriteLeaf, RemoveLeaf, Compare, Commit,
       SwapRefused, MakeDir, RemoveDir, PortFails, Quiet
  <2>2. ASSUME NEW c \in Clients, call'[c] # NoCall, job'[c].at = "commit"
        PROVE  /\ call'[c] = call[c] /\ job'[c].existing = job[c].existing
               /\ \/ c # a /\ At(c, "commit")
                  \/ c = a /\ Compare(c) /\ Exchanges(c)
    <3>1. CASE c = a
      <4>1. Compare(c) /\ Exchanges(c)
        BY <1>0, <2>0, <2>2, <3>1, IntoCommit
      <4>2. Goto(c, "commit")
        BY <4>1 DEF Compare
      <4>3. call'[c] = call[c] /\ job'[c].existing = job[c].existing
        BY <1>0, <4>2 DEF Goto, Proceed, TypeCalls, Jobs
      <4> QED
        BY <3>1, <4>1, <4>3
    <3>2. CASE c # a
      BY <1>0, <2>0, <2>2, <3>2, OthersWait DEF At
    <3> QED
      BY <3>1, <3>2
  <2>3. ASSUME NEW c \in Clients, call'[c] # NoCall, job'[c].at = "commit"
        PROVE  Target(c)' = Target(c)
    BY <2>2, <2>3, TargetKept
  <2>4. ASSUME NEW c \in Clients, call'[c] # NoCall, job'[c].at = "commit"
        PROVE  call[c].expected \in seen'[c]
    <3>1. call[c].expected \in seen[c]
      BY <2>2, <2>4, CompareMeets DEF Compared
    <3> QED
      BY <2>1, <2>4, <3>1 DEF Witness
  <2>5. ASSUME NEW c \in Clients, call'[c] # NoCall, job'[c].at = "commit", c \notin crossed'
        PROVE  leaf'[Target(c)] = Stored(Target(c), call[c].expected)
    <3>1. CASE c = a
      BY <2>2, <2>5, <3>1 DEF Compare, Quiet, Exchanges
    <3>2. CASE c # a
      <4>1. At(c, "commit") /\ c \notin crossed /\ ~WritesUnlocked(a)
        BY <2>0, <2>1, <2>2, <2>5, <3>2 DEF Witness, At
      <4>2. leaf[Target(c)] = Stored(Target(c), call[c].expected)
        BY <4>1 DEF Compared
      <4>3. CASE leaf' = leaf
        BY <4>2, <4>3
      <4>4. CASE leaf' # leaf
        <5>1. Commit(a) /\ At(a, "commit")
          BY <2>0, <4>1, <4>4, LeafChanges DEF Commit
        <5>2. Target(a) # Target(c)
          BY <3>2, <4>1, <5>1 DEF Compared
        <5>3. leaf'[Target(c)] = leaf[Target(c)]
          BY <5>1, <5>2, <1>0 DEF Commit, TypeInv, TypeOK, TypeStore
        <5> QED
          BY <4>2, <5>3
      <4> QED
        BY <4>3, <4>4
    <3> QED
      BY <3>1, <3>2
  <2>6. ASSUME NEW c \in Clients, NEW d \in Clients, c # d,
               call'[c] # NoCall, job'[c].at = "commit",
               call'[d] # NoCall, job'[d].at = "commit"
        PROVE  Target(d) # Target(c)
    <3>1. CASE c = a
      BY <2>2, <2>6, <3>1 DEF Compare, LeafFree
    <3>2. CASE d = a
      BY <2>2, <2>6, <3>2 DEF Compare, LeafFree
    <3>3. CASE c # a /\ d # a
      BY <2>2, <2>6, <3>3 DEF Compared
    <3> QED
      BY <3>1, <3>2, <3>3
  <2>7. ASSUME NEW c \in Clients, At(c, "commit")'
        PROVE  /\ (call[c].expected \in seen[c])'
               /\ (c \notin crossed => leaf[Target(c)] = Stored(Target(c), call[c].expected))'
               /\ \A d \in Clients : (d # c /\ At(d, "commit") => Target(d) # Target(c))'
    <3>1. call'[c] # NoCall /\ job'[c].at = "commit" /\ call'[c] = call[c]
      BY <2>2, <2>7 DEF At
    <3>2. call'[c].expected \in seen'[c]
      BY <2>4, <3>1
    <3>3. (c \notin crossed => leaf[Target(c)] = Stored(Target(c), call[c].expected))'
      BY <2>3, <2>5, <3>1 DEF Stored, Encode
    <3>4. ASSUME NEW d \in Clients, d # c, At(d, "commit")' PROVE (Target(d) # Target(c))'
      BY <2>3, <2>6, <3>1, <3>4 DEF At
    <3> QED
      BY <3>2, <3>3, <3>4
  <2> QED
    BY <2>7 DEF Compared
<1> QED
  BY <1>1, <1>2

LEMMA ComparedAlways == ASSUME NothingFound PROVE Spec => []Compared
<1>1. Init => Compared
  BY DEF Init, Compared, At
<1> QED
  BY <1>1, ComparedStep, FsTableInvariant, PTL DEF Spec

\* What an acting client does between its two steps of an exchange.
LEMMA AtCommit ==
  ASSUME IInv, NEW c \in Clients, Acts(c), At(c, "commit")
  PROVE  Commit(c) \/ PortFails(c)
BY DEF Acts, At, Begin, List, AskBase, AskLeaf, Scanning, FindLeaf, FindAgain,
   Scanned, FindRivals, RemoveRival, EncodeValue, ReadLeaf, WriteLeaf, RemoveLeaf,
   Compare, SwapRefused, MakeDir, RemoveDir

\* What an exchange claims was so during the call: it met the expected value,
\* and its new value is there at the end.
LEMMA ClaimHolds ==
  ASSUME IInv, IInv', Compared, NEW c \in Clients, Commit(c), reply'[c].is = "exchanged"
  PROVE  call[c].expected \in During(c) /\ call[c].new \in During(c)
<1>0. /\ call[c] # NoCall /\ call[c] \in Requests /\ call[c].op = "cas" /\ TypeCalls
      /\ home' = home /\ leaf \in [Exts -> Contents \cup {Absent}] /\ home \in Exts
  BY DEF IInv, TypeInv, TypeOK, TypeStore, TypeCalls, Commit, At, Routed, Route
<1>1. call[c].new \in Values \cup {Absent} /\ Target(c) \in Exts
  BY <1>0, RequestFields, HomeTarget
<1>2. call[c].expected \in seen[c]
  BY DEF Compared, Commit
<1> DEFINE removes == call[c].new = Absent /\ call[c].expected # Absent
<1>3. ~(removes /\ leaf[Target(c)] = Absent)
  <2>1. ASSUME Answer(c, Said("error")) PROVE FALSE
    <3>1. reply'[c] = Said("error")
      BY <1>0, <2>1 DEF Answer, TypeCalls
    <3> QED
      BY <3>1 DEF Said
  <2> QED
    BY <2>1 DEF Commit
<1>4. CASE call[c].new = Absent /\ call[c].expected = Absent
  BY <1>2, <1>4 DEF During
<1>5. CASE call[c].new # Absent \/ removes
  <2>1. leaf' = [leaf EXCEPT ![Target(c)] = Stored(Target(c), call[c].new)]
    BY <1>5 DEF Commit
  <2>2. Target(c) = home
    <3>1. CASE call[c].new # Absent
      BY <1>0, <3>1, HomeTarget
    <3>2. CASE removes
      BY <1>1, <1>3, <3>2 DEF IInv, HomeStore, Leaves
    <3> QED
      BY <1>5, <3>1, <3>2
  <2>3. leaf'[home] = Stored(home, call[c].new)
    BY <1>0, <2>1, <2>2
  <2>4. Held' = {call[c].new}
    BY <1>0, <1>1, <2>3, HomeHeldNext, StoredForm
  <2> QED
    BY <1>2, <2>4 DEF During
<1> QED
  BY <1>4, <1>5

\* An exchange that changes the key replaces the value it expected, or one that
\* was written without the lock since it compared, never that of an exchange.
THEOREM ExchangesAreExact == ASSUME NothingFound PROVE Spec => ExchangeIsExact
<1> DEFINE Exact(c) ==
      /\ Held' # Held => /\ Held = {call[c].expected} \/ c \in crossed
                         /\ Held' = {call[c].new}
      /\ reply'[c].is = "exchanged" => /\ call[c].expected \in During(c)
                                       /\ call[c].new \in During(c)
<1>1. ASSUME IInv, Compared, [Next]_vars, NEW c \in Clients, At(c, "commit"), Answers(c)
      PROVE  Exact(c)
  <2>1. Next /\ call'[c] # call[c]
    BY <1>1 DEF Answers, vars
  <2>2. IInv' /\ Acts(c) /\ TypeCalls
    BY <1>1, <2>1, Actor, IInvStep DEF IInv, TypeInv, TypeOK
  <2>3. CASE Commit(c)
    <3>1. ASSUME Held' # Held, c \notin crossed PROVE Held = {call[c].expected}
      <4>1. Target(c) = home
        BY <1>1, <2>2, <2>3, <3>1, CommitChanges
      <4>2. leaf[home] = Stored(home, call[c].expected)
        BY <1>1, <3>1, <4>1 DEF Compared
      <4>3. call[c].expected \in Values \cup {Absent}
        BY <1>1, <2>2, RequestFields DEF At, IInv, TypeInv, Routed, Route, TypeCalls
      <4> QED
        BY <1>1, <4>2, <4>3, HomeHeld, StoredForm
    <3> QED
      BY <1>1, <2>2, <2>3, <3>1, CommitChanges, ClaimHolds
  <2>4. CASE PortFails(c)
    <3>1. leaf' = leaf /\ Answer(c, Said("error"))
      BY <2>4 DEF PortFails, Quiet
    <3>2. reply'[c].is = "error"
      BY <2>2, <3>1 DEF Answer, TypeCalls, Said
    <3> QED
      BY <3>1, <3>2, HeldKept
  <2> QED
    BY <1>1, <2>2, <2>3, <2>4, AtCommit
<1>2. IInv /\ Compared /\ [Next]_vars =>
        [\A c \in Clients : At(c, "commit") /\ Answers(c) => Exact(c)]_vars
  BY <1>1
<1> QED
  BY <1>2, FsTableInvariant, ComparedAlways, PTL DEF Spec, ExchangeIsExact

\* Of the steps that change the store, only a removal, or an exchange for
\* nothing, leaves the key without a value that was not missing before.
LEMMA ClearingStep ==
  ASSUME IInv, IInv', NEW c \in Clients, Acts(c), Held # {Absent}, Held' = {Absent}
  PROVE  MayClear(c) /\ job'[c] # job[c]
<1>0. /\ TypeCalls /\ home' = home /\ leaf' # leaf
  <2>1. leaf' # leaf
    BY HeldKept
  <2>2. home' = home
    BY DEF Acts, Begin, List, AskBase, AskLeaf, FindLeaf, FindAgain, FindRivals,
       RemoveRival, EncodeValue, ReadLeaf, WriteLeaf, RemoveLeaf, Compare, Commit,
       SwapRefused, MakeDir, RemoveDir, PortFails, Quiet
  <2> QED
    BY <2>1, <2>2 DEF IInv, TypeInv, TypeOK
<1>1. leaf'[home] = Absent /\ leaf[home] # Absent
  <2>1. leaf'[home] = Absent
    BY <1>0, HomeHeldNext, FsTableAssumption
  <2> QED
    BY <2>1, HomeHeld
<1>2. \/ \E e \in Exts : RemoveRival(c, e)
      \/ WriteLeaf(c) \/ RemoveLeaf(c) \/ Commit(c)
  BY <1>0 DEF Acts, Begin, List, AskBase, AskLeaf, FindLeaf, FindAgain, FindRivals,
     EncodeValue, ReadLeaf, Compare, SwapRefused, MakeDir, RemoveDir, PortFails, Quiet
<1>3. /\ call[c] # NoCall /\ call[c] \in Requests /\ job[c] \in Jobs
      /\ job[c].found \subseteq {home}
      /\ Missed(job[c], home) => Absent \in seen[c]
      /\ Route(call[c].op, job[c]) /\ job[c].at # "idle"
      /\ leaf \in [Exts -> Contents \cup {Absent}] /\ home \in Exts
  BY <1>2 DEF IInv, TypeInv, TypeOK, TypeStore, TypeCalls, HomeCalls, Past, Routed,
     RemoveRival, WriteLeaf, RemoveLeaf, Commit, At
<1>4. ASSUME NEW r, Answer(c, r) PROVE job'[c] # job[c]
  BY <1>0, <1>3, <1>4 DEF Answer, Idle, TypeCalls
<1>5. ASSUME NEW e \in Exts, RemoveRival(c, e) PROVE MayClear(c) /\ job'[c] # job[c]
  <2>1. e = home /\ e \in job[c].found /\ At(c, "purge")
    BY <1>3, <1>5 DEF RemoveRival, FirstOf
  <2>2. Absent \in seen[c]
    <3>1. home \notin job[c].existing
      BY <1>3, <2>1 DEF Route, At
    <3>2. job[c].existing \subseteq {home}
      BY <1>3 DEF IInv, HomeCalls
    <3> QED
      BY <1>3, <2>1, <3>1, <3>2 DEF Missed, At
  <2>3. Proceed(c, [job[c] EXCEPT !.found = @ \ {e}])
    BY <1>1, <1>5, <2>1 DEF RemoveRival
  <2>4. job'[c].found = job[c].found \ {e}
    BY <1>0, <1>3, <2>3 DEF Proceed, TypeCalls, Jobs
  <2> QED
    BY <2>1, <2>2, <2>4 DEF MayClear
<1>6. CASE WriteLeaf(c)
  <2>1. Target(c) = home
    BY <1>3, <1>6, HomeTarget DEF WriteLeaf, At, Route
  <2>2. leaf'[home] = Encode(home, call[c].new)
    BY <1>3, <1>6, <2>1 DEF WriteLeaf
  <2>3. call[c].new \in Values
    BY <1>3, <1>6, RequestFields DEF WriteLeaf, At, Route
  <2> QED
    BY <1>1, <1>3, <2>2, <2>3, EncodeType, NamesAssumption
<1>7. CASE RemoveLeaf(c)
  <2>1. \E r : Answer(c, r)
    BY <1>7 DEF RemoveLeaf, Effective
  <2> QED
    BY <1>4, <1>7, <2>1 DEF RemoveLeaf, MayClear
<1>8. CASE Commit(c)
  <2>1. \E r : Answer(c, r)
    BY <1>8 DEF Commit, Effective
  <2>2. Held' = {call[c].new}
    BY <1>8, CommitChanges
  <2> QED
    BY <1>4, <1>8, <2>1, <2>2 DEF Commit, MayClear
<1> QED
  BY <1>2, <1>5, <1>6, <1>7, <1>8

\* No set makes the key absent, unless it met its absence before.
THEOREM OnlyRemovalsClear == ASSUME NothingFound PROVE Spec => ClearedOnlyBy
<1>1. ASSUME IInv, [Next]_vars, Held # {Absent}, Held' = {Absent}
      PROVE  \E c \in Clients : job'[c] # job[c] /\ MayClear(c)
  <2>1. leaf' # leaf
    BY <1>1, HeldKept
  <2>2. PICK c \in Clients : Acts(c)
    BY <1>1, <2>1 DEF Next, Acts, vars
  <2>3. IInv'
    BY <1>1, IInvStep
  <2> QED
    BY <1>1, <2>2, <2>3, ClearingStep
<1>2. IInv /\ [Next]_vars =>
        [Held # {Absent} /\ Held' = {Absent} =>
           \E c \in Clients : job'[c] # job[c] /\ MayClear(c)]_vars
  BY <1>1
<1> QED
  BY <1>2, FsTableInvariant, PTL DEF Spec, ClearedOnlyBy
=============================================================================
