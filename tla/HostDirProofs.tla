---------------------------- MODULE HostDirProofs ----------------------------
(***************************************************************************)
(* Theorems about HostDir.  The first part holds for every mix of calls;   *)
(* the second, about compare_exchange, for the clients that use it alone.  *)
(***************************************************************************)
EXTENDS HostDir, FiniteSetTheorems, TLAPS

\* A compare-exchange past its lock call holds the lock of its leaf.
WorkersHoldLocks ==
  \A c \in Clients : op[c].kind = "cas" /\ pc[c] \notin {"idle", "lock"} =>
    lock[Leaf(c)] = c

\* Only a compare-exchange locks.
ExchangersLock == \A c \in Clients : pc[c] \in {"lock", "read"} => op[c].kind = "cas"

IInv ==
  TypeOK /\ TempsAccounted /\ LocksHeldByWorkers /\ WorkersHoldLocks /\ ExchangersLock

ClientStep(c) ==
  \/ Start(c) \/ Lock(c) \/ Read(c) \/ Return(c) \/ Create(c)
  \/ WriteFails(c) \/ CancelSeen(c) \/ Rename(c) \/ RenameFails(c)
  \/ SyncDir(c) \/ Unlink(c) \/ IoFails(c)

\* The initial state has the type and every part of the invariant.
LEMMA InitIInv == Init => IInv
<1> SUFFICES ASSUME Init PROVE IInv
  OBVIOUS
<1> USE HostDirAssumption
<1>1. TypeOK
  <2>1. TypeDisk
    BY DEF Init, TypeDisk, Contents
  <2>2. TypeClients
    BY DEF Init, TypeClients, Contents, FirstSlot
  <2>3. TypeHistory
    BY DEF Init, TypeHistory
  <2> QED
    BY <2>1, <2>2, <2>3 DEF TypeOK
<1>2. TempsAccounted
  BY DEF Init, TempsAccounted, Slots
<1>3. LocksHeldByWorkers /\ WorkersHoldLocks /\ ExchangersLock
  BY DEF Init, LocksHeldByWorkers, WorkersHoldLocks, ExchangersLock
<1> QED
  BY <1>1, <1>2, <1>3 DEF IInv

\* A request has a leaf, contents and a kind.
LEMMA RequestFields ==
  ASSUME NEW o \in Requests
  PROVE  /\ o.leaf \in Leaves /\ o.kind \in Kinds
         /\ o.expected \in Contents /\ o.new \in Contents
         /\ o.kind \in {"cas", "replace", "remove"}
BY HostDirAssumption DEF Requests

Answers == {"none", "ok", "refused", "failed", "cancelled", "exhausted"}
Places  == {"idle", "lock", "read", "create", "rename", "unlink", "sync", "return"}

\* A temporary is written by a client, free or an orphan.
LEMMA SetTempType ==
  ASSUME TypeDisk, NEW c \in Clients, NEW who \in Clients \cup {Free, Orphan},
         SetTemp(c, who)
  PROVE  temps' \in [Processes -> [Slots -> Clients \cup {Free, Orphan}]]
<1> DEFINE row == [temps[Own(c)] EXCEPT ![slot[c]] = who]
<1>1. Own(c) \in Processes
  BY HostDirAssumption DEF Own
<1>2. row \in [Slots -> Clients \cup {Free, Orphan}]
  BY <1>1 DEF TypeDisk
<1>3. temps' = [temps EXCEPT ![Own(c)] = row]
  BY DEF SetTemp
<1> QED
  BY <1>2, <1>3 DEF TypeDisk

\* The end of a call keeps the types.
LEMMA EndType ==
  ASSUME TypeOK, NEW c \in Clients, NEW a \in Answers, End(c, a)
  PROVE  /\ pc' \in [Clients -> Places] /\ ans' \in [Clients -> Answers]
         /\ lock' \in [Leaves -> Clients \cup {Nobody}]
         /\ slot' \in [Clients -> 0 .. MaxTemps]
BY HostDirAssumption
   DEF End, Goto, Unlocked, FirstSlot, Answers, Places, TypeOK, TypeDisk, TypeClients

\* A commit keeps the types.
LEMMA CommitType ==
  ASSUME TypeOK, NEW c \in Clients, NEW v \in Contents, Commit(c, v)
  PROVE  /\ disk' \in [Leaves -> Contents] /\ media' \in [Leaves -> SUBSET Contents]
         /\ over' \in [Clients -> Contents \cup {Torn}]
         /\ told' \in [Leaves -> Contents \cup {Torn}]
<1>1. op[c] \in Requests /\ Leaf(c) \in Leaves
  BY RequestFields DEF Leaf, TypeOK, TypeClients
<1>2. disk[Leaf(c)] \in Contents /\ media[Leaf(c)] \cup Flushed(v) \in SUBSET Contents
  BY <1>1 DEF TypeOK, TypeDisk, Flushed
<1> QED
  BY <1>1, <1>2 DEF Commit, TypeOK, TypeDisk, TypeClients, TypeHistory

\* A step of a client keeps the types.
LEMMA ClientType ==
  ASSUME TypeOK, NEW c \in Clients, ClientStep(c)
  PROVE  TypeOK'
<1> USE DEF TypeOK, TypeDisk, TypeClients, TypeHistory
<1>0. /\ op[c] \in Requests /\ Leaf(c) \in Leaves /\ op[c].new \in Contents
      /\ Absent \in Contents /\ disk[Leaf(c)] \in Contents
  BY RequestFields DEF Leaf, Contents
<1>1. CASE Start(c)
  <2>1. \A o \in Requests : FirstStep(o) \in {"lock", "create", "unlink"}
    BY RequestFields DEF FirstStep
  <2> QED
    BY <1>1, <2>1, <1>0 DEF Start, Goto, hostVars
<1>2. CASE Lock(c)
  BY <1>2, <1>0 DEF Lock, Goto
<1>3. CASE Read(c)
  <2>1. AfterRead(op[c], disk[Leaf(c)]) \in {"return", "create", "unlink"}
    BY DEF AfterRead
  <2> QED
    BY <1>3, <1>0, <2>1 DEF Read, Goto, hostVars
<1>4. CASE Return(c)
  <2>1. PICK a \in {"ok", "refused"} : End(c, a)
    BY <1>4 DEF Return
  <2> QED
    BY <1>4, <1>0, <2>1, EndType DEF Return, Answers, Places
<1>5. CASE Create(c)
  <2>1. CASE slot[c] \in Slots /\ SetTemp(c, c) /\ Goto(c, "rename")
             /\ UNCHANGED <<slot, ans, lock>>
    BY <1>5, <2>1, SetTempType DEF Create, Goto
  <2>2. CASE slot[c] \in Slots /\ slot' = [slot EXCEPT ![c] = @ + 1]
             /\ UNCHANGED <<temps, pc, ans, lock>>
    <3>1. slot' \in [Clients -> 0 .. MaxTemps]
      BY <2>2, HostDirAssumption DEF Slots
    <3> QED
      BY <1>5, <2>2, <3>1 DEF Create
  <2>3. CASE End(c, "exhausted") /\ UNCHANGED temps
    BY <1>5, <2>3, EndType DEF Create, Answers, Places
  <2> QED
    BY <1>5, <2>1, <2>2, <2>3 DEF Create
<1>6. CASE WriteFails(c) \/ CancelSeen(c)
  <2>1. PICK a \in {"failed", "cancelled"} : End(c, a)
    BY <1>6 DEF WriteFails, CancelSeen
  <2>2. /\ temps' \in [Processes -> [Slots -> Clients \cup {Free, Orphan}]]
        /\ disturbed' \in BOOLEAN
    BY <1>6, SetTempType DEF WriteFails, CancelSeen, RemoveTemp
  <2> QED
    BY <1>6, <2>1, <2>2, EndType DEF WriteFails, CancelSeen, Answers, Places
<1>7. CASE Rename(c)
  <2>1. temps' \in [Processes -> [Slots -> Clients \cup {Free, Orphan}]]
    BY <1>7, SetTempType DEF Rename
  <2> QED
    BY <1>7, <1>0, <2>1, CommitType DEF Rename, Goto
<1>8. CASE RenameFails(c)
  <2>1. temps' \in [Processes -> [Slots -> Clients \cup {Free, Orphan}]]
    BY <1>8, SetTempType DEF RenameFails
  <2> QED
    BY <1>8, <2>1, EndType DEF RenameFails, Answers, Places
<1>9. CASE SyncDir(c)
  BY <1>9 DEF SyncDir, Synced, Goto
<1>10. CASE Unlink(c)
  <2>1. CASE Commit(c, Absent) /\ Goto(c, IF op[c].kind = "cas" THEN "sync" ELSE "return")
             /\ UNCHANGED <<lock, ans, slot>>
    BY <1>10, <1>0, <2>1, CommitType DEF Unlink, Goto
  <2>2. CASE End(c, "failed") /\ UNCHANGED <<disk, media, over, told>>
    BY <1>10, <2>2, EndType DEF Unlink, Answers, Places
  <2> QED
    BY <1>10, <2>1, <2>2 DEF Unlink
<1>11. CASE IoFails(c)
  BY <1>11, EndType DEF IoFails, Answers, Places
<1> QED
  BY <1>1, <1>2, <1>3, <1>4, <1>5, <1>6, <1>7, <1>8, <1>9, <1>10, <1>11 DEF ClientStep

\* A death keeps the types.
LEMMA DieType ==
  ASSUME TypeOK, NEW gone, Die(gone)
  PROVE  /\ TypeClients' /\ TypeHistory'
         /\ lock' \in [Leaves -> Clients \cup {Nobody}]
BY HostDirAssumption DEF Die, FirstSlot, TypeOK, TypeDisk, TypeClients, TypeHistory

\* Every step keeps the types.
LEMMA TypeStep == TypeOK /\ [Next]_vars => TypeOK'
<1> SUFFICES ASSUME TypeOK, [Next]_vars PROVE TypeOK'
  OBVIOUS
<1>1. ASSUME NEW c \in Clients, ClientStep(c) PROVE TypeOK'
  BY <1>1, ClientType
<1>2. ASSUME NEW p \in Processes, Crash(p) PROVE TypeOK'
  <2>1. PICK gone \in SUBSET Clients :
          Die(gone) /\ temps' = [q \in Processes |-> Abandoned(q, gone)]
    BY <1>2 DEF Crash
  <2>2. temps' \in [Processes -> [Slots -> Clients \cup {Free, Orphan}]]
    BY <2>1 DEF Abandoned, TypeOK, TypeDisk
  <2> QED
    BY <1>2, <2>1, <2>2, DieType DEF Crash, TypeOK, TypeDisk
<1>3. CASE PowerCut
  <2>1. disk' \in [Leaves -> Contents] /\ media' \in [Leaves -> SUBSET Contents]
    <3>1. disk' \in [Leaves -> Contents \cup {Torn}]
          /\ \A l \in Leaves : disk'[l] \in media[l]
      BY <1>3 DEF PowerCut
    <3>2. \A l \in Leaves : disk'[l] \in Contents
      BY <3>1 DEF TypeOK, TypeDisk
    <3>3. disk' \in [Leaves -> Contents]
      BY <3>1, <3>2
    <3> QED
      BY <1>3, <3>2, <3>3 DEF PowerCut
  <2>2. temps' \in [Processes -> [Slots -> Clients \cup {Free, Orphan}]]
    BY <1>3 DEF PowerCut, Abandoned, TypeOK, TypeDisk
  <2> QED
    BY <1>3, <2>1, <2>2, DieType DEF PowerCut, TypeOK, TypeDisk
<1>4. CASE UNCHANGED vars
  BY <1>4 DEF vars, TypeOK, TypeDisk, TypeClients, TypeHistory
<1> QED
  BY <1>1, <1>2, <1>3, <1>4 DEF Next, ClientStep

\* Whose temporary is whose stays accounted for in every step.
LEMMA TempsStep == TypeOK /\ TempsAccounted /\ [Next]_vars => TempsAccounted'
<1> SUFFICES ASSUME TypeOK, TempsAccounted, [Next]_vars,
                    NEW p \in Processes, NEW n \in Slots
             PROVE  /\ temps'[p][n] = Orphan => disturbed'
                    /\ temps'[p][n] \in Clients =>
                         /\ Own(temps'[p][n]) = p
                         /\ slot'[temps'[p][n]] = n /\ pc'[temps'[p][n]] = "rename"
  BY DEF TempsAccounted, Own
<1>0. /\ temps[p][n] = Orphan => disturbed
      /\ temps[p][n] \in Clients =>
           /\ Own(temps[p][n]) = p
           /\ slot[temps[p][n]] = n /\ pc[temps[p][n]] = "rename"
  BY DEF TempsAccounted
<1>t. /\ temps \in [Processes -> [Slots -> Clients \cup {Free, Orphan}]]
      /\ pc \in [Clients -> Places] /\ slot \in [Clients -> 0 .. MaxTemps]
  BY DEF TypeOK, TypeDisk, TypeClients, Places
<1> USE HostDirAssumption
<1>1. ASSUME NEW c \in Clients, ClientStep(c)
      PROVE  /\ temps'[p][n] = Orphan => disturbed'
             /\ temps'[p][n] \in Clients =>
                  /\ Own(temps'[p][n]) = p
                  /\ slot'[temps'[p][n]] = n /\ pc'[temps'[p][n]] = "rename"
  <2>1. CASE UNCHANGED temps /\ (disturbed' = disturbed) /\ pc[c] # "rename"
             /\ \A d \in Clients \ {c} : pc'[d] = pc[d] /\ slot'[d] = slot[d]
    BY <1>0, <1>t, <2>1
  <2>2. ASSUME NEW who \in {Free, Orphan}, SetTemp(c, who), pc[c] = "rename",
               disturbed' = disturbed \/ disturbed', who = Orphan => disturbed',
               \A d \in Clients \ {c} : pc'[d] = pc[d] /\ slot'[d] = slot[d]
        PROVE  /\ temps'[p][n] = Orphan => disturbed'
               /\ temps'[p][n] \in Clients =>
                    /\ Own(temps'[p][n]) = p
                    /\ slot'[temps'[p][n]] = n /\ pc'[temps'[p][n]] = "rename"
    <3>1. CASE p = Own(c) /\ n = slot[c]
      <4>1. temps'[p][n] = who
        BY <2>2, <3>1, <1>t DEF SetTemp
      <4> QED
        BY <4>1, <2>2
    <3>2. CASE ~(p = Own(c) /\ n = slot[c])
      <4>1. temps'[p][n] = temps[p][n]
        BY <2>2, <3>2, <1>t DEF SetTemp
      <4>2. temps[p][n] # c
        BY <3>2, <1>0
      <4> QED
        BY <4>1, <4>2, <2>2, <1>0
    <3> QED
      BY <3>1, <3>2
  <2>3. CASE Create(c) /\ SetTemp(c, c)
    <3>1. CASE p = Own(c) /\ n = slot[c]
      <4>1. temps'[p][n] = c
        BY <2>3, <3>1, <1>t DEF SetTemp
      <4>2. slot' = slot /\ pc'[c] = "rename"
        <5>1. temps # temps'
          BY <4>1, <1>0, <2>3 DEF Create, SetTemp
        <5> QED
          BY <5>1, <2>3, <1>t DEF Create, Goto
      <4> QED
        BY <4>1, <4>2, <3>1
    <3>2. CASE ~(p = Own(c) /\ n = slot[c])
      <4>1. temps'[p][n] = temps[p][n]
        BY <2>3, <3>2, <1>t DEF SetTemp
      <4>2. temps[p][n] # c
        BY <3>2, <1>0
      <4>3. \A d \in Clients \ {c} : pc'[d] = pc[d] /\ slot'[d] = slot[d]
        BY <2>3, <1>t DEF Create, Goto, End
      <4> QED
        BY <4>1, <4>2, <4>3, <1>0, <2>3 DEF Create
    <3> QED
      BY <3>1, <3>2
  <2>4. \A d \in Clients \ {c} : pc'[d] = pc[d] /\ slot'[d] = slot[d]
    BY <1>1, <1>t DEF ClientStep, Start, Lock, Read, Return, Create, WriteFails, CancelSeen,
       Rename, RenameFails, SyncDir, Unlink, IoFails, Goto, End, hostVars
  <2>5. CASE Start(c) \/ Lock(c) \/ Read(c) \/ Return(c) \/ SyncDir(c) \/ Unlink(c) \/ IoFails(c)
    <3>1. UNCHANGED temps /\ disturbed' = disturbed /\ pc[c] # "rename"
      BY <2>5 DEF Start, Lock, Read, Return, SyncDir, Unlink, IoFails, hostVars
    <3> QED
      BY <2>1, <2>4, <3>1
  <2>6. CASE Create(c) /\ ~SetTemp(c, c)
    <3>1. UNCHANGED temps /\ disturbed' = disturbed /\ pc[c] # "rename"
      BY <2>6 DEF Create
    <3> QED
      BY <2>1, <2>4, <3>1
  <2>7. CASE WriteFails(c) \/ (CancelSeen(c) /\ pc[c] = "rename")
    <3>1. pc[c] = "rename" /\ RemoveTemp(c)
      BY <2>7 DEF WriteFails, CancelSeen
    <3> QED
      BY <3>1, <2>2, <2>4 DEF RemoveTemp
  <2>8. CASE CancelSeen(c) /\ pc[c] # "rename"
    BY <2>8, <2>1, <2>4 DEF CancelSeen
  <2>9. CASE Rename(c)
    BY <2>9, <2>2, <2>4 DEF Rename
  <2>10. CASE RenameFails(c)
    BY <2>10, <2>2, <2>4 DEF RenameFails
  <2> QED
    BY <1>1, <2>3, <2>5, <2>6, <2>7, <2>8, <2>9, <2>10 DEF ClientStep
<1>2. ASSUME NEW gone \in SUBSET Clients, Die(gone),
             temps' = [q \in Processes |-> Abandoned(q, gone)]
      PROVE  /\ temps'[p][n] = Orphan => disturbed'
             /\ temps'[p][n] \in Clients =>
                  /\ Own(temps'[p][n]) = p
                  /\ slot'[temps'[p][n]] = n /\ pc'[temps'[p][n]] = "rename"
  BY <1>2, <1>0, <1>t DEF Die, Abandoned
<1>3. CASE UNCHANGED vars
  BY <1>3, <1>0 DEF vars
<1> QED
  BY <1>1, <1>2, <1>3 DEF Next, ClientStep, Crash, PowerCut

\* A lock stays with a compare-exchange at work, and every one at work past
\* its lock call keeps the lock of its leaf.
LEMMA LocksStep ==
  TypeOK /\ LocksHeldByWorkers /\ WorkersHoldLocks /\ ExchangersLock /\ [Next]_vars
    => LocksHeldByWorkers' /\ WorkersHoldLocks'
<1> SUFFICES ASSUME TypeOK, LocksHeldByWorkers, WorkersHoldLocks, ExchangersLock, [Next]_vars
             PROVE  LocksHeldByWorkers' /\ WorkersHoldLocks'
  OBVIOUS
<1> USE HostDirAssumption, RequestFields
    DEF TypeOK, TypeDisk, TypeClients, LocksHeldByWorkers, WorkersHoldLocks, Leaf
<1>1. ASSUME NEW c \in Clients, ClientStep(c)
      PROVE  LocksHeldByWorkers' /\ WorkersHoldLocks'
  <2>0. op[c] \in Requests /\ op[c].leaf \in Leaves
    OBVIOUS
  <2>1. ASSUME NEW a, End(c, a), op' = op PROVE LocksHeldByWorkers' /\ WorkersHoldLocks'
    BY <2>1 DEF End, Goto, Unlocked
  <2>2. ASSUME NEW at \in Places \ {"idle", "lock"}, Goto(c, at), pc[c] # "idle", pc[c] # "lock",
               UNCHANGED <<op, lock>>
        PROVE  LocksHeldByWorkers' /\ WorkersHoldLocks'
    BY <2>2 DEF Goto
  <2>3. CASE Start(c)
    <3>1. PICK o \in Requests : op' = [op EXCEPT ![c] = o] /\ Goto(c, FirstStep(o))
      BY <2>3 DEF Start
    <3>2. o.kind = "cas" => FirstStep(o) = "lock"
      BY DEF FirstStep
    <3>3. \A l \in Leaves : lock[l] # c
      BY <2>3 DEF Start
    <3> QED
      BY <2>3, <3>1, <3>2, <3>3 DEF Start, Goto, hostVars
  <2>4. CASE Lock(c)
    <3>1. op[c].kind = "cas"
      BY <2>4 DEF Lock, ExchangersLock
    <3> QED
      BY <2>4, <3>1, <2>0 DEF Lock, Lockable, Goto
  <2>5. CASE Read(c)
    <3>1. AfterRead(op[c], disk[Leaf(c)]) \in Places \ {"idle", "lock"}
      BY DEF AfterRead, Places
    <3> QED
      BY <2>5, <2>2, <3>1 DEF Read, hostVars
  <2>6. CASE Create(c)
    <3>1. CASE UNCHANGED <<pc, lock>>
      BY <2>6, <3>1 DEF Create
    <3>2. CASE Goto(c, "rename") /\ UNCHANGED lock
      BY <2>6, <3>2, <2>2 DEF Create, Places
    <3>3. CASE End(c, "exhausted")
      BY <2>6, <3>3, <2>1 DEF Create
    <3> QED
      BY <2>6, <3>1, <3>2, <3>3 DEF Create
  <2>7. CASE Rename(c) \/ SyncDir(c)
    BY <2>7, <2>2 DEF Rename, SyncDir, Places
  <2>8. CASE Unlink(c)
    <3>1. CASE End(c, "failed")
      BY <2>8, <3>1, <2>1 DEF Unlink
    <3>2. CASE Goto(c, IF op[c].kind = "cas" THEN "sync" ELSE "return") /\ UNCHANGED lock
      BY <2>8, <3>2, <2>2 DEF Unlink, Places
    <3> QED
      BY <2>8, <3>1, <3>2 DEF Unlink
  <2>9. CASE Return(c) \/ WriteFails(c) \/ CancelSeen(c) \/ RenameFails(c) \/ IoFails(c)
    BY <2>9, <2>1 DEF Return, WriteFails, CancelSeen, RenameFails, IoFails
  <2> QED
    BY <1>1, <2>3, <2>4, <2>5, <2>6, <2>7, <2>8, <2>9 DEF ClientStep
<1>2. ASSUME NEW gone \in SUBSET Clients, Die(gone)
      PROVE  LocksHeldByWorkers' /\ WorkersHoldLocks'
  BY <1>2 DEF Die
<1>3. CASE UNCHANGED vars
  BY <1>3 DEF vars
<1> QED
  BY <1>1, <1>2, <1>3 DEF Next, ClientStep, Crash, PowerCut

\* No other call comes to the lock or to the read behind it.
LEMMA ExchangersStep == TypeOK /\ ExchangersLock /\ [Next]_vars => ExchangersLock'
<1> SUFFICES ASSUME TypeOK, ExchangersLock, [Next]_vars,
                    NEW d \in Clients, pc'[d] \in {"lock", "read"}
             PROVE  op'[d].kind = "cas"
  BY DEF ExchangersLock
<1> USE DEF TypeOK, TypeClients, ExchangersLock
<1>1. ASSUME NEW c \in Clients, ClientStep(c) PROVE op'[d].kind = "cas"
  <2>1. CASE d # c
    <3>1. pc'[d] = pc[d] /\ op'[d] = op[d]
      BY <1>1, <2>1 DEF ClientStep, Start, Lock, Read, Return, Create, WriteFails, CancelSeen,
         Rename, RenameFails, SyncDir, Unlink, IoFails, Goto, End, hostVars
    <3> QED
      BY <3>1
  <2>2. CASE d = c /\ Start(c)
    <3>1. PICK o \in Requests : op' = [op EXCEPT ![c] = o] /\ Goto(c, FirstStep(o))
      BY <2>2 DEF Start
    <3>2. FirstStep(o) \in {"lock", "read"} => o.kind = "cas"
      BY RequestFields DEF FirstStep
    <3> QED
      BY <2>2, <3>1, <3>2 DEF Goto
  <2>3. CASE d = c /\ Lock(c)
    BY <2>3 DEF Lock
  <2>4. CASE d = c /\ ~Start(c) /\ ~Lock(c)
    <3>1. pc'[c] \notin {"lock", "read"}
      BY <1>1, <2>4 DEF ClientStep, Read, Return, Create, WriteFails, CancelSeen,
         Rename, RenameFails, SyncDir, Unlink, IoFails, Goto, End, AfterRead
    <3> QED
      BY <3>1, <2>4
  <2> QED
    BY <2>1, <2>2, <2>3, <2>4
<1>2. ASSUME NEW gone \in SUBSET Clients, Die(gone) PROVE op'[d].kind = "cas"
  BY <1>2 DEF Die
<1>3. CASE UNCHANGED vars
  BY <1>3 DEF vars
<1> QED
  BY <1>1, <1>2, <1>3 DEF Next, ClientStep, Crash, PowerCut

\* The invariant holds of every behaviour, whatever calls the clients make.
THEOREM HostDirInvariant == Spec => []IInv
<1>1. IInv /\ [Next]_vars => IInv'
  BY TypeStep, TempsStep, LocksStep, ExchangersStep DEF IInv
<1> QED
  BY <1>1, InitIInv, PTL DEF Spec

\* Every variable keeps its type; among others, no power cut can leave a leaf
\* whose bytes are not the bytes of some call (`replace` synchronizes first).
THEOREM HostDirTypeCorrect == Spec => []TypeOK
BY HostDirInvariant, PTL DEF IInv

\* Temporaries are leaked only by crashes and by failing renames or removals;
\* any other one is a file its client is writing (`replace`).
THEOREM TemporariesAccounted == Spec => []TempsAccounted
BY HostDirInvariant, PTL DEF IInv

\* Locks are held by running compare-exchanges of their leaf only: every
\* return and every death releases (`compare_exchange`, `lock_file`).
THEOREM LocksReleased == Spec => []LocksHeldByWorkers
BY HostDirInvariant, PTL DEF IInv

-----------------------------------------------------------------------------
(* What refusals mean, whatever calls the clients make.                    *)
(*                                                                         *)
(* A thread passes a number over because an orphan has it, or another      *)
(* thread that stands at just that number: of the threads that came as far *)
(* as a number, one at least came no farther.                              *)

\* A call has committed nothing before its rename or unlink.
Uncommitted ==
  \A c \in Clients :
    pc[c] \in {"lock", "read", "create", "rename", "unlink"} => ~Committed(c)

\* A call under way has answered nothing.
Unanswered == \A c \in Clients : pc[c] # "idle" => ans[c] = "none"

\* A client about to rename has its temporary.
HoldsTemp ==
  \A c \in Clients :
    pc[c] = "rename" => slot[c] \in Slots /\ temps[Own(c)][slot[c]] = c

Threads(p)   == {c \in Clients : Own(c) = p}
Beyond(p, j) == {c \in Threads(p) : slot[c] >= j}
Intact(p, j) == {n \in Slots : n < j /\ temps[p][n] # Orphan}

\* As many threads of a process stay below a number as there are numbers
\* below it that are not lost to orphans.
Crowding ==
  \A p \in Processes, j \in 0 .. MaxTemps :
    Beyond(p, j) # {} =>
      Cardinality(Beyond(p, j)) + Cardinality(Intact(p, j)) <= Cardinality(Threads(p))

\* What a step does to a temporary that is not the stepping client's own.
OrphansStay ==
  \A p \in Processes, n \in Slots : temps[p][n] = Orphan => temps'[p][n] = Orphan

\* Client c passes over a number in use.
PassesOver(c) ==
  /\ pc[c] = "create" /\ slot[c] \in Slots /\ temps[Own(c)][slot[c]] # Free
  /\ slot' = [slot EXCEPT ![c] = @ + 1]
  /\ UNCHANGED temps

RefusalInv ==
  IInv /\ Uncommitted /\ Unanswered /\ HoldsTemp /\ Crowding
    /\ RefusalChangesNothing /\ ExhaustionNeedsLeaks

\* The numbers of temporaries and the threads of a process are finitely many.
LEMMA FinitelyMany ==
  /\ \A S \in SUBSET Slots : IsFiniteSet(S) /\ Cardinality(S) \in Nat
  /\ \A S \in SUBSET Clients : IsFiniteSet(S) /\ Cardinality(S) \in Nat
  /\ Cardinality(Slots) = MaxTemps
<1>1. IsFiniteSet(Slots) /\ Cardinality(Slots) = MaxTemps
  <2>1. 0 \in Int /\ MaxTemps - 1 \in Int
    BY HostDirAssumption
  <2>2. /\ IsFiniteSet(0 .. MaxTemps - 1)
        /\ Cardinality(0 .. MaxTemps - 1) =
             IF 0 > MaxTemps - 1 THEN 0 ELSE MaxTemps - 1 - 0 + 1
    BY <2>1, FS_Interval, Zenon
  <2> QED
    BY <2>2, HostDirAssumption DEF Slots
<1>2. \A S \in SUBSET Slots : IsFiniteSet(S)
  BY <1>1, FS_Subset
<1>3. \A S \in SUBSET Clients : IsFiniteSet(S)
  BY HostDirAssumption, FS_Subset
<1> QED
  BY <1>1, <1>2, <1>3, FS_CardinalityType

\* A call that has not begun to create or has ended starts over at number 0;
\* any other step but passing over leaves the number alone.
LEMMA SlotMoves ==
  ASSUME TypeOK, [Next]_vars
  PROVE  \/ \A d \in Clients : slot'[d] = slot[d] \/ slot'[d] = 0
         \/ \E c \in Clients : PassesOver(c)
<1> USE DEF TypeOK, TypeClients
<1>1. ASSUME NEW c \in Clients, ClientStep(c)
      PROVE  \/ \A d \in Clients : slot'[d] = slot[d] \/ slot'[d] = 0
             \/ PassesOver(c)
  <2>1. CASE Create(c)
    BY <2>1 DEF Create, PassesOver, End, FirstSlot
  <2>2. CASE ~Create(c)
    BY <1>1, <2>2 DEF ClientStep, Start, Lock, Read, Return, WriteFails, CancelSeen,
       Rename, RenameFails, SyncDir, Unlink, IoFails, End, FirstSlot, hostVars
  <2> QED
    BY <2>1, <2>2
<1>2. ASSUME NEW gone, Die(gone)
      PROVE  \A d \in Clients : slot'[d] = slot[d] \/ slot'[d] = 0
  BY <1>2 DEF Die, FirstSlot
<1>3. CASE UNCHANGED vars
  BY <1>3 DEF vars
<1> QED
  BY <1>1, <1>2, <1>3 DEF Next, ClientStep, Crash, PowerCut

\* A client writes, renames or removes nobody else's temporary, and a free
\* number is taken; nothing removes an orphan.
LEMMA TempsKept ==
  ASSUME TypeOK, TempsAccounted, HoldsTemp, [Next]_vars
  PROVE  OrphansStay /\ HoldsTemp'
<1>t. /\ temps \in [Processes -> [Slots -> Clients \cup {Free, Orphan}]]
      /\ pc \in [Clients -> Places] /\ slot \in [Clients -> 0 .. MaxTemps]
      /\ ProcessOf \in [Clients -> Processes]
  BY HostDirAssumption DEF TypeOK, TypeDisk, TypeClients, Places
<1> USE HostDirAssumption
<1>1. ASSUME NEW c \in Clients, ClientStep(c)
      PROVE  OrphansStay /\ HoldsTemp'
  <2>1. \A d \in Clients \ {c} : pc'[d] = pc[d] /\ slot'[d] = slot[d]
    BY <1>1, <1>t DEF ClientStep, Start, Lock, Read, Return, Create, WriteFails, CancelSeen,
       Rename, RenameFails, SyncDir, Unlink, IoFails, Goto, End, hostVars
  <2>2. ASSUME UNCHANGED temps, pc'[c] # "rename"
        PROVE  OrphansStay /\ HoldsTemp'
    BY <2>1, <2>2, <1>t DEF OrphansStay, HoldsTemp, Own
  <2>3. ASSUME NEW who \in {Free, Orphan}, SetTemp(c, who), pc[c] = "rename",
               pc'[c] # "rename"
        PROVE  OrphansStay /\ HoldsTemp'
    <3>1. /\ Own(c) \in Processes /\ slot[c] \in Slots
          /\ temps[Own(c)][slot[c]] = c
      BY <2>3, <1>t DEF HoldsTemp, Own
    <3>2. \A p \in Processes, n \in Slots :
            ~(p = Own(c) /\ n = slot[c]) => temps'[p][n] = temps[p][n]
      BY <2>3, <1>t DEF SetTemp
    <3>3. OrphansStay
      BY <3>1, <3>2 DEF OrphansStay
    <3>4. HoldsTemp'
      <4> SUFFICES ASSUME NEW d \in Clients, pc'[d] = "rename"
                   PROVE  slot'[d] \in Slots /\ temps'[Own(d)][slot'[d]] = d
        BY DEF HoldsTemp, Own
      <4>1. d # c /\ pc[d] = "rename" /\ slot'[d] = slot[d]
        BY <2>1, <2>3
      <4>2. slot[d] \in Slots /\ temps[Own(d)][slot[d]] = d /\ Own(d) \in Processes
        BY <4>1, <1>t DEF HoldsTemp, Own
      <4> QED
        BY <3>1, <3>2, <4>1, <4>2
    <3> QED
      BY <3>3, <3>4
  <2>4. CASE Create(c)
    <3>1. CASE UNCHANGED temps /\ pc'[c] # "rename"
      BY <3>1, <2>2
    <3>2. CASE /\ slot[c] \in Slots /\ temps[Own(c)][slot[c]] = Free
               /\ SetTemp(c, c) /\ UNCHANGED slot
      <4>1. \A p \in Processes, n \in Slots :
              IF p = Own(c) /\ n = slot[c] THEN temps'[p][n] = c
              ELSE temps'[p][n] = temps[p][n]
        BY <3>2, <1>t DEF SetTemp
      <4>2. OrphansStay
        BY <3>2, <4>1 DEF OrphansStay
      <4>3. HoldsTemp'
        <5> SUFFICES ASSUME NEW d \in Clients, pc'[d] = "rename"
                     PROVE  slot'[d] \in Slots /\ temps'[Own(d)][slot'[d]] = d
          BY DEF HoldsTemp, Own
        <5>1. Own(d) \in Processes
          BY <1>t DEF Own
        <5>2. CASE d = c
          BY <5>1, <5>2, <4>1, <3>2
        <5>3. CASE d # c
          <6>1. pc[d] = "rename" /\ slot'[d] = slot[d]
            BY <2>1, <5>3
          <6>2. slot[d] \in Slots /\ temps[Own(d)][slot[d]] = d
            BY <6>1 DEF HoldsTemp
          <6> QED
            BY <5>1, <6>1, <6>2, <4>1, <3>2
        <5> QED
          BY <5>2, <5>3
      <4> QED
        BY <4>2, <4>3
    <3> QED
      BY <2>4, <3>1, <3>2, <1>t DEF Create, End, Goto
  <2>5. CASE Start(c) \/ Lock(c) \/ Read(c) \/ Return(c) \/ SyncDir(c) \/ Unlink(c) \/ IoFails(c)
    <3>1. UNCHANGED temps
      BY <2>5 DEF Start, Lock, Read, Return, SyncDir, Unlink, IoFails, hostVars
    <3>2. pc'[c] # "rename"
      BY <2>5, <1>t, RequestFields
         DEF Start, Lock, Read, Return, SyncDir, Unlink, IoFails, FirstStep, AfterRead, Goto, End
    <3> QED
      BY <2>2, <3>1, <3>2
  <2>6. CASE WriteFails(c) \/ (CancelSeen(c) /\ pc[c] = "rename")
    <3>1. pc[c] = "rename" /\ RemoveTemp(c) /\ pc'[c] = "idle"
      BY <2>6, <1>t DEF WriteFails, CancelSeen, End, Goto
    <3> QED
      BY <3>1, <2>3 DEF RemoveTemp
  <2>7. CASE CancelSeen(c) /\ pc[c] # "rename"
    BY <2>7, <2>2, <1>t DEF CancelSeen, End, Goto
  <2>8. CASE Rename(c)
    BY <2>8, <2>3, <1>t DEF Rename, Goto
  <2>9. CASE RenameFails(c)
    BY <2>9, <2>3, <1>t DEF RenameFails, End, Goto
  <2> QED
    BY <1>1, <2>4, <2>5, <2>6, <2>7, <2>8, <2>9 DEF ClientStep
<1>2. ASSUME NEW gone \in SUBSET Clients, Die(gone),
             temps' = [q \in Processes |-> Abandoned(q, gone)]
      PROVE  OrphansStay /\ HoldsTemp'
  <2>1. \A p \in Processes, n \in Slots :
          temps'[p][n] = IF temps[p][n] \in gone THEN Orphan ELSE temps[p][n]
    BY <1>2 DEF Abandoned
  <2>2. OrphansStay
    BY <2>1 DEF OrphansStay
  <2>3. HoldsTemp'
    BY <2>1, <1>2, <1>t DEF Die, HoldsTemp, Own
  <2> QED
    BY <2>2, <2>3
<1>3. CASE UNCHANGED vars
  BY <1>3 DEF vars, OrphansStay, HoldsTemp, Own
<1> QED
  BY <1>1, <1>2, <1>3 DEF Next, ClientStep, Crash, PowerCut

\* Threads that start over, and numbers lost to orphans, make no crowd.
LEMMA CrowdingThins ==
  ASSUME TypeOK, Crowding, OrphansStay, slot' \in [Clients -> 0 .. MaxTemps],
         NEW p \in Processes, NEW j \in 0 .. MaxTemps,
         \A d \in Threads(p) : slot'[d] >= j => slot[d] >= j,
         Beyond(p, j)' # {}
  PROVE  Cardinality(Beyond(p, j)') + Cardinality(Intact(p, j)') <= Cardinality(Threads(p))
<1>1. Beyond(p, j)' \subseteq Beyond(p, j) /\ Beyond(p, j) \subseteq Clients
  BY DEF Beyond, Threads, Own
<1>2. Intact(p, j)' \subseteq Intact(p, j) /\ Intact(p, j) \subseteq Slots
  BY DEF Intact, OrphansStay
<1>3. Cardinality(Beyond(p, j)') <= Cardinality(Beyond(p, j))
  BY <1>1, FinitelyMany, FS_Subset
<1>4. Cardinality(Intact(p, j)') <= Cardinality(Intact(p, j))
  BY <1>2, FinitelyMany, FS_Subset
<1>5. Cardinality(Beyond(p, j)) + Cardinality(Intact(p, j)) <= Cardinality(Threads(p))
  BY <1>1 DEF Crowding
<1>6. /\ Cardinality(Beyond(p, j)) \in Nat /\ Cardinality(Beyond(p, j)') \in Nat
      /\ Cardinality(Intact(p, j)) \in Nat /\ Cardinality(Intact(p, j)') \in Nat
      /\ Cardinality(Threads(p)) \in Nat
  <2>1. Beyond(p, j)' \in SUBSET Clients /\ Intact(p, j)' \in SUBSET Slots
    BY <1>1, <1>2
  <2>2. Threads(p) \in SUBSET Clients
    BY DEF Threads
  <2> QED
    BY <1>1, <1>2, <2>1, <2>2, FinitelyMany
<1> QED
  BY <1>3, <1>4, <1>5, <1>6

\* Passing a number over leaves another thread, or a lost number, behind.
LEMMA CrowdingPasses ==
  ASSUME TypeOK, TempsAccounted, Crowding, NEW c \in Clients, PassesOver(c),
         NEW p \in Processes, p = Own(c), NEW n \in Slots, n = slot[c],
         NEW j, j = n + 1
  PROVE  Cardinality(Beyond(p, j)') + Cardinality(Intact(p, j)') <= Cardinality(Threads(p))
<1>1. /\ n \in 0 .. MaxTemps /\ j \in 0 .. MaxTemps /\ n \in Nat /\ j \in Nat
      /\ slot \in [Clients -> 0 .. MaxTemps] /\ pc[c] = "create"
      /\ temps[p][n] \in Clients \cup {Orphan}
      /\ temps' = temps /\ slot' = [slot EXCEPT ![c] = j]
  <2>1. MaxTemps \in Nat /\ n \in 0 .. MaxTemps - 1
    BY HostDirAssumption DEF Slots
  <2>2. n \in 0 .. MaxTemps /\ j \in 0 .. MaxTemps /\ n \in Nat /\ j \in Nat
    BY <2>1
  <2>3. temps[p][n] \in Clients \cup {Orphan}
    BY DEF PassesOver, TypeOK, TypeDisk
  <2> QED
    BY <2>2, <2>3 DEF PassesOver, TypeOK, TypeClients
<1> DEFINE B == Beyond(p, n)
           I == Intact(p, n)
           B2 == Beyond(p, j)'
           I2 == Intact(p, j)'
<1>2. c \in B /\ B \in SUBSET Clients /\ I \in SUBSET Slots /\ Threads(p) \in SUBSET Clients
  BY <1>1 DEF Beyond, Threads, Intact
<1>3. B2 \subseteq B /\ I2 = IF temps[p][n] = Orphan THEN I ELSE I \cup {n}
  <2>1. B2 = {d \in Threads(p) : slot'[d] >= j}
    BY DEF Beyond, Threads, Own
  <2>2. ASSUME NEW d \in Threads(p), slot'[d] >= j
        PROVE  d \in B
    <3>1. slot[d] \in Nat /\ d \in Clients
      BY <1>1 DEF Threads
    <3> QED
      BY <1>1, <1>2, <2>2, <3>1 DEF Beyond
  <2>3. B2 \subseteq B
    BY <2>1, <2>2
  <2>4. I2 = {m \in Slots : m < j /\ temps[p][m] # Orphan}
    BY <1>1 DEF Intact, Own
  <2>5. \A m \in Slots : m < j <=> m < n \/ m = n
    BY <1>1 DEF Slots
  <2>6. I2 = IF temps[p][n] = Orphan THEN I ELSE I \cup {n}
    BY <1>1, <2>4, <2>5 DEF Intact
  <2> QED
    BY <2>3, <2>6
<1>4. temps[p][n] # Orphan => \E d \in B : d \notin B2
  <2> SUFFICES ASSUME temps[p][n] # Orphan PROVE \E d \in B : d \notin B2
    OBVIOUS
  <2> DEFINE d == temps[p][n]
  <2>1. d \in Clients /\ Own(d) = p /\ slot[d] = n /\ pc[d] = "rename"
    BY <1>1 DEF TempsAccounted
  <2>2. d # c
    BY <1>1, <2>1
  <2>3. slot'[d] = n
    BY <1>1, <2>1, <2>2
  <2>4. d \in B
    BY <1>1, <2>1 DEF Beyond, Threads
  <2>5. ~(n >= j)
    BY <1>1
  <2>6. d \notin B2
    BY <2>3, <2>5 DEF Beyond
  <2> QED
    BY <2>4, <2>6
<1>5. Cardinality(B) + Cardinality(I) <= Cardinality(Threads(p))
  BY <1>1, <1>2 DEF Crowding
<1>6. /\ IsFiniteSet(B) /\ IsFiniteSet(I) /\ Cardinality(B) \in Nat /\ Cardinality(I) \in Nat
      /\ Cardinality(Threads(p)) \in Nat
  BY <1>2, FinitelyMany
<1>7. /\ B2 \in SUBSET B /\ n \notin I
      /\ Cardinality(B2) \in Nat /\ Cardinality(I2) \in Nat
  <2>1. B2 \in SUBSET Clients /\ I2 \in SUBSET Slots
    BY <1>1, <1>2, <1>3
  <2>2. n \notin I
    BY <1>1 DEF Intact
  <2> QED
    BY <1>3, <2>1, <2>2, FinitelyMany
<1>8. Cardinality(B2) + Cardinality(I2) <= Cardinality(Threads(p))
  <2> HIDE DEF B, I, B2, I2
  <2>1. CASE temps[p][n] = Orphan
    <3>1. Cardinality(B2) <= Cardinality(B)
      BY <1>6, <1>7, FS_Subset
    <3> QED
      BY <2>1, <3>1, <1>3, <1>5, <1>6, <1>7
  <2>2. CASE temps[p][n] # Orphan
    <3>1. PICK d \in B : d \notin B2
      BY <2>2, <1>4
    <3>2. IsFiniteSet(B \ {d}) /\ Cardinality(B \ {d}) = Cardinality(B) - 1
      BY <1>6, <3>1, FS_RemoveElement
    <3>3. B2 \in SUBSET (B \ {d})
      BY <1>7, <3>1
    <3>4. Cardinality(B2) <= Cardinality(B \ {d})
      BY <3>2, <3>3, FS_Subset
    <3>5. Cardinality(I2) = Cardinality(I) + 1
      <4>1. Cardinality(I \cup {n}) = IF n \in I THEN Cardinality(I) ELSE Cardinality(I) + 1
        BY <1>6, FS_AddElement, Zenon
      <4> QED
        BY <4>1, <2>2, <1>3, <1>7
    <3> QED
      BY <3>2, <3>4, <3>5, <1>5, <1>6, <1>7
  <2> QED
    BY <2>1, <2>2
<1> QED
  BY <1>8

LEMMA CrowdingStep ==
  ASSUME TypeOK, TypeOK', TempsAccounted, HoldsTemp, Crowding, [Next]_vars
  PROVE  Crowding'
<1>1. /\ slot \in [Clients -> 0 .. MaxTemps] /\ slot' \in [Clients -> 0 .. MaxTemps]
      /\ MaxTemps \in Nat /\ ProcessOf \in [Clients -> Processes]
  BY HostDirAssumption DEF TypeOK, TypeClients
<1>2. OrphansStay
  BY TempsKept
<1> SUFFICES ASSUME NEW p \in Processes, NEW j \in 0 .. MaxTemps, Beyond(p, j)' # {}
             PROVE  Cardinality(Beyond(p, j)') + Cardinality(Intact(p, j)')
                      <= Cardinality(Threads(p))
  BY DEF Crowding, Threads, Own
<1>3. CASE \A d \in Threads(p) : slot'[d] >= j => slot[d] >= j
  BY <1>1, <1>2, <1>3, CrowdingThins
<1>4. ASSUME NEW d \in Threads(p), slot'[d] >= j, ~(slot[d] >= j)
      PROVE  Cardinality(Beyond(p, j)') + Cardinality(Intact(p, j)')
               <= Cardinality(Threads(p))
  <2>1. /\ d \in Clients /\ Own(d) = p /\ slot[d] \in Nat /\ slot'[d] \in Nat /\ j \in Nat
        /\ slot[d] < j
    BY <1>1, <1>4 DEF Threads
  <2>2. slot'[d] # slot[d] /\ slot'[d] # 0
    BY <1>4, <2>1
  <2>3. PICK c \in Clients : PassesOver(c)
    BY <2>1, <2>2, SlotMoves
  <2>4. d = c /\ slot'[c] = slot[c] + 1
    BY <1>1, <2>1, <2>2, <2>3 DEF PassesOver
  <2>5. j = slot[c] + 1 /\ slot[c] \in Slots /\ Own(c) = p
    BY <1>4, <2>1, <2>3, <2>4 DEF PassesOver
  <2> QED
    BY <2>3, <2>5, CrowdingPasses
<1> QED
  BY <1>3, <1>4

\* The call that runs out of numbers has seen them all taken.
LEMMA ExhaustionStep ==
  ASSUME TypeOK, TypeOK', TempsAccounted, HoldsTemp, Crowding, ExhaustionNeedsLeaks, [Next]_vars
  PROVE  ExhaustionNeedsLeaks'
<1> DEFINE Lost(p) == {n \in Slots : temps[p][n] = Orphan}
           Others(c) == {d \in Clients \ {c} : Own(d) = Own(c)}
<1>0. ProcessOf \in [Clients -> Processes]
  BY HostDirAssumption
<1> SUFFICES ASSUME NEW c \in Clients, ans'[c] = "exhausted"
             PROVE  Cardinality(Lost(Own(c))') + Cardinality(Others(c)) >= MaxTemps
  BY DEF ExhaustionNeedsLeaks, Own
<1> DEFINE p == Own(c)
<1>1. p \in Processes
  BY <1>0 DEF Own
<1>2. /\ MaxTemps \in Nat /\ Cardinality(Lost(p)) \in Nat /\ Cardinality(Lost(p)') \in Nat
      /\ Cardinality(Others(c)) \in Nat
  BY HostDirAssumption, FinitelyMany
<1>3. Cardinality(Lost(p)) <= Cardinality(Lost(p)')
  <2>1. Lost(p) \subseteq Lost(p)'
    BY <1>1, TempsKept DEF OrphansStay, Own
  <2> QED
    BY <2>1, FinitelyMany, FS_Subset
<1>4. CASE ans[c] = "exhausted"
  <2>1. Cardinality(Lost(p)) + Cardinality(Others(c)) >= MaxTemps
    BY <1>4 DEF ExhaustionNeedsLeaks
  <2> HIDE DEF Lost, Others, p
  <2> QED
    BY <2>1, <1>2, <1>3 DEF p
<1>5. CASE ans[c] # "exhausted"
  <2>1. slot[c] = MaxTemps
    <3>1. pc \in [Clients -> Places] /\ slot \in [Clients -> 0 .. MaxTemps]
          /\ ans \in [Clients -> Answers]
      BY DEF TypeOK, TypeClients, Places, Answers
    <3>2. ASSUME NEW d \in Clients, ClientStep(d)
          PROVE  Create(d) /\ d = c /\ slot[c] \notin Slots
      BY <3>1, <3>2, <1>5
         DEF ClientStep, Start, Lock, Read, Return, Create, WriteFails, CancelSeen, Rename,
             RenameFails, SyncDir, Unlink, IoFails, End, hostVars
    <3>3. ~(\E gone \in SUBSET Clients : Die(gone))
      BY <3>1, <1>5 DEF Die
    <3>4. ans' # ans
      BY <1>5
    <3>5. slot[c] \notin Slots
      BY <3>2, <3>3, <3>4 DEF Next, ClientStep, Crash, PowerCut, vars
    <3> QED
      BY <3>1, <3>5, HostDirAssumption DEF Slots
  <2> DEFINE B == Beyond(p, MaxTemps)
             I == Intact(p, MaxTemps)
             T == Threads(p)
  <2>2. c \in B /\ c \in T /\ T \in SUBSET Clients /\ B \in SUBSET Clients /\ I \in SUBSET Slots
    BY <2>1, <1>2 DEF Beyond, Threads, Intact
  <2>3. Cardinality(B) + Cardinality(I) <= Cardinality(T)
    <3>1. MaxTemps \in 0 .. MaxTemps
      BY <1>2
    <3> QED
      BY <1>1, <2>2, <3>1 DEF Crowding
  <2>4. Others(c) = T \ {c}
    BY DEF Threads
  <2>5. Cardinality(Others(c)) = Cardinality(T) - 1
    BY <2>2, <2>4, FinitelyMany, FS_RemoveElement
  <2>6. Cardinality(B) >= 1
    <3>1. Cardinality(B) # 0
      BY <2>2, FinitelyMany, FS_EmptySet
    <3>2. Cardinality(B) \in Nat
      BY <2>2, FinitelyMany
    <3> QED
      BY <3>1, <3>2
  <2>7. Cardinality(Lost(p)) + Cardinality(I) = MaxTemps
    <3>1. Slots = Lost(p) \cup I /\ Lost(p) \cap I = {}
      BY <1>2 DEF Intact, Slots
    <3>2. IsFiniteSet(Lost(p)) /\ IsFiniteSet(I)
      BY <2>2, FinitelyMany
    <3> HIDE DEF Lost, I, p
    <3>3. Cardinality(Lost(p) \cup I)
            = Cardinality(Lost(p)) + Cardinality(I) - Cardinality(Lost(p) \cap I)
      BY <3>2, FS_Union
    <3>4. Cardinality(Lost(p) \cap I) = 0
      BY <3>1, FS_EmptySet
    <3>5. Cardinality(I) \in Nat
      BY <2>2, FinitelyMany
    <3> QED
      BY <3>1, <3>3, <3>4, <3>5, <1>2, FinitelyMany DEF p
  <2>8. Cardinality(B) \in Nat /\ Cardinality(I) \in Nat /\ Cardinality(T) \in Nat
    BY <2>2, FinitelyMany
  <2> HIDE DEF Lost, Others, p, B, I, T
  <2> QED
    BY <1>2, <1>3, <2>3, <2>5, <2>6, <2>7, <2>8 DEF p
<1> QED
  BY <1>4, <1>5

\* Only a commit commits, and it is the last thing a call does to its leaf.
LEMMA CommitsLast ==
  ASSUME TypeOK, Uncommitted, Unanswered, RefusalChangesNothing, [Next]_vars
  PROVE  Uncommitted' /\ Unanswered' /\ RefusalChangesNothing'
<1>t. /\ pc \in [Clients -> Places] /\ ans \in [Clients -> Answers]
      /\ over \in [Clients -> Contents \cup {Torn}] /\ op \in [Clients -> Requests]
  BY DEF TypeOK, TypeClients, Places, Answers
<1> USE DEF Uncommitted, Unanswered, RefusalChangesNothing, Committed
<1>1. ASSUME NEW c \in Clients, ClientStep(c)
      PROVE  Uncommitted' /\ Unanswered' /\ RefusalChangesNothing'
  <2>1. \A d \in Clients \ {c} : pc'[d] = pc[d] /\ ans'[d] = ans[d] /\ over'[d] = over[d]
    BY <1>1, <1>t DEF ClientStep, Start, Lock, Read, Return, Create, WriteFails, CancelSeen,
       Rename, RenameFails, SyncDir, Unlink, IoFails, Goto, End, Commit, hostVars
  <2>2. SUFFICES /\ pc'[c] \in {"lock", "read", "create", "rename", "unlink"} => over'[c] = Torn
                 /\ pc'[c] # "idle" => ans'[c] = "none"
                 /\ ans'[c] \in {"cancelled", "exhausted"} => over'[c] = Torn
    BY <2>1
  <2>3. CASE Start(c)
    BY <2>3, <1>t DEF Start, Goto
  <2>4. CASE Lock(c) \/ Read(c) \/ Create(c)
    BY <2>4, <1>t DEF Lock, Read, Create, AfterRead, Goto, End
  <2>5. CASE Return(c) \/ WriteFails(c) \/ RenameFails(c) \/ IoFails(c)
    BY <2>5, <1>t DEF Return, WriteFails, RenameFails, IoFails, Goto, End
  <2>6. CASE CancelSeen(c)
    BY <2>6, <1>t DEF CancelSeen, CancelPoint, Goto, End
  <2>7. CASE Rename(c) \/ SyncDir(c)
    <3>1. ans'[c] = ans[c] /\ pc'[c] \in {"sync", "return"}
      BY <2>7, <1>t DEF Rename, SyncDir, Goto
    <3>2. ans[c] = "none"
      BY <2>7 DEF Rename, SyncDir
    <3> QED
      BY <3>1, <3>2
  <2>8. CASE Unlink(c)
    BY <2>8, <1>t DEF Unlink, Commit, Goto, End
  <2> QED
    BY <1>1, <2>3, <2>4, <2>5, <2>6, <2>7, <2>8 DEF ClientStep
<1>2. ASSUME NEW gone \in SUBSET Clients, Die(gone)
      PROVE  Uncommitted' /\ Unanswered' /\ RefusalChangesNothing'
  BY <1>2 DEF Die
<1>3. CASE UNCHANGED vars
  BY <1>3 DEF vars
<1> QED
  BY <1>1, <1>2, <1>3 DEF Next, ClientStep, Crash, PowerCut

\* The invariant behind the two refusals.
LEMMA RefusalInvariant == Spec => []RefusalInv
<1>1. Init => RefusalInv
  <2> SUFFICES ASSUME Init PROVE RefusalInv
    OBVIOUS
  <2>1. IInv
    BY InitIInv
  <2>2. Uncommitted /\ Unanswered /\ HoldsTemp /\ RefusalChangesNothing /\ ExhaustionNeedsLeaks
    BY DEF Init, Uncommitted, Unanswered, HoldsTemp, RefusalChangesNothing, Committed,
           ExhaustionNeedsLeaks
  <2>3. Crowding
    <3> SUFFICES ASSUME NEW p \in Processes, NEW j \in 0 .. MaxTemps, Beyond(p, j) # {}
                 PROVE  Cardinality(Beyond(p, j)) + Cardinality(Intact(p, j))
                          <= Cardinality(Threads(p))
      BY DEF Crowding
    <3>1. MaxTemps \in Nat /\ j \in Nat
      BY HostDirAssumption
    <3>2. \A c \in Clients : slot[c] = 0
      BY DEF Init, FirstSlot
    <3>3. j = 0
      BY <3>1, <3>2 DEF Beyond, Threads
    <3>4. Beyond(p, j) = Threads(p) /\ Intact(p, j) = {}
      BY <3>1, <3>2, <3>3 DEF Beyond, Threads, Intact, Slots
    <3>5. Cardinality(Threads(p)) \in Nat
      <4>1. Threads(p) \in SUBSET Clients
        BY DEF Threads
      <4> QED
        BY <4>1, FinitelyMany
    <3>6. Cardinality(Intact(p, j)) = 0
      BY <3>4, FS_EmptySet
    <3> QED
      BY <3>4, <3>5, <3>6
  <2> QED
    BY <2>1, <2>2, <2>3 DEF RefusalInv
<1>2. RefusalInv /\ [Next]_vars => RefusalInv'
  <2> SUFFICES ASSUME RefusalInv, [Next]_vars PROVE RefusalInv'
    OBVIOUS
  <2> USE DEF RefusalInv, IInv
  <2>1. IInv'
    BY TypeStep, TempsStep, LocksStep, ExchangersStep
  <2>2. HoldsTemp'
    BY TempsKept
  <2>3. Crowding' /\ ExhaustionNeedsLeaks'
    BY <2>1, CrowdingStep, ExhaustionStep
  <2>4. Uncommitted' /\ Unanswered' /\ RefusalChangesNothing'
    BY CommitsLast
  <2> QED
    BY <2>1, <2>2, <2>3, <2>4
<1> QED
  BY <1>1, <1>2, PTL DEF Spec

\* `replace` answers "temporary namespace exhausted" only when orphans and the
\* other threads of the process can together hold every number, however their
\* calls interleave with its search.
THEOREM ExhaustionIsLeakage == Spec => []ExhaustionNeedsLeaks
BY RefusalInvariant, PTL DEF RefusalInv

\* A call that answers Cancelled or exhausted has not touched its leaf.
THEOREM RefusalsChangeNothing == Spec => []RefusalChangesNothing
BY RefusalInvariant, PTL DEF RefusalInv

-----------------------------------------------------------------------------
(* Clients that use compare_exchange only.                                 *)

OnlyExchanges == Kinds = {"cas"}

\* What a compare-exchange knows at each point, of its leaf as well.
Progress(c) ==
  /\ pc[c] \in {"lock", "read", "create", "rename", "unlink"} => over[c] = Torn
  /\ pc[c] \in {"create", "rename", "unlink"} =>
       seen[c] = op[c].expected /\ disk[Leaf(c)] = seen[c]
  /\ pc[c] = "unlink" => op[c].new = Absent /\ seen[c] # Absent
  /\ pc[c] = "sync" =>
       over[c] = seen[c] /\ seen[c] = op[c].expected /\ disk[Leaf(c)] = op[c].new
  /\ pc[c] = "return" /\ over[c] = Torn /\ seen[c] = op[c].expected =>
       op[c].new = seen[c]
  /\ pc[c] = "return" /\ over[c] # Torn =>
       /\ over[c] = seen[c] /\ seen[c] = op[c].expected
       /\ disk[Leaf(c)] = op[c].new /\ media[Leaf(c)] = {op[c].new}
  /\ pc[c] = "idle" /\ ans[c] = "ok" =>
       seen[c] = op[c].expected /\ (over[c] # Torn => over[c] = seen[c])
  /\ pc[c] = "idle" /\ ans[c] = "refused" => seen[c] # op[c].expected
  /\ pc[c] # "idle" => ans[c] = "none"

\* An acknowledged exchange is still there, and nothing else can come back.
ToldIsThere == \A l \in Leaves : told[l] # Torn => disk[l] = told[l] /\ media[l] = {told[l]}

CasInv == IInv /\ (\A c \in Clients : Progress(c)) /\ ToldIsThere

\* Every request is a compare-exchange of two contents of some leaf.
LEMMA CasRequest ==
  ASSUME OnlyExchanges, TypeOK, NEW c \in Clients
  PROVE  /\ op[c] \in Requests /\ op[c].kind = "cas"
         /\ Leaf(c) \in Leaves /\ op[c].new \in Contents
         /\ op[c].expected \in Contents /\ disk[Leaf(c)] \in Contents
         /\ seen[c] \in Contents /\ Torn \notin Contents
BY RequestFields, HostDirAssumption
   DEF OnlyExchanges, TypeOK, TypeDisk, TypeClients, Leaf, Contents

\* A step of c leaves the other clients' variables alone.
LEMMA OthersFrame ==
  ASSUME TypeOK, NEW c \in Clients, ClientStep(c), NEW d \in Clients, d # c
  PROVE  /\ pc'[d] = pc[d] /\ op'[d] = op[d] /\ seen'[d] = seen[d]
         /\ over'[d] = over[d] /\ ans'[d] = ans[d]
BY DEF TypeOK, TypeClients, ClientStep, Start, Lock, Read, Return, Create, WriteFails,
   CancelSeen, Rename, RenameFails, SyncDir, Unlink, IoFails, Goto, End, Commit, hostVars

\* A step of c changes a leaf only under its lock; synchronizing may settle
\* any leaf on what it holds.
LEMMA LeafFrame ==
  ASSUME OnlyExchanges, CasInv, NEW c \in Clients, ClientStep(c),
         NEW l \in Leaves, lock[l] # c
  PROVE  /\ disk'[l] = disk[l] /\ told'[l] = told[l]
         /\ media'[l] = media[l] \/ media'[l] = {disk[l]}
<1> USE CasRequest DEF CasInv, IInv, TypeOK, TypeDisk, TypeHistory
<1>1. ASSUME NEW v, Commit(c, v), lock[Leaf(c)] = c
      PROVE  disk'[l] = disk[l] /\ told'[l] = told[l] /\ media'[l] = media[l]
  BY <1>1 DEF Commit
<1>2. pc[c] \in {"rename", "unlink", "return"} => lock[Leaf(c)] = c
  BY DEF WorkersHoldLocks
<1>3. CASE Rename(c)
  BY <1>3, <1>1, <1>2 DEF Rename
<1>4. CASE Unlink(c)
  BY <1>4, <1>1, <1>2 DEF Unlink
<1>5. CASE SyncDir(c)
  BY <1>5 DEF SyncDir, Synced
<1>6. CASE Return(c)
  BY <1>6, <1>2 DEF Return
<1> QED
  BY <1>3, <1>4, <1>5, <1>6 DEF ClientStep, Start, Lock, Read, Create, WriteFails,
     CancelSeen, RenameFails, IoFails, hostVars

\* What the others know survives a step of c.
LEMMA OthersProgress ==
  ASSUME OnlyExchanges, CasInv, NEW c \in Clients, ClientStep(c),
         NEW d \in Clients, d # c
  PROVE  Progress(d)'
<1>1. CASE pc[d] \in {"idle", "lock"}
  BY <1>1, OthersFrame DEF Progress, CasInv, IInv
<1>2. CASE pc[d] \notin {"idle", "lock"}
  <2>1. lock[Leaf(d)] = d
    BY <1>2, CasRequest DEF CasInv, IInv, WorkersHoldLocks
  <2>2. /\ disk'[Leaf(d)] = disk[Leaf(d)]
        /\ media'[Leaf(d)] = media[Leaf(d)] \/ media'[Leaf(d)] = {disk[Leaf(d)]}
    BY <2>1, LeafFrame, CasRequest DEF CasInv, IInv
  <2>3. Leaf(d)' = Leaf(d)
    BY OthersFrame DEF Leaf, CasInv, IInv
  <2>4. /\ pc'[d] = pc[d] /\ op'[d] = op[d] /\ seen'[d] = seen[d]
        /\ over'[d] = over[d] /\ ans'[d] = ans[d]
    BY OthersFrame DEF CasInv, IInv
  <2>5. Progress(d)
    BY DEF CasInv
  <2> QED
    BY <2>2, <2>3, <2>4, <2>5 DEF Progress
<1> QED
  BY <1>1, <1>2

\* What c knows after its own step.
LEMMA OwnProgress ==
  ASSUME OnlyExchanges, CasInv, NEW c \in Clients, ClientStep(c)
  PROVE  Progress(c)'
<1> USE CasRequest DEF CasInv, IInv
<1>0. Progress(c)
  OBVIOUS
<1>t. /\ pc \in [Clients -> Places] /\ ans \in [Clients -> Answers]
      /\ seen \in [Clients -> Contents] /\ over \in [Clients -> Contents \cup {Torn}]
      /\ disk \in [Leaves -> Contents] /\ media \in [Leaves -> SUBSET Contents]
      /\ op \in [Clients -> Requests]
  BY DEF TypeOK, TypeDisk, TypeClients, Places, Answers
<1>1. CASE Start(c)
  <2>1. PICK o \in Requests : op' = [op EXCEPT ![c] = o] /\ Goto(c, FirstStep(o))
    BY <1>1 DEF Start
  <2>2. FirstStep(o) = "lock"
    BY RequestFields DEF FirstStep, OnlyExchanges
  <2> QED
    BY <1>1, <1>t, <2>1, <2>2 DEF Start, Goto, Progress
<1>2. ASSUME NEW a \in Answers \ {"ok", "refused"}, End(c, a), op' = op, seen' = seen,
             over' = over
      PROVE  Progress(c)'
  BY <1>2, <1>t DEF End, Goto, Progress, Answers
<1>3. CASE Lock(c)
  BY <1>3, <1>0, <1>t DEF Lock, Goto, Progress, Leaf
<1>4. CASE Read(c)
  <2>1. /\ pc'[c] = AfterRead(op[c], disk[Leaf(c)]) /\ seen'[c] = disk[Leaf(c)]
        /\ over'[c] = Torn /\ op'[c] = op[c] /\ disk' = disk /\ ans'[c] = "none"
    BY <1>4, <1>0, <1>t DEF Read, Goto, Progress, hostVars
  <2> QED
    BY <2>1 DEF Progress, AfterRead, Leaf
<1>5. CASE Return(c)
  <2>1. /\ pc'[c] = "idle" /\ op'[c] = op[c] /\ seen'[c] = seen[c] /\ over'[c] = over[c]
        /\ ans'[c] = (IF Exchanged(c) THEN "ok" ELSE "refused")
    BY <1>5, <1>t DEF Return, End, Goto
  <2> QED
    BY <1>5, <1>0, <2>1 DEF Return, Progress, Exchanged
<1>6. CASE Create(c)
  <2>1. CASE End(c, "exhausted")
    BY <1>6, <2>1, <1>2 DEF Create, Answers
  <2>2. CASE ~End(c, "exhausted")
    <3>1. /\ pc'[c] \in {"create", "rename"} /\ disk' = disk /\ op' = op /\ ans' = ans
          /\ seen' = seen /\ over' = over
      BY <1>6, <2>2, <1>t DEF Create, Goto
    <3> QED
      BY <1>6, <3>1, <1>0 DEF Create, Progress, Leaf
  <2> QED
    BY <2>1, <2>2
<1>7. CASE WriteFails(c) \/ CancelSeen(c) \/ RenameFails(c) \/ IoFails(c)
  BY <1>7, <1>2 DEF WriteFails, CancelSeen, RenameFails, IoFails, Answers
<1>8. CASE Rename(c)
  <2>1. /\ pc'[c] = "sync" /\ over'[c] = disk[Leaf(c)] /\ disk'[Leaf(c)] = op[c].new
        /\ op' = op /\ seen' = seen /\ ans' = ans
    BY <1>8, <1>t DEF Rename, Commit, Goto
  <2> QED
    BY <1>8, <1>0, <2>1 DEF Rename, Progress, Leaf
<1>9. CASE SyncDir(c)
  <2>1. /\ pc'[c] = "return" /\ media'[Leaf(c)] = {disk[Leaf(c)]} /\ disk' = disk
        /\ op' = op /\ seen' = seen /\ over' = over /\ ans' = ans
    BY <1>9, <1>t DEF SyncDir, Synced, Goto
  <2> QED
    BY <1>9, <1>0, <2>1 DEF SyncDir, Progress, Leaf
<1>10. CASE Unlink(c)
  <2>1. CASE End(c, "failed") /\ over' = over
    BY <1>10, <2>1, <1>2 DEF Unlink, Answers
  <2>2. CASE Commit(c, Absent) /\ Goto(c, IF op[c].kind = "cas" THEN "sync" ELSE "return")
             /\ ans' = ans
    <3>1. /\ pc'[c] = "sync" /\ over'[c] = disk[Leaf(c)] /\ disk'[Leaf(c)] = Absent
          /\ op' = op /\ seen' = seen /\ ans' = ans
      BY <1>10, <2>2, <1>t DEF Unlink, Commit, Goto
    <3> QED
      BY <1>10, <1>0, <3>1 DEF Unlink, Progress, Leaf
  <2> QED
    BY <1>10, <2>1, <2>2 DEF Unlink
<1> QED
  BY <1>1, <1>3, <1>4, <1>5, <1>6, <1>7, <1>8, <1>9, <1>10 DEF ClientStep

\* What was acknowledged stays there until the next commit of its leaf.
LEMMA ToldStep ==
  ASSUME OnlyExchanges, CasInv, NEW c \in Clients, ClientStep(c)
  PROVE  ToldIsThere'
<1> SUFFICES ASSUME NEW l \in Leaves, told'[l] # Torn
             PROVE  disk'[l] = told'[l] /\ media'[l] = {told'[l]}
  BY DEF ToldIsThere
<1> USE CasRequest DEF CasInv, IInv
<1>1. CASE lock[l] # c
  BY <1>1, LeafFrame DEF ToldIsThere
<1>2. CASE lock[l] = c
  <2>1. l = Leaf(c)
    BY <1>2, HostDirAssumption DEF LocksHeldByWorkers
  <2>2. CASE Rename(c)
    BY <2>1, <2>2 DEF Rename, Commit, TypeOK, TypeHistory
  <2>3. CASE Unlink(c)
    <3>1. CASE Commit(c, Absent)
      BY <2>1, <3>1 DEF Commit, TypeOK, TypeHistory
    <3>2. CASE UNCHANGED <<disk, media, over, told>>
      BY <3>2 DEF ToldIsThere
    <3> QED
      BY <2>3, <3>1, <3>2 DEF Unlink
  <2>4. CASE SyncDir(c)
    BY <2>4 DEF SyncDir, Synced, ToldIsThere
  <2>5. CASE Return(c)
    <3>1. CASE over[c] # Torn
      <4>1. told'[l] = op[c].new
        BY <2>1, <2>5, <3>1 DEF Return, Committed, TypeOK, TypeHistory
      <4> QED
        BY <2>1, <2>5, <3>1, <4>1 DEF Return, Progress
    <3>2. CASE over[c] = Torn
      BY <2>5, <3>2 DEF Return, Committed, ToldIsThere
    <3> QED
      BY <3>1, <3>2
  <2> QED
    BY <2>2, <2>3, <2>4, <2>5 DEF ClientStep, Start, Lock, Read, Create, WriteFails,
       CancelSeen, RenameFails, IoFails, hostVars, ToldIsThere
<1> QED
  BY <1>1, <1>2

\* A death forgets what its clients knew.
LEMMA DeathKeepsCasInv ==
  ASSUME CasInv, NEW gone \in SUBSET Clients, Die(gone), UNCHANGED <<disk, media>>
  PROVE  (\A c \in Clients : Progress(c)') /\ ToldIsThere'
<1>1. ASSUME NEW c \in Clients PROVE Progress(c)'
  <2>1. CASE c \in gone
    BY <2>1 DEF Die, Progress
  <2>2. CASE c \notin gone
    <3>1. /\ pc'[c] = pc[c] /\ op' = op /\ seen' = seen /\ over' = over
          /\ ans'[c] = ans[c] /\ disk' = disk /\ media' = media
      BY <2>2 DEF Die
    <3> QED
      BY <3>1 DEF CasInv, Progress, Leaf
  <2> QED
    BY <2>1, <2>2
<1>2. ToldIsThere'
  BY DEF Die, CasInv, ToldIsThere
<1> QED
  BY <1>1, <1>2

\* A power cut leaves what was told: nothing else was left to come back.
LEMMA PowerCutKeepsCasInv ==
  ASSUME CasInv, PowerCut
  PROVE  (\A c \in Clients : Progress(c)') /\ ToldIsThere'
<1>1. Die(Clients)
  BY DEF PowerCut
<1>2. \A c \in Clients : Progress(c)'
  BY <1>1 DEF Die, Progress
<1>3. ASSUME NEW l \in Leaves, told'[l] # Torn
      PROVE  disk'[l] = told'[l] /\ media'[l] = {told'[l]}
  <2>1. told' = told
    BY <1>1 DEF Die
  <2>2. disk'[l] \in media[l] /\ media'[l] = {disk'[l]}
    BY DEF PowerCut
  <2> QED
    BY <1>3, <2>1, <2>2 DEF CasInv, ToldIsThere
<1> QED
  BY <1>2, <1>3 DEF ToldIsThere

\* For exchanging clients the whole invariant holds of every behaviour.
THEOREM ExchangeInvariant ==
  ASSUME OnlyExchanges PROVE Spec => []CasInv
<1>1. Init => CasInv
  BY InitIInv DEF Init, CasInv, Progress, ToldIsThere
<1>2. CasInv /\ [Next]_vars => CasInv'
  <2> SUFFICES ASSUME CasInv, [Next]_vars PROVE CasInv'
    OBVIOUS
  <2>1. IInv'
    BY TypeStep, TempsStep, LocksStep, ExchangersStep DEF CasInv, IInv
  <2>2. ASSUME NEW c \in Clients, ClientStep(c)
        PROVE  (\A d \in Clients : Progress(d)') /\ ToldIsThere'
    BY <2>2, OwnProgress, OthersProgress, ToldStep
  <2>3. ASSUME NEW p \in Processes, Crash(p)
        PROVE  (\A d \in Clients : Progress(d)') /\ ToldIsThere'
    <3>1. PICK gone \in SUBSET Clients : Die(gone) /\ UNCHANGED <<disk, media>>
      BY <2>3 DEF Crash
    <3> QED
      BY <3>1, DeathKeepsCasInv
  <2>4. CASE PowerCut
    BY <2>1, <2>4, PowerCutKeepsCasInv DEF CasInv
  <2>5. CASE UNCHANGED vars
    <3>1. \A d \in Clients : Progress(d)'
      BY <2>5 DEF vars, CasInv, Progress, Leaf
    <3>2. ToldIsThere'
      BY <2>5 DEF vars, CasInv, ToldIsThere
    <3> QED
      BY <2>1, <3>1, <3>2 DEF CasInv
  <2> QED
    BY <2>1, <2>2, <2>3, <2>4, <2>5 DEF Next, ClientStep, CasInv
<1> QED
  BY <1>1, <1>2, PTL DEF Spec

\* An acknowledged exchange survives a power cut: `compare_exchange` returns
\* after the directory holding its commit was synchronized, still locked.
THEOREM AcknowledgedExchangesSurvive ==
  ASSUME OnlyExchanges PROVE Spec => []AckedExchangeSurvives
<1>1. CasInv => AckedExchangeSurvives
  BY DEF CasInv, ToldIsThere, AckedExchangeSurvives
<1> QED
  BY <1>1, ExchangeInvariant, PTL

\* A compare-exchange that reports an exchange replaced what it observed: no
\* other exchange came between its read and its rename (`compare_exchange`).
THEOREM ExchangesReplaceObserved ==
  ASSUME OnlyExchanges PROVE Spec => []ExchangeReplacesObserved
<1>1. CasInv => ExchangeReplacesObserved
  <2> SUFFICES ASSUME CasInv, NEW c \in Clients, ans[c] = "ok", Committed(c)
               PROVE  over[c] = seen[c]
    BY DEF ExchangeReplacesObserved
  <2> QED
    BY DEF CasInv, Progress, Committed
<1> QED
  BY <1>1, ExchangeInvariant, PTL

-----------------------------------------------------------------------------
(* The exchanging directory implements AtomicLeaves.                       *)

\* The abstract state of a client as the detailed one shows it.
LEMMA SameImage ==
  ASSUME NEW c \in Clients, pc'[c] = pc[c], op'[c] = op[c], seen'[c] = seen[c],
         over'[c] = over[c], ans'[c] = ans[c]
  PROVE  /\ CallOf(c)' = CallOf(c) /\ EffectOf(c)' = EffectOf(c)
         /\ MetOf(c)' = MetOf(c) /\ ReplyOf(c)' = ReplyOf(c)
BY DEF CallOf, EffectOf, MetOf, ReplyOf, Committed, Exchanged

\* In the image of a step of c the other clients' entries are unchanged.
LEMMA OthersImage ==
  ASSUME CasInv, NEW c \in Clients, ClientStep(c), NEW d \in Clients, d # c
  PROVE  /\ CallOf(d)' = CallOf(d) /\ EffectOf(d)' = EffectOf(d)
         /\ MetOf(d)' = MetOf(d) /\ ReplyOf(d)' = ReplyOf(d)
<1>1. /\ pc'[d] = pc[d] /\ op'[d] = op[d] /\ seen'[d] = seen[d]
      /\ over'[d] = over[d] /\ ans'[d] = ans[d]
  BY OthersFrame DEF CasInv, IInv
<1> QED
  BY <1>1, SameImage

\* The image of a step of c is the old image, but for c's entries.
LEMMA ImageOfStep ==
  ASSUME CasInv, NEW c \in Clients, ClientStep(c)
  PROVE  /\ [d \in Clients |-> CallOf(d)]' = [[d \in Clients |-> CallOf(d)] EXCEPT ![c] = CallOf(c)']
         /\ [d \in Clients |-> EffectOf(d)]' = [[d \in Clients |-> EffectOf(d)] EXCEPT ![c] = EffectOf(c)']
         /\ [d \in Clients |-> MetOf(d)]' = [[d \in Clients |-> MetOf(d)] EXCEPT ![c] = MetOf(c)']
         /\ [d \in Clients |-> ReplyOf(d)]' = [[d \in Clients |-> ReplyOf(d)] EXCEPT ![c] = ReplyOf(c)']
BY OthersImage

\* What does not change for c does not change at all.
LEMMA StillImage ==
  ASSUME CasInv, NEW c \in Clients, ClientStep(c), CallOf(c)' = CallOf(c), ReplyOf(c)' = ReplyOf(c)
  PROVE  /\ [d \in Clients |-> CallOf(d)]' = [d \in Clients |-> CallOf(d)]
         /\ [d \in Clients |-> ReplyOf(d)]' = [d \in Clients |-> ReplyOf(d)]
BY OthersImage

\* Before its commit a running call is pending; what it is shown as.
LEMMA PendingImage ==
  ASSUME OnlyExchanges, CasInv, NEW c \in Clients,
         pc[c] \in {"lock", "read", "create", "rename", "unlink"}
  PROVE  /\ CallOf(c) = op[c] /\ op[c] # Nobody /\ EffectOf(c) = "pending"
         /\ MetOf(c) = Absent /\ ReplyOf(c) = "none"
<1>1. over[c] = Torn /\ ans[c] = "none" /\ op[c] \in Requests
  BY CasRequest DEF CasInv, IInv, Progress
<1> QED
  BY <1>1, NobodyIsNoRequest DEF CallOf, EffectOf, MetOf, ReplyOf, Committed

\* Steps that only move the call: nothing abstract changes.
LEMMA QuietImage ==
  ASSUME OnlyExchanges, CasInv, NEW c \in Clients, ClientStep(c),
         pc[c] \in {"lock", "read", "create", "rename", "unlink"},
         pc'[c] \in {"lock", "read", "create", "rename", "unlink"},
         op' = op, over' = over, ans' = ans, disk' = disk
  PROVE  UNCHANGED Atomic!vars
<1>1. over[c] = Torn /\ ans[c] = "none"
  BY DEF CasInv, Progress
<1>2. /\ CallOf(c)' = CallOf(c) /\ EffectOf(c)' = EffectOf(c)
      /\ MetOf(c)' = MetOf(c) /\ ReplyOf(c)' = ReplyOf(c)
  BY <1>1 DEF CallOf, EffectOf, MetOf, ReplyOf, Committed
<1> QED
  BY <1>2, ImageOfStep DEF Atomic!vars

\* A call that ends in an error is an abstract return of an error.
LEMMA ErrorImage ==
  ASSUME OnlyExchanges, CasInv, NEW c \in Clients, ClientStep(c),
         pc[c] # "idle", NEW a \in {"failed", "cancelled", "exhausted"}, End(c, a),
         op' = op, over' = over, disk' = disk
  PROVE  Atomic!Return(c)
<1>1. pc'[c] = "idle" /\ ans'[c] = a
  BY DEF End, Goto, CasInv, IInv, TypeOK, TypeClients
<1>2. /\ CallOf(c)' = Nobody /\ EffectOf(c)' = "pending"
      /\ MetOf(c)' = Absent /\ ReplyOf(c)' = "error"
  BY <1>1 DEF CallOf, EffectOf, MetOf, ReplyOf
<1>3. CallOf(c) # Nobody
  BY CasRequest, NobodyIsNoRequest DEF CallOf, CasInv, IInv
<1> QED
  BY <1>2, <1>3, ImageOfStep DEF Atomic!Return, Atomic!Forget

\* A pending call whose image becomes applied, with the leaf set to its new
\* content, has taken effect on what it met.
LEMMA AppliedImage ==
  ASSUME OnlyExchanges, CasInv, NEW c \in Clients, ClientStep(c),
         pc[c] \in {"read", "rename", "unlink"}, op' = op, ans' = ans,
         pc'[c] \in {"sync", "return"}, seen'[c] = disk[Leaf(c)],
         disk[Leaf(c)] = op[c].expected, pc'[c] = "sync" => over'[c] # Torn,
         disk' = [disk EXCEPT ![Leaf(c)] = op[c].new]
  PROVE  Atomic!TakeEffect(c)
<1>1. /\ CallOf(c) = op[c] /\ op[c] # Nobody /\ EffectOf(c) = "pending"
      /\ MetOf(c) = Absent /\ ReplyOf(c) = "none"
  BY PendingImage
<1>2. op[c].kind = "cas" /\ ans[c] = "none"
  BY CasRequest DEF CasInv, IInv, Progress
<1>3. EffectOf(c)' = "applied"
  BY <1>2 DEF EffectOf, Committed, Exchanged
<1>4. /\ CallOf(c)' = op[c] /\ MetOf(c)' = disk[op[c].leaf] /\ ReplyOf(c)' = "none"
  BY <1>2, <1>3 DEF CallOf, MetOf, ReplyOf, Leaf
<1>5. /\ [d \in Clients |-> CallOf(d)]' = [d \in Clients |-> CallOf(d)]
      /\ [d \in Clients |-> ReplyOf(d)]' = [d \in Clients |-> ReplyOf(d)]
  BY <1>1, <1>4, StillImage
<1>6. /\ [d \in Clients |-> MetOf(d)]'
           = [[d \in Clients |-> MetOf(d)] EXCEPT ![c] = disk[op[c].leaf]]
      /\ [d \in Clients |-> EffectOf(d)]'
           = [[d \in Clients |-> EffectOf(d)] EXCEPT ![c] = "applied"]
  BY <1>3, <1>4, ImageOfStep
<1>7. disk[op[c].leaf] = op[c].expected /\ disk' = [disk EXCEPT ![op[c].leaf] = op[c].new]
  BY DEF Leaf
<1>8. /\ [d \in Clients |-> CallOf(d)][c] = op[c]
      /\ [d \in Clients |-> EffectOf(d)][c] = "pending"
      /\ [d \in Clients |-> EffectOf(d)]'[c] = "applied"
  BY <1>1, <1>6
<1> QED
  BY <1>1, <1>5, <1>6, <1>7, <1>8 DEF Atomic!TakeEffect, Atomic!Matches

\* A compare-exchange that read another content is refused on what it met.
LEMMA RefusedImage ==
  ASSUME OnlyExchanges, CasInv, NEW c \in Clients, ClientStep(c),
         pc[c] = "read", op' = op, ans' = ans, over' = over, disk' = disk,
         pc'[c] = "return", seen'[c] = disk[Leaf(c)], disk[Leaf(c)] # op[c].expected
  PROVE  Atomic!TakeEffect(c)
<1>1. /\ CallOf(c) = op[c] /\ op[c] # Nobody /\ EffectOf(c) = "pending"
      /\ MetOf(c) = Absent /\ ReplyOf(c) = "none"
  BY PendingImage
<1>2. op[c].kind = "cas" /\ ans[c] = "none"
  BY CasRequest DEF CasInv, IInv, Progress
<1>3. EffectOf(c)' = "refused"
  BY <1>2 DEF EffectOf, Committed, Exchanged
<1>4. /\ CallOf(c)' = op[c] /\ MetOf(c)' = disk[op[c].leaf] /\ ReplyOf(c)' = "none"
  BY <1>2, <1>3 DEF CallOf, MetOf, ReplyOf, Leaf
<1>5. /\ [d \in Clients |-> CallOf(d)]' = [d \in Clients |-> CallOf(d)]
      /\ [d \in Clients |-> ReplyOf(d)]' = [d \in Clients |-> ReplyOf(d)]
  BY <1>1, <1>4, StillImage
<1>6. /\ [d \in Clients |-> MetOf(d)]'
           = [[d \in Clients |-> MetOf(d)] EXCEPT ![c] = disk[op[c].leaf]]
      /\ [d \in Clients |-> EffectOf(d)]'
           = [[d \in Clients |-> EffectOf(d)] EXCEPT ![c] = "refused"]
  BY <1>3, <1>4, ImageOfStep
<1>7. op[c].kind = "cas" /\ disk[op[c].leaf] # op[c].expected
  BY <1>2 DEF Leaf
<1>8. /\ [d \in Clients |-> CallOf(d)][c] = op[c]
      /\ [d \in Clients |-> EffectOf(d)][c] = "pending"
      /\ [d \in Clients |-> EffectOf(d)]'[c] = "refused"
  BY <1>1, <1>6
<1> QED
  BY <1>1, <1>5, <1>6, <1>7, <1>8 DEF Atomic!TakeEffect, Atomic!Matches

\* Every step of a client is a step of the abstract directory or a stutter.
LEMMA ClientImage ==
  ASSUME OnlyExchanges, CasInv, NEW c \in Clients, ClientStep(c)
  PROVE  Atomic!Next \/ UNCHANGED Atomic!vars
<1> USE DEF CasInv, IInv
<1>0. Progress(c)
  OBVIOUS
<1>t. /\ pc \in [Clients -> Places] /\ ans \in [Clients -> Answers]
      /\ seen \in [Clients -> Contents] /\ over \in [Clients -> Contents \cup {Torn}]
      /\ disk \in [Leaves -> Contents] /\ op \in [Clients -> Requests]
  BY DEF TypeOK, TypeDisk, TypeClients, Places, Answers
<1>1. CASE Start(c)
  <2>1. /\ pc[c] = "idle" /\ pc'[c] # "idle" /\ op'[c] \in Requests
        /\ pc'[c] # "return" /\ over'[c] = Torn /\ ans'[c] = "none" /\ disk' = disk
    <3>1. PICK o \in Requests : op' = [op EXCEPT ![c] = o] /\ Goto(c, FirstStep(o))
      BY <1>1 DEF Start
    <3>2. FirstStep(o) = "lock"
      BY RequestFields DEF FirstStep, OnlyExchanges
    <3> QED
      BY <1>1, <1>t, <3>1, <3>2 DEF Start, Goto, hostVars
  <2>2. CallOf(c) = Nobody /\ CallOf(c)' = op'[c]
    BY <2>1 DEF CallOf
  <2>3. EffectOf(c)' = "pending" /\ MetOf(c)' = Absent /\ ReplyOf(c)' = "none"
    BY <2>1 DEF EffectOf, MetOf, ReplyOf, Committed
  <2>4. Atomic!Invoke(c)
    BY <2>1, <2>2, <2>3, ImageOfStep DEF Atomic!Invoke
  <2> QED
    BY <2>4 DEF Atomic!Next
<1>2. CASE Lock(c)
  BY <1>2, <1>t, QuietImage DEF Lock, Goto
<1>3. CASE Read(c)
  <2>1. /\ pc[c] = "read" /\ pc'[c] = AfterRead(op[c], disk[Leaf(c)])
        /\ seen'[c] = disk[Leaf(c)] /\ disk' = disk /\ op' = op /\ over' = over /\ ans' = ans
    BY <1>3, <1>t DEF Read, Goto, hostVars
  <2>2. CASE disk[Leaf(c)] # op[c].expected
    BY <2>1, <2>2, RefusedImage DEF AfterRead, Atomic!Next
  <2>3. CASE disk[Leaf(c)] = op[c].expected /\ pc'[c] = "return"
    <3>1. op[c].new = disk[Leaf(c)]
      BY <2>1, <2>3 DEF AfterRead
    <3>2. disk' = [disk EXCEPT ![Leaf(c)] = op[c].new]
      BY <2>1, <3>1, <1>t
    <3> QED
      BY <2>1, <2>3, <3>2, AppliedImage DEF Atomic!Next
  <2>4. CASE disk[Leaf(c)] = op[c].expected /\ pc'[c] # "return"
    BY <2>1, <2>4, QuietImage DEF AfterRead
  <2> QED
    BY <2>2, <2>3, <2>4
<1>4. CASE Return(c)
  <2>1. /\ pc[c] = "return" /\ pc'[c] = "idle" /\ op' = op /\ seen' = seen
        /\ over' = over /\ disk' = disk
        /\ ans'[c] = (IF Exchanged(c) THEN "ok" ELSE "refused")
    BY <1>4, <1>t DEF Return, End, Goto
  <2>2. /\ CallOf(c) # Nobody /\ CallOf(c)' = Nobody
    BY <2>1, CasRequest, NobodyIsNoRequest DEF CallOf
  <2>3. /\ EffectOf(c) = (IF Exchanged(c) THEN "applied" ELSE "refused")
        /\ EffectOf(c)' = EffectOf(c) /\ ReplyOf(c)' = EffectOf(c)
    BY <2>1 DEF EffectOf, ReplyOf, Exchanged
  <2>4. MetOf(c)' = MetOf(c)
    BY <2>1, <2>3 DEF MetOf
  <2>5. Atomic!Return(c)
    BY <2>1, <2>2, <2>3, <2>4, ImageOfStep DEF Atomic!Return
  <2> QED
    BY <2>5 DEF Atomic!Next
<1>5. CASE Create(c)
  <2>1. CASE End(c, "exhausted")
    BY <1>5, <2>1, ErrorImage DEF Create, Atomic!Next
  <2>2. CASE ~End(c, "exhausted")
    BY <1>5, <2>2, <1>t, QuietImage DEF Create, Goto
  <2> QED
    BY <2>1, <2>2
<1>6. CASE WriteFails(c) \/ CancelSeen(c) \/ RenameFails(c) \/ IoFails(c)
  <2>1. PICK a \in {"failed", "cancelled", "exhausted"} : End(c, a)
    BY <1>6 DEF WriteFails, CancelSeen, RenameFails, IoFails
  <2>2. pc[c] # "idle" /\ op' = op /\ over' = over /\ disk' = disk
    BY <1>6 DEF WriteFails, CancelSeen, CancelPoint, RenameFails, IoFails
  <2> QED
    BY <2>1, <2>2, ErrorImage DEF Atomic!Next
<1>7. CASE Rename(c)
  <2>1. /\ pc[c] = "rename" /\ pc'[c] = "sync" /\ over'[c] = disk[Leaf(c)]
        /\ disk' = [disk EXCEPT ![Leaf(c)] = op[c].new]
        /\ op' = op /\ seen' = seen /\ ans' = ans
    BY <1>7, <1>t DEF Rename, Commit, Goto
  <2> QED
    BY <2>1, <1>0, CasRequest, AppliedImage DEF Progress, Atomic!Next
<1>8. CASE SyncDir(c)
  <2>1. /\ pc[c] = "sync" /\ pc'[c] = "return" /\ disk' = disk /\ op' = op /\ seen' = seen
        /\ over' = over /\ ans' = ans
    BY <1>8, <1>t DEF SyncDir, Goto
  <2>2. over[c] # Torn /\ Exchanged(c)
    BY <2>1, <1>0, CasRequest DEF Progress, Exchanged
  <2>3. /\ CallOf(c)' = CallOf(c) /\ EffectOf(c)' = EffectOf(c)
        /\ MetOf(c)' = MetOf(c) /\ ReplyOf(c)' = ReplyOf(c)
    BY <2>1, <2>2 DEF CallOf, EffectOf, MetOf, ReplyOf, Committed, Exchanged
  <2> QED
    BY <2>1, <2>3, ImageOfStep DEF Atomic!vars
<1>9. CASE Unlink(c)
  <2>1. CASE End(c, "failed") /\ UNCHANGED <<disk, over>>
    BY <1>9, <2>1, ErrorImage DEF Unlink, Atomic!Next
  <2>2. CASE Commit(c, Absent) /\ Goto(c, IF op[c].kind = "cas" THEN "sync" ELSE "return")
             /\ ans' = ans
    <3>1. /\ pc[c] = "unlink" /\ pc'[c] = "sync" /\ over'[c] = disk[Leaf(c)]
          /\ disk' = [disk EXCEPT ![Leaf(c)] = op[c].new]
          /\ op' = op /\ seen' = seen /\ ans' = ans
      BY <1>9, <2>2, <1>0, <1>t, CasRequest DEF Unlink, Commit, Goto, Progress
    <3> QED
      BY <3>1, <1>0, CasRequest, AppliedImage DEF Progress, Atomic!Next
  <2> QED
    BY <1>9, <2>1, <2>2 DEF Unlink
<1> QED
  BY <1>1, <1>2, <1>3, <1>4, <1>5, <1>6, <1>7, <1>8, <1>9 DEF ClientStep

\* A death is an abstract death.
LEMMA DeathImage ==
  ASSUME CasInv, NEW gone \in SUBSET Clients, Die(gone)
  PROVE  Atomic!Die(gone)
<1>1. ASSUME NEW c \in Clients
      PROVE  /\ CallOf(c)' = IF c \in gone THEN Nobody ELSE CallOf(c)
             /\ EffectOf(c)' = IF c \in gone THEN "pending" ELSE EffectOf(c)
             /\ MetOf(c)' = IF c \in gone THEN Absent ELSE MetOf(c)
             /\ ReplyOf(c)' = IF c \in gone THEN "none" ELSE ReplyOf(c)
  <2>1. CASE c \in gone
    BY <2>1 DEF Die, CallOf, EffectOf, MetOf, ReplyOf
  <2>2. CASE c \notin gone
    <3>1. /\ pc'[c] = pc[c] /\ op'[c] = op[c] /\ seen'[c] = seen[c]
          /\ over'[c] = over[c] /\ ans'[c] = ans[c]
      BY <2>2 DEF Die
    <3> QED
      BY <2>2, <3>1, SameImage
  <2> QED
    BY <2>1, <2>2
<1> QED
  BY <1>1 DEF Atomic!Die, Atomic!Forget

\* As long as every client uses compare_exchange, the directory is a set of
\* atomic leaves: each call takes effect at one instant (`linearizable leaf
\* compare-exchange`), across crashes, power cuts and failing host calls.
THEOREM ExchangesImplementAtomicLeaves ==
  ASSUME OnlyExchanges PROVE Spec => ImplementsAtomicLeaves
<1>1. Init => Atomic!Init
  <2> SUFFICES ASSUME Init PROVE Atomic!Init
    OBVIOUS
  <2>1. \A c \in Clients : /\ CallOf(c) = Nobody /\ EffectOf(c) = "pending"
                           /\ MetOf(c) = Absent /\ ReplyOf(c) = "none"
    BY DEF Init, CallOf, EffectOf, MetOf, ReplyOf
  <2> QED
    BY <2>1 DEF Init, Atomic!Init, Contents
<1>2. CasInv /\ CasInv' /\ [Next]_vars => [Atomic!Next]_(Atomic!vars)
  <2> SUFFICES ASSUME CasInv, CasInv', [Next]_vars
               PROVE  Atomic!Next \/ UNCHANGED Atomic!vars
    OBVIOUS
  <2>1. ASSUME NEW c \in Clients, ClientStep(c) PROVE Atomic!Next \/ UNCHANGED Atomic!vars
    BY <2>1, ClientImage
  <2>2. ASSUME NEW p \in Processes, Crash(p) PROVE Atomic!Next
    <3>1. PICK gone \in SUBSET Clients : Die(gone) /\ UNCHANGED disk
      BY <2>2 DEF Crash
    <3> QED
      BY <3>1, DeathImage DEF Atomic!Next, Atomic!Crash
  <2>3. CASE PowerCut
    <3>1. PICK gone \in SUBSET Clients : gone = Clients /\ Die(gone)
      BY <2>3 DEF PowerCut
    <3>2. Atomic!Die(Clients)
      BY <3>1, DeathImage
    <3>3. disk' \in [Leaves -> Contents]
      BY DEF CasInv, IInv, TypeOK, TypeDisk
    <3> QED
      BY <3>2, <3>3 DEF Atomic!Next, Atomic!PowerCut
  <2>4. CASE UNCHANGED vars
    <3>1. \A c \in Clients : /\ CallOf(c)' = CallOf(c) /\ EffectOf(c)' = EffectOf(c)
                             /\ MetOf(c)' = MetOf(c) /\ ReplyOf(c)' = ReplyOf(c)
      BY <2>4, SameImage DEF vars
    <3> QED
      BY <2>4, <3>1 DEF vars, Atomic!vars
  <2> QED
    BY <2>1, <2>2, <2>3, <2>4 DEF Next, ClientStep
<1> QED
  BY <1>1, <1>2, ExchangeInvariant, PTL DEF Spec, ImplementsAtomicLeaves, Atomic!Spec
=============================================================================
