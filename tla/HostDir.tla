------------------------------- MODULE HostDir -------------------------------
(***************************************************************************)
(* One directory of an UbuntuHostDirPort (sim-table-fs/src/adapters.rs)    *)
(* used by the threads of several processes: `replace` through a numbered  *)
(* temporary and a rename, `compare_exchange` under an advisory lock per   *)
(* leaf, and `remove_file`, which take no lock.  Host calls may fail,      *)
(* processes may die between any two of them, and a power cut keeps only   *)
(* what was synchronized.                                                  *)
(*                                                                         *)
(* A file's bytes are synchronized before its rename, the directory after  *)
(* it; `media` is what a power cut may leave of each leaf in between.      *)
(* Reads of a leaf are one step: rename replaces the file, not its bytes.  *)
(***************************************************************************)
EXTENDS Naturals, FiniteSets

CONSTANTS
  Clients,     \* threads that call the port
  Processes,   \* the processes they run in
  ProcessOf,   \* client -> process
  Leaves,      \* leaf paths of the directory
  Values,      \* the bytes a leaf may hold
  Absent,      \* no file
  Torn,        \* a file whose bytes did not all reach the medium
  Kinds,       \* the port calls in use: subset of {"cas", "replace", "remove"}
  MaxTemps,    \* temporaries per process and directory (64 in the code)
  IoMayFail,   \* host calls may return an error
  Free, Orphan, \* states of a temporary: not there; there and nobody's
  Nobody       \* no holder of a lock

ASSUME HostDirAssumption ==
  /\ IsFiniteSet(Clients)
  /\ ProcessOf \in [Clients -> Processes]
  /\ Absent \notin Values /\ Torn \notin Values /\ Torn # Absent
  /\ Kinds \subseteq {"cas", "replace", "remove"}
  /\ MaxTemps \in Nat \ {0}
  /\ IoMayFail \in BOOLEAN
  /\ Free \notin Clients /\ Orphan \notin Clients /\ Free # Orphan
  /\ Nobody \notin Clients

Contents == Values \cup {Absent}
Slots    == 0 .. MaxTemps - 1

\* A compare-exchange names both contents; a replace stores a value; a remove
\* stores none.  The unused `expected` of the last two is Absent.
Requests ==
  {o \in [kind : Kinds, leaf : Leaves, expected : Contents, new : Contents] :
     /\ o.kind # "cas" => o.expected = Absent
     /\ o.kind = "replace" => o.new # Absent
     /\ o.kind = "remove" => o.new = Absent}

ASSUME NobodyIsNoRequest == Nobody \notin Requests

VARIABLES
  disk,      \* what the running system sees of each leaf
  media,     \* the contents a power cut may leave of each leaf
  temps,     \* per process and number, the temporary's writer, Free or Orphan
  lock,      \* holder of each leaf's lock file
  pc,        \* where each client stands
  op,        \* the request it is working on, or its last
  slot,      \* the temporary it tries or holds
  seen,      \* `observed` of its compare-exchange
  over,      \* history: the content its commit replaced, or Torn for no commit
  ans,       \* its last answer
  told,      \* history: per leaf, the last exchange acknowledged and not replaced
  disturbed  \* history: a crash, a power cut, or a failed rename or removal

hostVars == <<disk, media, temps, lock>>
vars == <<disk, media, temps, lock, pc, op, slot, seen, over, ans, told, disturbed>>

TypeDisk ==
  /\ disk \in [Leaves -> Contents]
  /\ media \in [Leaves -> SUBSET Contents]  \* never a torn file
  /\ temps \in [Processes -> [Slots -> Clients \cup {Free, Orphan}]]
  /\ lock \in [Leaves -> Clients \cup {Nobody}]

TypeClients ==
  /\ pc \in [Clients -> {"idle", "lock", "read", "create", "rename",
                         "unlink", "sync", "return"}]
  /\ op \in [Clients -> Requests]
  /\ slot \in [Clients -> 0 .. MaxTemps]
  /\ seen \in [Clients -> Contents]
  /\ over \in [Clients -> Contents \cup {Torn}]
  /\ ans \in [Clients -> {"none", "ok", "refused", "failed", "cancelled", "exhausted"}]

TypeHistory ==
  /\ told \in [Leaves -> Contents \cup {Torn}]
  /\ disturbed \in BOOLEAN

TypeOK == TypeDisk /\ TypeClients /\ TypeHistory

\* Fault: numbering starts at 1, under the same limit.
SecondSlot == 1
FirstSlot  == 0

Init ==
  /\ disk = [l \in Leaves |-> Absent]
  /\ media = [l \in Leaves |-> {Absent}]
  /\ temps = [p \in Processes |-> [n \in Slots |-> Free]]
  /\ lock = [l \in Leaves |-> Nobody]
  /\ pc = [c \in Clients |-> "idle"]
  /\ op \in [Clients -> Requests]
  /\ slot = [c \in Clients |-> FirstSlot]
  /\ seen = [c \in Clients |-> Absent]
  /\ over = [c \in Clients |-> Torn]
  /\ ans = [c \in Clients |-> "none"]
  /\ told = [l \in Leaves |-> Torn]
  /\ disturbed = FALSE

Leaf(c)      == op[c].leaf
Own(c)       == ProcessOf[c]
Committed(c) == over[c] # Torn
Goto(c, at)  == pc' = [pc EXCEPT ![c] = at]

\* Fault: a call that ends early leaves its lock.
KeptLocks(c) == IF pc[c] = "return" THEN [l \in Leaves |-> IF lock[l] = c THEN Nobody ELSE lock[l]]
                ELSE lock
\* What a dropped lock File leaves of the locks: flock is released with it.
Unlocked(c)  == [l \in Leaves |-> IF lock[l] = c THEN Nobody ELSE lock[l]]

\* The call returns `a`; the lock File goes out of scope with it.
End(c, a) ==
  /\ Goto(c, "idle")
  /\ ans' = [ans EXCEPT ![c] = a]
  /\ lock' = Unlocked(c)
  /\ slot' = [slot EXCEPT ![c] = FirstSlot]

SetTemp(c, who) == temps' = [temps EXCEPT ![Own(c)][slot[c]] = who]

FirstStep(o) == CASE o.kind = "cas"     -> "lock"
                  [] o.kind = "replace" -> "create"
                  [] o.kind = "remove"  -> "unlink"

Start(c) ==
  /\ pc[c] = "idle"
  /\ \E o \in Requests :
       /\ op' = [op EXCEPT ![c] = o]
       /\ Goto(c, FirstStep(o))
  /\ seen' = [seen EXCEPT ![c] = Absent]
  /\ over' = [over EXCEPT ![c] = Torn]
  /\ ans' = [ans EXCEPT ![c] = "none"]
  /\ UNCHANGED <<hostVars, slot, told, disturbed>>

-----------------------------------------------------------------------------
(* compare_exchange: everything but the temporary's name is under the lock. *)

\* Fault: the lock excludes only other processes, as a record lock does.
OtherProcess(c) == lock[Leaf(c)] \in {Nobody} \cup {d \in Clients : Own(d) = Own(c)}
Lockable(c)     == lock[Leaf(c)] = Nobody

Lock(c) ==
  /\ pc[c] = "lock" /\ Lockable(c)
  /\ lock' = [lock EXCEPT ![Leaf(c)] = c]
  /\ Goto(c, "read")
  /\ UNCHANGED <<disk, media, temps, op, slot, seen, over, ans, told, disturbed>>

AfterRead(o, observed) ==
  IF observed # o.expected THEN "return"
  ELSE IF o.new # Absent THEN "create"
  ELSE IF observed # Absent THEN "unlink" ELSE "return"

Read(c) ==
  /\ pc[c] = "read"
  /\ seen' = [seen EXCEPT ![c] = disk[Leaf(c)]]
  /\ Goto(c, AfterRead(op[c], disk[Leaf(c)]))
  /\ UNCHANGED <<hostVars, op, slot, over, ans, told, disturbed>>

\* The result of a compare-exchange is what it saw, whatever happened since.
Exchanged(c) == op[c].kind = "cas" => seen[c] = op[c].expected

\* Unlock and answer.
Return(c) ==
  /\ pc[c] = "return"
  /\ End(c, IF Exchanged(c) THEN "ok" ELSE "refused")
  /\ told' = IF op[c].kind = "cas" /\ Committed(c)
             THEN [told EXCEPT ![Leaf(c)] = op[c].new] ELSE told
  /\ UNCHANGED <<disk, media, temps, op, seen, over, disturbed>>

-----------------------------------------------------------------------------
(* replace, alone or inside compare_exchange.                              *)

\* create_new: a number in use is passed over, the last one is the end.
Create(c) ==
  /\ pc[c] = "create"
  /\ \/ /\ slot[c] \in Slots /\ temps[Own(c)][slot[c]] = Free
        /\ SetTemp(c, c) /\ Goto(c, "rename")
        /\ UNCHANGED <<slot, ans, lock>>
     \/ /\ slot[c] \in Slots /\ temps[Own(c)][slot[c]] # Free
        /\ slot' = [slot EXCEPT ![c] = @ + 1]
        /\ UNCHANGED <<temps, pc, ans, lock>>
     \/ /\ slot[c] \notin Slots
        /\ End(c, "exhausted")
        /\ UNCHANGED temps
  /\ UNCHANGED <<disk, media, op, seen, over, told, disturbed>>

\* write_all and sync_all touch nobody else's file: they are part of the step
\* that follows them, WriteFails, CancelSeen or Rename.

\* Fault: the writer that gives up forgets its temporary.
ForgetTemp(c) == UNCHANGED <<temps, disturbed>>
\* The writer removes its temporary; whether that succeeds is not looked at.
RemoveTemp(c) ==
  \/ SetTemp(c, Free) /\ UNCHANGED disturbed
  \/ IoMayFail /\ SetTemp(c, Orphan) /\ disturbed' = TRUE

WriteFails(c) ==
  /\ IoMayFail /\ pc[c] = "rename"
  /\ RemoveTemp(c)
  /\ End(c, "failed")
  /\ UNCHANGED <<disk, media, op, seen, over, told>>

\* The token is read before the temporary is created, and before the rename.
\* Fault: the second look comes after the rename.
LateCancelPoint(c) == pc[c] \in {"read", "sync"}
CancelPoint(c) ==
  \/ pc[c] \in {"read", "rename"}
  \/ pc[c] = "create" /\ slot[c] = FirstSlot

CancelSeen(c) ==
  /\ CancelPoint(c)
  /\ IF pc[c] = "rename" THEN RemoveTemp(c) ELSE UNCHANGED <<temps, disturbed>>
  /\ End(c, "cancelled")
  /\ UNCHANGED <<disk, media, op, seen, over, told>>

\* Fault: the temporary is renamed without sync_all of its bytes.
Unflushed(v) == {v, Torn}
Flushed(v)   == {v}

\* The leaf holds v; until the directory is synchronized a power cut may
\* leave what it held before.
Commit(c, v) ==
  /\ disk' = [disk EXCEPT ![Leaf(c)] = v]
  /\ media' = [media EXCEPT ![Leaf(c)] = @ \cup Flushed(v)]
  /\ over' = [over EXCEPT ![c] = disk[Leaf(c)]]
  /\ told' = [told EXCEPT ![Leaf(c)] = Torn]

Rename(c) ==
  /\ pc[c] = "rename"
  /\ Commit(c, op[c].new)
  /\ SetTemp(c, Free)
  /\ Goto(c, "sync")
  /\ UNCHANGED <<lock, op, slot, seen, ans, disturbed>>

\* A failed rename leaves the temporary behind.
RenameFails(c) ==
  /\ IoMayFail /\ pc[c] = "rename"
  /\ SetTemp(c, Orphan)
  /\ End(c, "failed")
  /\ disturbed' = TRUE
  /\ UNCHANGED <<disk, media, op, seen, over, told>>

\* Fault: the directory is not synchronized.
Unsynced == media
Synced   == [l \in Leaves |-> {disk[l]}]

SyncDir(c) ==
  /\ pc[c] = "sync"
  /\ media' = Synced
  /\ Goto(c, "return")
  /\ UNCHANGED <<disk, temps, lock, op, slot, seen, over, ans, told, disturbed>>

-----------------------------------------------------------------------------
(* remove_file, alone or inside compare_exchange; only the latter          *)
(* synchronizes the directory.                                             *)

Unlink(c) ==
  /\ pc[c] = "unlink"
  /\ \/ /\ disk[Leaf(c)] # Absent
        /\ Commit(c, Absent)
        /\ Goto(c, IF op[c].kind = "cas" THEN "sync" ELSE "return")
        /\ UNCHANGED <<lock, ans, slot>>
     \/ /\ disk[Leaf(c)] = Absent
        /\ End(c, "failed")
        /\ UNCHANGED <<disk, media, over, told>>
  /\ UNCHANGED <<temps, op, seen, disturbed>>

\* Any other host call may fail; no temporary is open then.
IoFails(c) ==
  /\ IoMayFail
  /\ \/ pc[c] \in {"lock", "read", "create", "unlink", "sync"}
     \/ pc[c] = "return" /\ op[c].kind = "cas"
  /\ End(c, "failed")
  /\ UNCHANGED <<disk, media, temps, op, seen, over, told, disturbed>>

-----------------------------------------------------------------------------
(* The kernel releases the locks of a dead process and leaves its files.   *)

Abandoned(p, gone) ==
  [n \in Slots |-> IF temps[p][n] \in gone THEN Orphan ELSE temps[p][n]]

Die(gone) ==
  /\ pc' = [c \in Clients |-> IF c \in gone THEN "idle" ELSE pc[c]]
  /\ ans' = [c \in Clients |-> IF c \in gone THEN "none" ELSE ans[c]]
  /\ lock' = [l \in Leaves |-> IF lock[l] \in gone THEN Nobody ELSE lock[l]]
  /\ slot' = [c \in Clients |-> IF c \in gone THEN FirstSlot ELSE slot[c]]
  /\ disturbed' = TRUE
  /\ UNCHANGED <<op, seen, over, told>>

\* The process comes back under the same pid, as the first of a container does.
Crash(p) ==
  LET gone == {c \in Clients : Own(c) = p}
  IN /\ Die(gone)
     /\ temps' = [q \in Processes |-> Abandoned(q, gone)]
     /\ UNCHANGED <<disk, media>>

PowerCut ==
  /\ Die(Clients)
  /\ temps' = [q \in Processes |-> Abandoned(q, Clients)]
  /\ disk' \in {d \in [Leaves -> Contents \cup {Torn}] : \A l \in Leaves : d[l] \in media[l]}
  /\ media' = [l \in Leaves |-> {disk'[l]}]

Next ==
  \/ \E c \in Clients :
       \/ Start(c) \/ Lock(c) \/ Read(c) \/ Return(c) \/ Create(c)
       \/ WriteFails(c) \/ CancelSeen(c) \/ Rename(c) \/ RenameFails(c)
       \/ SyncDir(c) \/ Unlink(c) \/ IoFails(c)
  \/ \E p \in Processes : Crash(p)
  \/ PowerCut

Spec == Init /\ [][Next]_vars

-----------------------------------------------------------------------------
(* Properties.                                                             *)

\* An exchange that was acknowledged survives a power cut, whole, until the
\* next commit to its leaf: nothing else can be left of the leaf.
AckedExchangeSurvives == \A l \in Leaves : told[l] # Torn => media[l] = {told[l]}

\* Without a crash and a failed rename or removal no temporary is left behind: every one
\* is the open file of a client between create_new and rename, in its process.
TempsAccounted ==
  \A p \in Processes, n \in Slots :
    /\ temps[p][n] = Orphan => disturbed
    /\ temps[p][n] \in Clients =>
         LET c == temps[p][n]
         IN Own(c) = p /\ slot[c] = n /\ pc[c] = "rename"

\* "temporary namespace exhausted" is answered only when leaked temporaries
\* and the process's other threads can together hold every number.
ExhaustionNeedsLeaks ==
  \A c \in Clients : ans[c] = "exhausted" =>
    Cardinality({n \in Slots : temps[Own(c)][n] = Orphan})
      + Cardinality({d \in Clients \ {c} : Own(d) = Own(c)}) >= MaxTemps

\* A call that answers Cancelled or exhausted left its leaf alone.
RefusalChangesNothing ==
  \A c \in Clients : ans[c] \in {"cancelled", "exhausted"} => ~Committed(c)

\* A lock is held only by a compare-exchange of that leaf that has not
\* returned: no error path and no death leaves a leaf locked.
LocksHeldByWorkers ==
  \A l \in Leaves : lock[l] # Nobody =>
    LET c == lock[l]
    IN Leaf(c) = l /\ op[c].kind = "cas" /\ pc[c] \notin {"idle", "lock"}

\* A compare-exchange that reports an exchange replaced the content it
\* reports to have observed.
ExchangeReplacesObserved ==
  \A c \in Clients :
    op[c].kind = "cas" /\ ans[c] = "ok" /\ Committed(c) => over[c] = seen[c]

\* A call has taken effect once it committed, or when all that is left is to
\* report; an error or a death forgets it.
EffectOf(c) ==
  IF \/ pc[c] = "idle" /\ ans[c] \notin {"ok", "refused"}
     \/ pc[c] \notin {"idle", "return"} /\ ~Committed(c)
  THEN "pending"
  ELSE IF Exchanged(c) THEN "applied" ELSE "refused"

CallOf(c) == IF pc[c] = "idle" THEN Nobody ELSE op[c]
MetOf(c)  == IF EffectOf(c) = "pending" THEN Absent
             ELSE IF op[c].kind = "cas" THEN seen[c] ELSE over[c]
ReplyOf(c) == IF ans[c] = "none" THEN "none"
              ELSE IF ans[c] = "ok" THEN "applied"
              ELSE IF ans[c] = "refused" THEN "refused" ELSE "error"

Atomic == INSTANCE AtomicLeaves WITH
  NoCall  <- Nobody,
  content <- disk,
  call    <- [c \in Clients |-> CallOf(c)],
  effect  <- [c \in Clients |-> EffectOf(c)],
  met     <- [c \in Clients |-> MetOf(c)],
  reply   <- [c \in Clients |-> ReplyOf(c)]

\* As long as every writer uses compare_exchange, calls are atomic.
ImplementsAtomicLeaves == Atomic!Spec
=============================================================================
