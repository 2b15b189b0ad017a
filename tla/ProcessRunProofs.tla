-------------------------- MODULE ProcessRunProofs --------------------------
(***************************************************************************)
(* Proofs about ProcessRun for every tree, budget and set of host faults.  *)
(* The inductive invariant is IInv: what the bytes on their way through    *)
(* the pipes add up to, who is in the child's process group, and what the  *)
(* place run_child has reached says of the threads and of the token.       *)
(***************************************************************************)
EXTENDS ProcessRun, TLAPS

\* Every byte written is in the pipe, in a reader's hands, kept or dropped;
\* a reader that reported the end of its stream left nothing behind.
Bytes ==
  \A s \in Streams :
    /\ written[s] = pipe[s] + chunk[s] + kept[s] + dropped[s]
    /\ reader[s] # "accounting" => chunk[s] = 0
    /\ reader[s] = "ok" => pipe[s] = 0 /\ holds[s] = {}

\* With process_group(0), every live process that never left the child's group,
\* and does not come of one that had, is in it.
Membership ==
  GroupLeader => \A p \in Procs : Live(p) /\ p \notin escaped => p \in group

\* What run_child knows where it stands.
Progress ==
  /\ result # "None" <=> pc = "done"
  /\ pc \in {"term", "grace", "kill", "wait", "vanish"} => why # "none"
  /\ pc = "sweep" \/ why = "completed" \/ result = "Completed" =>
       status /\ \A s \in Streams : reader[s] = "ok"
  /\ pc = "decide" /\ cancelTop => cancelled
  /\ pc = "clock" /\ cancelTop => cancelSeen
  /\ pc = "clock" /\ cancelSeen => cancelled
  /\ why = "timeout" => expired /\ ~cancelTop
  /\ why = "cancel" => cancelled
  /\ pc \in {"poll", "decide", "clock", "sweep"} => why = "none"
  /\ result = "StoppedAfterTimeout" => why = "timeout"
  /\ result = "StoppedAfterCancel" => why = "cancel"
  /\ status \/ pc = "vanish" \/ result \in Proven => ~Live(Child)

ClaimedEmpty == GroupLeader => ClaimOwnsNothing

IInv == TypeOK /\ Bytes /\ BudgetExact /\ Membership /\ Progress /\ ClaimedEmpty

-----------------------------------------------------------------------------
(* Type correctness.                                                       *)

\* The initial state is well typed.
LEMMA InitType == Init => TypeOK
  <1> SUFFICES ASSUME Init PROVE TypeOK
    OBVIOUS
  <1> USE DEF Init
  <1>1. TypeTree
    <2>1. Child \in Procs
      BY DEF Procs
    <2> QED
      BY <2>1 DEF TypeTree
  <1>2. TypePipes
    BY ProcessAssumption DEF TypePipes
  <1>3. TypeRun
    BY DEF TypeRun, Stages
  <1>4. TypeFlags
    BY DEF TypeFlags
  <1> QED
    BY <1>1, <1>2, <1>3, <1>4 DEF TypeOK

\* Whatever the tree does, processes, group and pipe ends keep their types.
LEMMA TreeType == TypeTree /\ [Next]_vars => TypeTree'
  <1> SUFFICES ASSUME TypeTree, [Next]_vars PROVE TypeTree'
    OBVIOUS
  <1> USE DEF TypeTree
  <1>1. ASSUME NEW p \in Procs, NEW k \in Kids, Fork(p, k) PROVE TypeTree'
    BY <1>1 DEF Fork, Procs
  <1>2. ASSUME NEW p \in Procs, LeaveGroup(p) \/ JoinGroup(p) PROVE TypeTree'
    BY <1>2 DEF LeaveGroup, JoinGroup
  <1>3. ASSUME NEW p \in Procs, NEW s \in Streams, Close(p, s) PROVE TypeTree'
    BY <1>3 DEF Close
  <1>4. ASSUME NEW p \in Procs, Exit(p) \/ DieOfKill(p) PROVE TypeTree'
    BY <1>4 DEF Exit, DieOfKill, Dies
  <1>5. CASE Term
    BY <1>5 DEF Term, Dies
  <1>6. CASE Kill
    BY <1>6 DEF Kill
  <1>7. CASE UNCHANGED treeVars
    BY <1>7 DEF treeVars
  <1> QED
    BY <1>1, <1>2, <1>3, <1>4, <1>5, <1>6, <1>7 DEF Next, Tree, World, Threads,
       Runner, Reads, Write, ReusePid, Cancel, Expire, ReadChunk, Account, ReadEof,
       ReadFails, StdinTaken, StdinRefused, RunnerFrame, Poll, PollFails,
       ThreadFailed, ThreadsDone, ReadToken, ReadClock, Sweep, Grace, Wait,
       WaitFails, Vanish, vars

\* What fits of a chunk is bounded by the chunk and by what is left.
LEMMA FitsBounded ==
  ASSUME NEW n \in Nat, left \in Nat
  PROVE  /\ Fits(n) \in Nat /\ n - Fits(n) \in Nat /\ left - Fits(n) \in Nat
         /\ Fits(n) < n <=> n - Fits(n) > 0
  BY DEF Fits

\* Byte counts stay naturals: no chunk is charged beyond the budget.
LEMMA PipesType == TypePipes /\ [Next]_vars => TypePipes'
  <1> SUFFICES ASSUME TypePipes, [Next]_vars PROVE TypePipes'
    OBVIOUS
  <1> USE DEF TypePipes
  <1>1. ASSUME NEW p \in Procs, NEW s \in Streams, Write(p, s) PROVE TypePipes'
    BY <1>1 DEF Write, budgetVars
  <1>2. ASSUME NEW s \in Streams, ReadChunk(s) PROVE TypePipes'
    BY <1>2 DEF ReadChunk, budgetVars
  <1>3. ASSUME NEW s \in Streams, Account(s) PROVE TypePipes'
    <2>1. chunk[s] \in Nat /\ kept[s] \in Nat /\ dropped[s] \in Nat /\ left \in Nat
      OBVIOUS
    <2>2. /\ Fits(chunk[s]) \in Nat /\ chunk[s] - Fits(chunk[s]) \in Nat
          /\ left - Fits(chunk[s]) \in Nat
      BY <2>1, FitsBounded
    <2> DEFINE fits == Fits(chunk[s])
    <2>3. kept[s] + fits \in Nat /\ dropped[s] + (chunk[s] - fits) \in Nat
      BY <2>1, <2>2
    <2>4. /\ kept' = [kept EXCEPT ![s] = kept[s] + fits]
          /\ dropped' = [dropped EXCEPT ![s] = dropped[s] + (chunk[s] - fits)]
          /\ left' = left - fits
          /\ chunk' = [chunk EXCEPT ![s] = 0]
          /\ reader' = [reader EXCEPT ![s] = "reading"]
          /\ UNCHANGED <<written, pipe, writer>>
      BY <1>3 DEF Account
    <2> HIDE DEF fits
    <2> QED
      BY <2>2, <2>3, <2>4 DEF fits
  <1>4. ASSUME NEW s \in Streams, ReadEof(s) \/ ReadFails(s) PROVE TypePipes'
    BY <1>4 DEF ReadEof, ReadFails, budgetVars
  <1>5. CASE StdinTaken \/ StdinRefused
    BY <1>5 DEF StdinTaken, StdinRefused, pipeVars, budgetVars
  <1>6. CASE UNCHANGED <<pipeVars, budgetVars, writer>>
    BY <1>6 DEF pipeVars, budgetVars
  <1> QED
    BY <1>1, <1>2, <1>3, <1>4, <1>5, <1>6 DEF Next, Tree, World, Threads,
       Runner, Reads, Fork, LeaveGroup, JoinGroup, Close, Exit, DieOfKill, ReusePid, Cancel,
       Expire, RunnerFrame, Poll, PollFails, ThreadFailed, ThreadsDone, ReadToken,
       ReadClock, Sweep, Term, Grace, Kill, Wait, WaitFails, Vanish, vars

\* run_child stands at one of its places, with one of its results.
LEMMA RunType == TypeRun /\ [Next]_vars => TypeRun'
  <1> SUFFICES ASSUME TypeRun, [Next]_vars PROVE TypeRun'
    OBVIOUS
  <1> USE DEF TypeRun, Return, Outcomes, Stages
  <1>1. CASE Poll \/ PollFails
    BY <1>1 DEF Poll, PollFails
  <1>2. CASE ThreadFailed \/ ThreadsDone \/ ReadToken
    BY <1>2 DEF ThreadFailed, ThreadsDone, ReadToken
  <1>3. CASE ReadClock
    BY <1>3 DEF ReadClock, StopReason
  <1>4. CASE Sweep
    BY <1>4 DEF Sweep
  <1>5. CASE Term \/ Grace \/ Kill
    BY <1>5 DEF Term, Grace, Kill
  <1>6. CASE Wait \/ WaitFails
    BY <1>6 DEF Wait, WaitFails
  <1>7. CASE Vanish
    BY <1>7 DEF Vanish, Answer, CleanedUp
  <1>8. CASE UNCHANGED runVars
    BY <1>8 DEF runVars
  <1> QED
    BY <1>1, <1>2, <1>3, <1>4, <1>5, <1>6, <1>7, <1>8 DEF Next, Tree, World,
       Threads, Runner, Reads, Fork, LeaveGroup, JoinGroup, Write, Close, Exit, DieOfKill,
       ReusePid, Cancel, Expire, ReadChunk, Account, ReadEof, ReadFails,
       StdinTaken, StdinRefused, vars

\* Flags stay flags.
LEMMA FlagsType == TypeFlags /\ [Next]_vars => TypeFlags'
  <1> SUFFICES ASSUME TypeFlags, [Next]_vars PROVE TypeFlags'
    OBVIOUS
  <1> USE DEF TypeFlags, pidVars, budgetVars, callerVars, runVars, RunnerFrame
  <1>1. CASE Poll
    BY <1>1 DEF Poll
  <1>2. CASE PollFails \/ ThreadFailed \/ ThreadsDone
    BY <1>2 DEF PollFails, ThreadFailed, ThreadsDone
  <1>3. CASE ReadToken \/ ReadClock
    BY <1>3 DEF ReadToken, ReadClock
  <1>4. CASE Sweep
    BY <1>4 DEF Sweep
  <1>5. CASE Term
    BY <1>5 DEF Term
  <1>6. CASE Grace
    BY <1>6 DEF Grace, Escalates
  <1>7. CASE Kill
    BY <1>7 DEF Kill
  <1>8. CASE Wait \/ WaitFails \/ Vanish
    BY <1>8 DEF Wait, WaitFails, Vanish
  <1>9. ASSUME NEW s \in Streams, Account(s) PROVE TypeFlags'
    BY <1>9 DEF Account, TruncatedAfter
  <1>10. CASE ReusePid
    BY <1>10 DEF ReusePid
  <1>11. CASE Cancel \/ Expire
    BY <1>11 DEF Cancel, Expire
  <1>12. CASE UNCHANGED <<pidVars, budgetVars, callerVars, runVars>>
    BY <1>12
  <1> QED
    BY <1>1, <1>2, <1>3, <1>4, <1>5, <1>6, <1>7, <1>8, <1>9, <1>10, <1>11, <1>12
    DEF Next, Tree, World, Threads, Runner, Reads, Fork, LeaveGroup, JoinGroup, Write, Close,
       Exit, DieOfKill, ReadChunk, ReadEof, ReadFails, StdinTaken, StdinRefused, vars

\* Every state of every run is well typed, whatever the tree and the budget.
THEOREM ProcessTypeCorrect == Spec => []TypeOK
  <1>1. TypeOK /\ [Next]_vars => TypeOK'
    BY TreeType, PipesType, RunType, FlagsType DEF TypeOK
  <1> QED
    BY <1>1, InitType, PTL DEF Spec

-----------------------------------------------------------------------------
(* The bytes and the shared budget.                                        *)

\* Accounting one chunk moves its bytes to the capture and to the losses.
LEMMA AccountSplits ==
  ASSUME TypePipes, NEW s \in Streams, Account(s)
  PROVE  \E fits \in Nat, lost \in Nat :
           /\ chunk[s] = fits + lost
           /\ kept' = [kept EXCEPT ![s] = kept[s] + fits]
           /\ dropped' = [dropped EXCEPT ![s] = dropped[s] + lost]
           /\ left = left' + fits /\ left' \in Nat
           /\ truncated' = (truncated \/ lost > 0)
  <1> DEFINE fits == Fits(chunk[s])
             lost == chunk[s] - fits
  <1>1. chunk[s] \in Nat /\ left \in Nat
    BY DEF TypePipes
  <1>2. /\ fits \in Nat /\ lost \in Nat /\ left - fits \in Nat
        /\ fits < chunk[s] <=> lost > 0
    BY <1>1, FitsBounded
  <1>3. /\ kept' = [kept EXCEPT ![s] = kept[s] + fits]
        /\ dropped' = [dropped EXCEPT ![s] = dropped[s] + lost]
        /\ left' = left - fits
        /\ truncated' = (truncated \/ fits < chunk[s])
    BY DEF Account, TruncatedAfter
  <1> HIDE DEF fits
  <1>4. chunk[s] = fits + lost /\ left = left' + fits
    BY <1>1, <1>2, <1>3
  <1> QED
    BY <1>2, <1>3, <1>4

\* Only `reader` touches the budget, and it charges what it keeps.
LEMMA BudgetStep == TypeOK /\ BudgetExact /\ [Next]_vars => BudgetExact'
  <1> SUFFICES ASSUME TypeOK, BudgetExact, [Next]_vars PROVE BudgetExact'
    OBVIOUS
  <1>1. TypePipes /\ truncated \in BOOLEAN
    BY DEF TypeOK, TypeFlags
  <1>2. ASSUME NEW s \in Streams, Account(s) PROVE BudgetExact'
    <2>1. PICK fits \in Nat, lost \in Nat :
            /\ kept' = [kept EXCEPT ![s] = kept[s] + fits]
            /\ dropped' = [dropped EXCEPT ![s] = dropped[s] + lost]
            /\ left = left' + fits /\ left' \in Nat
            /\ truncated' = (truncated \/ lost > 0)
      BY <1>1, <1>2, AccountSplits
    <2>2. Stdout # Stderr /\ MaxOutput \in Nat /\ s \in {Stdout, Stderr}
      BY ProcessAssumption DEF Streams
    <2>3. /\ kept \in [Streams -> Nat] /\ dropped \in [Streams -> Nat]
          /\ Stdout \in Streams /\ Stderr \in Streams
      BY <1>1 DEF TypePipes, Streams
    <2>4. kept'[Stdout] + kept'[Stderr] + left' = MaxOutput
      BY <2>1, <2>2, <2>3 DEF BudgetExact
    <2>5. dropped'[Stdout] + dropped'[Stderr] = dropped[Stdout] + dropped[Stderr] + lost
      BY <2>1, <2>2, <2>3
    <2>6. /\ dropped[Stdout] \in Nat /\ dropped[Stderr] \in Nat
          /\ truncated <=> dropped[Stdout] + dropped[Stderr] > 0
      BY <2>3 DEF BudgetExact
    <2> DEFINE before == dropped[Stdout] + dropped[Stderr]
               after  == dropped'[Stdout] + dropped'[Stderr]
    <2>7. before \in Nat /\ after = before + lost
      BY <2>5, <2>6
    <2> HIDE DEF before, after
    <2>8. after > 0 <=> before > 0 \/ lost > 0
      BY <2>7
    <2>9. (truncated <=> before > 0) /\ truncated' = (truncated \/ lost > 0)
      BY <2>1, <2>6 DEF before
    <2>10. truncated' <=> after > 0
      BY <2>8, <2>9
    <2> QED
      BY <2>4, <2>10 DEF BudgetExact, after
  <1>3. CASE UNCHANGED <<kept, dropped, left, truncated>>
    BY <1>3 DEF BudgetExact
  <1> QED
    BY <1>2, <1>3 DEF Next, Tree, World, Threads, Runner, Reads, Fork, LeaveGroup, JoinGroup,
       Write, Close, Exit, DieOfKill, ReusePid, Cancel, Expire, ReadChunk, ReadEof,
       ReadFails, StdinTaken, StdinRefused, RunnerFrame, Poll, PollFails,
       ThreadFailed, ThreadsDone, ReadToken, ReadClock, Sweep, Term, Grace, Kill,
       Wait, WaitFails, Vanish, vars, pipeVars, budgetVars

\* No byte is lost between a pipe and the capture.
LEMMA BytesStep == TypeOK /\ Bytes /\ [Next]_vars => Bytes'
  <1> SUFFICES ASSUME TypeOK, Bytes, [Next]_vars PROVE Bytes'
    OBVIOUS
  <1>0. TypePipes /\ TypeTree
    BY DEF TypeOK
  <1> USE DEF Bytes
  <1>1. ASSUME NEW p \in Procs, NEW s \in Streams, Write(p, s) PROVE Bytes'
    <2>1. /\ written' = [written EXCEPT ![s] = written[s] + 1]
          /\ pipe' = [pipe EXCEPT ![s] = pipe[s] + 1]
          /\ p \in holds[s]
          /\ UNCHANGED <<holds, chunk, kept, dropped, reader>>
      BY <1>1 DEF Write, treeVars
    <2>2. written[s] + 1 = pipe[s] + 1 + chunk[s] + kept[s] + dropped[s]
      BY <1>0 DEF TypePipes
    <2> QED
      BY <1>0, <2>1, <2>2 DEF TypePipes
  <1>2. ASSUME NEW s \in Streams, ReadChunk(s) PROVE Bytes'
    BY <1>0, <1>2 DEF ReadChunk, TypePipes, treeVars
  <1>3. ASSUME NEW s \in Streams, Account(s) PROVE Bytes'
    <2>1. PICK fits \in Nat, lost \in Nat :
            /\ chunk[s] = fits + lost
            /\ kept' = [kept EXCEPT ![s] = kept[s] + fits]
            /\ dropped' = [dropped EXCEPT ![s] = dropped[s] + lost]
      BY <1>0, <1>3, AccountSplits
    <2>2. /\ chunk' = [chunk EXCEPT ![s] = 0]
          /\ reader' = [reader EXCEPT ![s] = "reading"]
          /\ UNCHANGED <<written, pipe, holds>>
      BY <1>3 DEF Account, treeVars
    <2> QED
      BY <1>0, <2>1, <2>2 DEF TypePipes
  <1>4. ASSUME NEW s \in Streams, ReadEof(s) \/ ReadFails(s) PROVE Bytes'
    BY <1>0, <1>4 DEF ReadEof, ReadFails, Eof, TypePipes, treeVars
  <1>5. ASSUME UNCHANGED <<written, pipe, chunk, kept, dropped, reader>>,
               \A s \in Streams : holds[s] = {} => holds'[s] = {}
        PROVE  Bytes'
    BY <1>5
  <1>6. ASSUME NEW p \in Procs, NEW k \in Kids, Fork(p, k) PROVE Bytes'
    BY <1>0, <1>5, <1>6 DEF Fork, pipeVars
  <1>7. ASSUME NEW p \in Procs, NEW s \in Streams, Close(p, s) PROVE Bytes'
    BY <1>0, <1>5, <1>7 DEF Close, pipeVars, TypeTree
  <1>8. ASSUME NEW p \in Procs, Exit(p) \/ DieOfKill(p) PROVE Bytes'
    BY <1>0, <1>5, <1>8 DEF Exit, DieOfKill, Dies, pipeVars
  <1>9. CASE Term
    BY <1>0, <1>5, <1>9 DEF Term, Dies, pipeVars
  <1>10. CASE UNCHANGED <<pipeVars, holds>>
    BY <1>10 DEF pipeVars
  <1> QED
    BY <1>1, <1>2, <1>3, <1>4, <1>6, <1>7, <1>8, <1>9, <1>10 DEF Next, Tree, World,
       Threads, Runner, Reads, LeaveGroup, JoinGroup, ReusePid, Cancel, Expire, StdinTaken,
       StdinRefused, RunnerFrame, Poll, PollFails, ThreadFailed, ThreadsDone,
       ReadToken, ReadClock, Sweep, Grace, Kill, Wait, WaitFails, Vanish, vars,
       treeVars

-----------------------------------------------------------------------------
(* The process group and what a claim may leave behind.                    *)

\* A live process that never left is a member of the group the child leads.
LEMMA MembershipStep == TypeOK /\ Membership /\ [Next]_vars => Membership'
  <1> SUFFICES ASSUME TypeOK, Membership, [Next]_vars, GroupLeader
               PROVE  \A p \in Procs : proc'[p] = "running" /\ p \notin escaped' => p \in group'
    BY DEF Membership, Live
  <1>0. /\ TypeTree
        /\ \A p \in Procs : proc[p] = "running" /\ p \notin escaped => p \in group
    BY DEF TypeOK, Membership, Live
  <1>1. ASSUME NEW q \in Procs, NEW k \in Kids, Fork(q, k)
        PROVE  \A p \in Procs : proc'[p] = "running" /\ p \notin escaped' => p \in group'
    BY <1>0, <1>1 DEF Fork, Acts, Live, TypeTree
  <1>2. ASSUME NEW q \in Procs, LeaveGroup(q) \/ JoinGroup(q)
        PROVE  \A p \in Procs : proc'[p] = "running" /\ p \notin escaped' => p \in group'
    BY <1>0, <1>2 DEF LeaveGroup, JoinGroup
  <1>3. ASSUME NEW dying, Dies(dying)
        PROVE  \A p \in Procs : proc'[p] = "running" /\ p \notin escaped' => p \in group'
    BY <1>0, <1>3 DEF Dies, TypeTree
  <1>4. CASE UNCHANGED <<proc, group, escaped>>
    BY <1>0, <1>4
  <1> QED
    BY <1>1, <1>2, <1>3, <1>4 DEF Next, Tree, World, Threads, Exit, DieOfKill, Term,
       Runner, Reads, Write, Close, ReusePid, Cancel, Expire, ReadChunk, Account,
       ReadEof, ReadFails, StdinTaken, StdinRefused, RunnerFrame, Poll, PollFails,
       ThreadFailed, ThreadsDone, ReadToken, ReadClock, Sweep, Grace, Kill, Wait,
       WaitFails, Vanish, vars, treeVars

\* With the child dead, an empty group means that nothing owned is alive.
LEMMA EmptyGroup ==
  ASSUME TypeTree, Membership, GroupLeader, group = {}, ~Live(Child)
  PROVE  Owned = {}
  BY DEF Membership, Owned

\* A dead child stays dead.
LEMMA ChildStaysDead ==
  ASSUME TypeTree, [Next]_vars, ~Live(Child)
  PROVE  ~Live(Child)'
  <1>0. Child \in Procs /\ Child \notin Kids
    BY ProcessAssumption DEF Procs
  <1>1. ASSUME NEW q \in Procs, NEW k \in Kids, Fork(q, k) PROVE ~Live(Child)'
    BY <1>0, <1>1 DEF Fork, Live, TypeTree
  <1>2. ASSUME NEW dying, Dies(dying) PROVE ~Live(Child)'
    BY <1>0, <1>2 DEF Dies, Live
  <1>3. CASE UNCHANGED proc
    BY <1>3 DEF Live
  <1> QED
    BY <1>1, <1>2, <1>3 DEF Next, Tree, World, Threads, Exit, DieOfKill, Term, LeaveGroup,
       JoinGroup, Runner, Reads, Write, Close, ReusePid, Cancel, Expire, ReadChunk,
       Account, ReadEof, ReadFails, StdinTaken, StdinRefused, RunnerFrame, Poll,
       PollFails, ThreadFailed, ThreadsDone, ReadToken, ReadClock, Sweep, Grace, Kill,
       Wait, WaitFails, Vanish, vars, treeVars

\* Once nothing owned lives, nothing owned comes to life again.
LEMMA OwnedStaysEmpty ==
  ASSUME TypeTree, [Next]_vars, Owned = {}
  PROVE  Owned' = {}
  <1>1. /\ \A p \in Procs : p \notin escaped => proc[p] # "running"
        /\ Child \in Procs /\ ~Live(Child)
    BY DEF Owned, Live, Procs
  <1>2. ~Live(Child)'
    BY <1>1, ChildStaysDead
  <1> SUFFICES \A p \in Procs : p \notin escaped' => proc'[p] # "running"
    BY <1>2 DEF Owned, Live
  <1>3. ASSUME NEW q \in Procs, NEW k \in Kids, Fork(q, k)
        PROVE  \A p \in Procs : p \notin escaped' => proc'[p] # "running"
    BY <1>1, <1>3 DEF Fork, Acts, Live, TypeTree
  <1>4. ASSUME NEW q \in Procs, LeaveGroup(q) \/ JoinGroup(q)
        PROVE  \A p \in Procs : p \notin escaped' => proc'[p] # "running"
    BY <1>1, <1>4 DEF LeaveGroup, JoinGroup
  <1>5. ASSUME NEW dying, Dies(dying)
        PROVE  \A p \in Procs : p \notin escaped' => proc'[p] # "running"
    BY <1>1, <1>5 DEF Dies, TypeTree
  <1>6. CASE UNCHANGED <<proc, escaped>>
    BY <1>1, <1>6
  <1> QED
    BY <1>3, <1>4, <1>5, <1>6 DEF Next, Tree, World, Threads, Exit, DieOfKill, Term,
       Runner, Reads, Write, Close, ReusePid, Cancel, Expire, ReadChunk, Account,
       ReadEof, ReadFails, StdinTaken, StdinRefused, RunnerFrame, Poll, PollFails,
       ThreadFailed, ThreadsDone, ReadToken, ReadClock, Sweep, Grace, Kill, Wait,
       WaitFails, Vanish, vars, treeVars

\* A step that claims the end of the run found the group empty.
LEMMA ClaimFoundNobody ==
  ASSUME [Next]_vars, result' \in Proven, result' # result
  PROVE  group = {} /\ UNCHANGED <<proc, group, escaped>>
  <1>1. CASE Sweep
    BY <1>1 DEF Sweep, GroupExists, RunnerFrame, treeVars, Return, Proven
  <1>2. CASE Vanish
    BY <1>2 DEF Vanish, GroupExists, Answer, RunnerFrame, treeVars, Return, Proven
  <1>3. CASE PollFails \/ ThreadFailed \/ WaitFails
    BY <1>3 DEF PollFails, ThreadFailed, WaitFails, Return, Proven
  <1>4. CASE UNCHANGED result
    BY <1>4
  <1> QED
    BY <1>1, <1>2, <1>3, <1>4 DEF Next, Tree, World, Threads, Runner, Reads, Fork,
       LeaveGroup, JoinGroup, Write, Close, Exit, DieOfKill, ReusePid, Cancel, Expire,
       ReadChunk, Account, ReadEof, ReadFails, StdinTaken, StdinRefused, Poll,
       ThreadsDone, ReadToken, ReadClock, Term, Grace, Kill, Wait, vars, runVars

\* A claim is made, and stays, with nothing owned alive.
LEMMA ClaimStep ==
  TypeOK /\ Membership /\ Progress' /\ ClaimedEmpty /\ [Next]_vars => ClaimedEmpty'
  <1> SUFFICES ASSUME TypeOK, Membership, Progress', ClaimedEmpty, [Next]_vars,
                      GroupLeader, result' \in Proven
               PROVE  Owned' = {}
    BY DEF ClaimedEmpty, ClaimOwnsNothing
  <1>0. TypeTree
    BY DEF TypeOK
  <1>1. CASE result' = result
    BY <1>0, <1>1, OwnedStaysEmpty DEF ClaimedEmpty, ClaimOwnsNothing
  <1>2. CASE result' # result
    <2>1. group = {} /\ UNCHANGED <<proc, group, escaped>>
      BY <1>2, ClaimFoundNobody
    <2>2. ~Live(Child)
      BY <2>1 DEF Progress, Live
    <2>3. Owned = {}
      BY <1>0, <2>1, <2>2, EmptyGroup
    <2> QED
      BY <2>1, <2>3 DEF Owned, Live
  <1> QED
    BY <1>1, <1>2

-----------------------------------------------------------------------------
(* Where run_child stands.                                                 *)

\* The token and the deadline are never taken back, and a reader that has
\* reported the end of its stream is done.
LEMMA Monotone ==
  ASSUME TypeOK, [Next]_vars
  PROVE  /\ cancelled => cancelled'
         /\ expired => expired'
         /\ \A s \in Streams : reader[s] = "ok" => reader'[s] = "ok"
  <1>0. TypePipes
    BY DEF TypeOK
  <1>1. ASSUME NEW s \in Streams, Reads(s) \/ ReadFails(s)
        PROVE  /\ UNCHANGED <<cancelled, expired>>
               /\ \A t \in Streams : reader[t] = "ok" => reader'[t] = "ok"
    BY <1>0, <1>1 DEF Reads, ReadChunk, Account, ReadEof, ReadFails, TypePipes,
                      callerVars
  <1>2. CASE Cancel \/ Expire
    BY <1>2 DEF Cancel, Expire, pipeVars
  <1>3. CASE UNCHANGED <<cancelled, expired, reader>>
    BY <1>3
  <1> QED
    BY <1>1, <1>2, <1>3 DEF Next, Tree, World, Threads, Runner, Fork, LeaveGroup, JoinGroup,
       Write, Close, Exit, DieOfKill, ReusePid, StdinTaken, StdinRefused,
       RunnerFrame, Poll, PollFails, ThreadFailed, ThreadsDone, ReadToken,
       ReadClock, Sweep, Term, Grace, Kill, Wait, WaitFails, Vanish, vars,
       pipeVars, callerVars

\* What run_child knows at each place of its loop stays true there.
LEMMA ProgressStep == TypeOK /\ Progress /\ [Next]_vars => Progress'
  <1> SUFFICES ASSUME TypeOK, Progress, [Next]_vars PROVE Progress'
    OBVIOUS
  <1>0. /\ TypeRun /\ TypeFlags
        /\ cancelled => cancelled'
        /\ expired => expired'
        /\ \A s \in Streams : reader[s] = "ok" => reader'[s] = "ok"
        /\ ~Live(Child) => ~Live(Child)'
    BY Monotone, ChildStaysDead DEF TypeOK
  <1> USE DEF Progress
  <1>1. CASE Poll
    BY <1>0, <1>1 DEF Poll, TypeRun, TypeFlags, RunnerFrame, callerVars
  <1>2. CASE PollFails \/ WaitFails
    BY <1>0, <1>2 DEF PollFails, WaitFails, TypeRun, RunnerFrame, callerVars, Return
  <1>3. CASE ThreadFailed
    BY <1>0, <1>3 DEF ThreadFailed, TypeRun, RunnerFrame, callerVars, Return, Proven
  <1>4. CASE ThreadsDone
    BY <1>0, <1>4 DEF ThreadsDone, AllIn, TypeRun, RunnerFrame, callerVars
  <1>5. CASE ReadToken
    BY <1>0, <1>5 DEF ReadToken, TypeRun, RunnerFrame, callerVars
  <1>6. CASE ReadClock
    BY <1>0, <1>6 DEF ReadClock, StopReason, TypeRun, RunnerFrame, callerVars
  <1>7. CASE Sweep
    BY <1>0, <1>7 DEF Sweep, Return, TypeRun, RunnerFrame, callerVars
  <1>8. CASE Term
    BY <1>0, <1>8 DEF Term, TypeRun, callerVars
  <1>9. CASE Grace \/ Wait
    BY <1>0, <1>9 DEF Grace, Wait, TypeRun, RunnerFrame, callerVars
  <1>10. CASE Kill
    BY <1>0, <1>10 DEF Kill, TypeRun, callerVars
  <1>11. CASE Vanish
    <2>1. pc = "vanish" /\ pc' = "done"
      BY <1>11 DEF Vanish, Answer, Return
    <2>2. UNCHANGED <<why, status, cancelled, expired, cancelTop, cancelSeen, reader>>
      BY <1>11 DEF Vanish, RunnerFrame, callerVars, pipeVars
    <2>3. result' \in {"Unknown", CleanedUp}
      BY <1>11 DEF Vanish, Answer, Return
    <2>4. /\ CleanedUp = "Completed" => why = "completed"
          /\ CleanedUp = "StoppedAfterTimeout" => why \notin {"completed", "cancel"}
          /\ CleanedUp = "StoppedAfterCancel" => why = "cancel"
          /\ CleanedUp # "None"
      BY DEF CleanedUp
    <2> QED
      BY <1>0, <2>1, <2>2, <2>3, <2>4 DEF TypeRun
  <1>12. CASE UNCHANGED runVars
    BY <1>0, <1>12 DEF runVars, TypeRun
  <1> QED
    BY <1>1, <1>2, <1>3, <1>4, <1>5, <1>6, <1>7, <1>8, <1>9, <1>10, <1>11, <1>12
    DEF Next, Tree, World, Threads, Runner, Reads, Fork, LeaveGroup, JoinGroup, Write, Close,
       Exit, DieOfKill, ReusePid, Cancel, Expire, ReadChunk, Account, ReadEof,
       ReadFails, StdinTaken, StdinRefused, vars

-----------------------------------------------------------------------------
(* The theorems.                                                           *)

\* The initial state has every part of the inductive invariant.
LEMMA InitIInv == Init => IInv
  <1> SUFFICES ASSUME Init PROVE IInv
    OBVIOUS
  <1>1. TypeOK
    BY InitType
  <1>2. Bytes
    BY DEF Init, Bytes
  <1>3. BudgetExact
    BY ProcessAssumption DEF Init, BudgetExact, Streams
  <1>4. Membership
    BY DEF Init, Membership, Procs, Live
  <1>5. Progress
    BY DEF Init, Progress, Proven
  <1>6. ClaimedEmpty
    BY DEF Init, ClaimedEmpty, ClaimOwnsNothing, Proven
  <1> QED
    BY <1>1, <1>2, <1>3, <1>4, <1>5, <1>6 DEF IInv

\* The inductive invariant behind the theorems of this module: types, bytes,
\* budget, group membership, what a claim found, and where run_child stands.
THEOREM ProcessInvariant == Spec => []IInv
  <1>1. IInv /\ [Next]_vars => IInv'
    BY TreeType, PipesType, RunType, FlagsType, BytesStep, BudgetStep,
       MembershipStep, ProgressStep, ClaimStep DEF IInv, TypeOK
  <1> QED
    BY <1>1, InitIInv, PTL DEF Spec

\* What both readers kept and what is left add up to max_output_bytes, and
\* `truncated` tells exactly whether a byte was lost, for every budget.
THEOREM OutputBudgetExact == Spec => []BudgetExact
  BY ProcessInvariant, PTL DEF IInv

\* A Completed receipt holds all the output anybody wrote, for every tree.
THEOREM CompletedOutputWhole == Spec => []CompletedIsWhole
  <1>1. IInv => CompletedIsWhole
    <2> SUFFICES ASSUME IInv, result = "Completed"
                 PROVE  /\ status
                        /\ \A s \in Streams : kept[s] + dropped[s] = written[s] /\ holds[s] = {}
                        /\ ~truncated => \A s \in Streams : kept[s] = written[s]
      BY DEF CompletedIsWhole
    <2>1. status /\ \A s \in Streams : reader[s] = "ok"
      BY DEF IInv, Progress
    <2>2. \A s \in Streams : /\ kept[s] \in Nat /\ dropped[s] \in Nat
                             /\ written[s] = pipe[s] + chunk[s] + kept[s] + dropped[s]
                             /\ pipe[s] = 0 /\ chunk[s] = 0 /\ holds[s] = {}
      BY <2>1 DEF IInv, Bytes, TypeOK, TypePipes
    <2>3. \A s \in Streams : kept[s] + dropped[s] = written[s] /\ holds[s] = {}
      BY <2>2
    <2>4. ASSUME ~truncated PROVE \A s \in Streams : kept[s] = written[s]
      <3>1. /\ Stdout \in Streams /\ Stderr \in Streams
            /\ \A s \in Streams : s = Stdout \/ s = Stderr
        BY DEF Streams
      <3>2. ~(dropped[Stdout] + dropped[Stderr] > 0)
        BY <2>4 DEF IInv, BudgetExact
      <3>3. \A s \in Streams : dropped[s] = 0
        BY <2>2, <3>1, <3>2
      <3> QED
        BY <2>2, <2>3, <3>3
    <2> QED
      BY <2>1, <2>3, <2>4
  <1> QED
    BY <1>1, ProcessInvariant, PTL

\* A child that leads its group is never left alive by a receipt that claims the
\* run ended, even one that moved to another group, nor is any descendant that
\* never left the child's group.
THEOREM ClaimsOwnNothing ==
  ASSUME GroupLeader
  PROVE  Spec => []ClaimOwnsNothing
  <1>1. IInv => ClaimOwnsNothing
    BY DEF IInv, ClaimedEmpty
  <1> QED
    BY <1>1, ProcessInvariant, PTL

\* A token set before the deciding iteration is never reported as a timeout.
THEOREM CancellationWinsAlways == Spec => []CancellationWins
  <1>1. IInv => CancellationWins
    BY DEF IInv, Progress, CancellationWins
  <1> QED
    BY <1>1, ProcessInvariant, PTL

-----------------------------------------------------------------------------
(* The run implements the abstract port.                                   *)

\* The answer is given once, in a step that changes nothing else of interest.
LEMMA AnswerStep ==
  ASSUME TypeOK, Progress, [Next]_vars, result' # result
  PROVE  /\ result = "None" /\ result' \in Outcomes
         /\ UNCHANGED <<proc, escaped, cancelled, expired>>
  <1>1. CASE PollFails \/ ThreadFailed \/ WaitFails
    BY <1>1 DEF PollFails, ThreadFailed, WaitFails, Return, RunnerFrame, treeVars,
                callerVars, Progress, Outcomes
  <1>2. CASE Sweep
    BY <1>2 DEF Sweep, Return, RunnerFrame, treeVars, callerVars, Progress, Outcomes
  <1>3. CASE Vanish
    BY <1>3 DEF Vanish, Answer, CleanedUp, Return, RunnerFrame, treeVars, callerVars,
                Progress, Outcomes
  <1>4. CASE UNCHANGED result
    BY <1>4
  <1> QED
    BY <1>1, <1>2, <1>3, <1>4 DEF Next, Tree, World, Threads, Runner, Reads, Fork,
       LeaveGroup, JoinGroup, Write, Close, Exit, DieOfKill, ReusePid, Cancel, Expire,
       ReadChunk, Account, ReadEof, ReadFails, StdinTaken, StdinRefused, Poll,
       ThreadsDone, ReadToken, ReadClock, Term, Grace, Kill, Wait, vars, runVars

\* After the answer neither the token nor the deadline matters any more.
LEMMA AnsweredCallerStops ==
  ASSUME [Next]_vars, result # "None"
  PROVE  UNCHANGED <<cancelled, expired>>
  BY DEF Next, Tree, World, Threads, Runner, Reads, Fork, LeaveGroup, JoinGroup, Write, Close,
     Exit, DieOfKill, ReusePid, Cancel, Expire, ReadChunk, Account, ReadEof,
     ReadFails, StdinTaken, StdinRefused, RunnerFrame, Poll, PollFails,
     ThreadFailed, ThreadsDone, ReadToken, ReadClock, Sweep, Term, Grace, Kill, Wait,
     WaitFails, Vanish, vars, callerVars, Returned

\* The spawned child is what the abstract port owns at first.
LEMMA ContractInit == Init => Contract!Init
  <1> SUFFICES ASSUME Init PROVE Contract!Init
    OBVIOUS
  <1>1. Child \in Owned /\ Owned \subseteq Procs
    BY DEF Init, Owned, Live, Procs
  <1>2. Asked \subseteq {"cancel"}
    BY DEF Init, Asked
  <1> QED
    BY <1>1, <1>2 DEF Init, Contract!Init, Asked

\* Every step of the run is a step of the abstract port or a stutter.
LEMMA ContractStep ==
  ASSUME GroupLeader, IInv, IInv', [Next]_vars
  PROVE  [Contract!Next]_(Contract!vars)
  <1>0. /\ TypeOK /\ TypeTree /\ Progress /\ Progress'
        /\ result \in Outcomes \cup {"None"}
        /\ ClaimOwnsNothing /\ ClaimOwnsNothing'
    BY DEF IInv, TypeOK, TypeRun, ClaimedEmpty
  <1>1. Asked \subseteq Asked' /\ Asked' \subseteq {"cancel", "timeout"}
    BY <1>0, Monotone DEF Asked
  <1>2. Owned' \subseteq Procs
    BY DEF Owned
  <1>3. CASE result' # result
    <2>1. /\ result = "None" /\ result' \in Outcomes
          /\ UNCHANGED <<proc, escaped, cancelled, expired>>
      BY <1>0, <1>3, AnswerStep
    <2>2. Owned' = Owned /\ Asked' = Asked
      BY <2>1 DEF Owned, Live, Asked
    <2>3. CASE result' = "Unknown"
      <3>1. Contract!GiveUp
        BY <2>1, <2>2, <2>3 DEF Contract!GiveUp, Asked
      <3> QED
        BY <3>1 DEF Contract!Next
    <2>4. CASE result' # "Unknown"
      <3>1. result' \in Contract!Claims /\ result' \in Proven
        BY <2>1, <2>4 DEF Outcomes, Contract!Claims, Proven
      <3>2. Owned = {}
        BY <1>0, <2>2, <3>1 DEF ClaimOwnsNothing
      <3>3. result' = "StoppedAfterCancel" => "cancel" \in Asked
        BY <1>0, <2>1 DEF Progress, Asked
      <3>4. result' = "StoppedAfterTimeout" => "timeout" \in Asked
        BY <1>0, <2>1 DEF Progress, Asked
      <3>5. Contract!Claim(result')
        BY <2>1, <2>2, <3>2, <3>3, <3>4 DEF Contract!Claim, Asked
      <3> QED
        BY <3>1, <3>5 DEF Contract!Next
    <2> QED
      BY <2>3, <2>4
  <1>4. CASE result' = result /\ result \in Proven
    <2>1. Owned = {} /\ Owned' = {}
      BY <1>0, <1>4 DEF ClaimOwnsNothing
    <2>2. Asked' = Asked
      BY <1>4, AnsweredCallerStops DEF Asked, Proven
    <2> QED
      BY <1>4, <2>1, <2>2 DEF Contract!vars, Asked
  <1>5. CASE result' = result /\ result \notin Proven
    <2>1. Owned = {} => Owned' = {}
      BY <1>0, OwnedStaysEmpty
    <2>2. result # "None" => Asked' = Asked
      BY AnsweredCallerStops DEF Asked
    <2>3. Contract!Evolve
      BY <1>1, <1>2, <1>5, <2>1, <2>2
      DEF Contract!Evolve, Contract!Claims, Proven, Asked
    <2> QED
      BY <2>3 DEF Contract!Next
  <1> QED
    BY <1>3, <1>4, <1>5

\* Every run of a child that leads its group is a run of the abstract port:
\* one answer, claims only with nothing owned alive, stops only when asked for.
THEOREM ProcessImplementsContract ==
  ASSUME GroupLeader
  PROVE  Spec => ImplementsContract
  <1>1. IInv /\ IInv' /\ [Next]_vars => [Contract!Next]_(Contract!vars)
    BY ContractStep
  <1> QED
    BY <1>1, ContractInit, ProcessInvariant, PTL DEF Spec, ImplementsContract, Contract!Spec
=============================================================================
