------------------------------ MODULE ProcessRun ------------------------------
(***************************************************************************)
(* One dispatched native process of the Ubuntu capsule: `run_child`, its   *)
(* three pipe threads, `completed` and `terminate_tree` of                 *)
(* sim-platform-ubuntu-pc/src/process.rs, running against a child that     *)
(* forks, writes, closes its pipes, leaves its process group, comes back   *)
(* to it and exits whenever it likes.                                      *)
(*                                                                         *)
(* `UbuntuProcess::run` spawns with process_group(0), so the child leads   *)
(* the group that carries its pid (GroupLeader = TRUE).                    *)
(* `BwrapLauncher::launch` spawns without it and hands the child to the    *)
(* same run_child (GroupLeader = FALSE): no group carries the child's pid. *)
(*                                                                         *)
(* group_exists scans /proc in ascending pid order.  A member forked       *)
(* during the scan has a larger pid than its parent and is still ahead of  *)
(* the scan, so a scan that finds nobody found nobody at its end: it is    *)
(* one step here (pid wrap-around inside one scan is left out).  A process *)
(* that comes back to the group behind the scan counts as one that came    *)
(* back after it.                                                          *)
(***************************************************************************)
EXTENDS Naturals, FiniteSets

CONSTANTS
  Child,        \* the spawned process
  Kids,         \* processes the child's tree may fork
  Stdout, Stderr, \* the two captured streams
  MaxOutput,    \* request.budget.max_output_bytes
  MaxWritten,   \* bound: bytes the tree writes in all
  GroupLeader,  \* spawned with process_group(0)
  PidReuse,     \* the kernel may give the freed pid to a group of someone else
  HostFaults    \* host calls that may fail: "wait" on an exited child, "read" of
                \* a pipe, "write" to stdin, "scan" of /proc, "signal" to a group

ASSUME ProcessAssumption ==
  /\ Child \notin Kids
  /\ Stdout # Stderr
  /\ MaxOutput \in Nat
  /\ MaxWritten \in Nat
  /\ GroupLeader \in BOOLEAN
  /\ PidReuse \in BOOLEAN
  /\ HostFaults \subseteq {"wait", "read", "write", "scan", "signal"}

Procs   == {Child} \cup Kids
Streams == {Stdout, Stderr}

VARIABLES
  proc,       \* life of each process: "unborn", "running" or "dead"
  group,      \* live processes whose process group is the child's pid
  escaped,    \* live processes that have ever left the child's group (setsid or
              \* setpgid), and whoever descends from one that had
  killed,     \* processes with SIGKILL pending
  reaped,     \* the child's exit status was collected, its pid is free
  foreign,    \* a group of someone else carries the child's former pid
  strayed,    \* a signal of ours reached that group
  holds,      \* per stream, the live processes holding its write end
  written,    \* per stream, the bytes written so far
  pipe,       \* per stream, the bytes in the pipe
  chunk,      \* per stream, the bytes read and not yet accounted
  kept,       \* per stream, the bytes in the capture
  dropped,    \* per stream, the bytes read and thrown away
  reader,     \* reader threads: "reading", "accounting", "ok" or "err"
  writer,     \* stdin thread: "writing", "ok" or "err"
  left,       \* Budget.left
  truncated,  \* Budget.truncated
  cancelled,  \* the cancellation token
  expired,    \* the monotonic deadline has passed
  pc,         \* where run_child stands
  status,     \* run_child's `status` is Some
  cancelSeen, \* the token as the current iteration read it
  cancelTop,  \* history: the token when the current iteration began
  why,        \* why terminate_tree runs: "completed", "cancel" or "timeout"
  escalated,  \* terminate_tree's `escalated`
  result,     \* the ProcessAttempt returned, or "None"
  stage       \* its DispatchEvidence.stage when it is "Unknown"

treeVars   == <<proc, group, escaped, killed, holds>>
pidVars    == <<reaped, foreign, strayed>>
pipeVars   == <<written, pipe, chunk, kept, dropped, reader>>
budgetVars == <<left, truncated>>
runVars    == <<pc, status, cancelSeen, cancelTop, why, escalated,
                result, stage>>
callerVars == <<cancelled, expired>>
vars == <<treeVars, pidVars, pipeVars, writer, budgetVars, callerVars, runVars>>

Outcomes == {"Completed", "StoppedAfterCancel", "StoppedAfterTimeout", "Unknown"}
\* The outcomes that say the tree has been cleaned up.
Proven   == {"Completed", "StoppedAfterCancel", "StoppedAfterTimeout"}
Stages   == {"none", "reap", "stdin", "capture", "cleanup"}

Live(p)     == proc[p] = "running"
\* What the request answers for: the child itself, wherever it went, and the
\* descendants that never left its group.
Owned       == {p \in Procs : Live(p) /\ (p = Child \/ p \notin escaped)}
\* What group_exists(child.id()) may answer: an unreadable /proc counts as TRUE.
GroupExists ==
  {group # {} \/ foreign} \cup (IF "scan" \in HostFaults THEN {TRUE} ELSE {})
Returned    == result # "None"
\* run_child is in its loop.  Once it has left, nobody looks at the pipes or
\* at what their threads do, and the model lets them rest.
Listening   == pc \in {"poll", "decide", "clock"}

TypeTree ==
  /\ proc \in [Procs -> {"unborn", "running", "dead"}]
  /\ group \subseteq Procs /\ escaped \subseteq Procs /\ killed \subseteq Procs
  /\ holds \in [Streams -> SUBSET Procs]

TypePipes ==
  /\ written \in [Streams -> Nat] /\ pipe \in [Streams -> Nat]
  /\ chunk \in [Streams -> Nat] /\ kept \in [Streams -> Nat]
  /\ dropped \in [Streams -> Nat]
  /\ reader \in [Streams -> {"reading", "accounting", "ok", "err"}]
  /\ left \in Nat
  /\ writer \in {"writing", "ok", "err"}

TypeRun ==
  /\ pc \in {"poll", "decide", "clock", "sweep", "term", "grace",
             "kill", "wait", "vanish", "done"}
  /\ why \in {"none", "completed", "cancel", "timeout"}
  /\ result \in Outcomes \cup {"None"} /\ stage \in Stages

TypeFlags ==
  /\ reaped \in BOOLEAN /\ foreign \in BOOLEAN /\ strayed \in BOOLEAN
  /\ truncated \in BOOLEAN /\ cancelled \in BOOLEAN /\ expired \in BOOLEAN
  /\ status \in BOOLEAN /\ cancelSeen \in BOOLEAN /\ cancelTop \in BOOLEAN
  /\ escalated \in BOOLEAN

TypeOK == TypeTree /\ TypePipes /\ TypeRun /\ TypeFlags

Init ==
  /\ proc = [p \in Procs |-> IF p = Child THEN "running" ELSE "unborn"]
  /\ group = IF GroupLeader THEN {Child} ELSE {}
  /\ escaped = {} /\ killed = {}
  /\ reaped = FALSE /\ foreign = FALSE /\ strayed = FALSE
  /\ holds = [s \in Streams |-> {Child}]
  /\ written = [s \in Streams |-> 0] /\ pipe = [s \in Streams |-> 0]
  /\ chunk = [s \in Streams |-> 0] /\ kept = [s \in Streams |-> 0]
  /\ dropped = [s \in Streams |-> 0]
  /\ reader = [s \in Streams |-> "reading"]
  /\ writer = "writing"
  /\ left = MaxOutput /\ truncated = FALSE
  /\ cancelled \in BOOLEAN /\ expired = FALSE
  /\ pc = "poll" /\ status = FALSE
  /\ cancelSeen = FALSE /\ cancelTop = FALSE
  /\ why = "none" /\ escalated = FALSE
  /\ result = "None" /\ stage = "none"

-----------------------------------------------------------------------------
(* The child's tree: what a program may do, at any time, until killed.     *)

Acts(p) == Live(p) /\ p \notin killed

Fork(p, k) ==
  /\ Acts(p) /\ proc[k] = "unborn"
  /\ proc' = [proc EXCEPT ![k] = "running"]
  /\ group' = IF p \in group THEN group \cup {k} ELSE group
  /\ escaped' = IF p \in escaped THEN escaped \cup {k} ELSE escaped
  /\ holds' = [s \in Streams |->
                 IF p \in holds[s] THEN holds[s] \cup {k} ELSE holds[s]]
  /\ UNCHANGED <<killed, pidVars, pipeVars, writer, budgetVars, callerVars, runVars>>

\* setsid, or setpgid to a group of its own or to another one of the session.
\* The child may not call setsid, but it is in the capsule's session and may
\* move to any group of that session.
LeaveGroup(p) ==
  /\ Acts(p) /\ p \notin escaped
  /\ group' = group \ {p}
  /\ escaped' = escaped \cup {p}
  /\ UNCHANGED <<proc, killed, holds, pidVars, pipeVars, writer, budgetVars,
                 callerVars, runVars>>

\* setpgid back to the child's group, as long as it has a member, which may be
\* dead and not yet reaped; the child can found it anew.  That setsid bars this
\* way back is left out.
JoinGroup(p) ==
  /\ Acts(p) /\ p \in escaped \ group /\ ~foreign
  /\ \/ p = Child \/ group # {} \/ ~reaped
     \/ \E k \in Kids : proc[k] = "dead"
  /\ group' = group \cup {p}
  /\ UNCHANGED <<proc, escaped, killed, holds, pidVars, pipeVars, writer,
                 budgetVars, callerVars, runVars>>

Write(p, s) ==
  /\ Listening /\ Acts(p) /\ p \in holds[s]
  /\ written[Stdout] + written[Stderr] < MaxWritten
  /\ written' = [written EXCEPT ![s] = @ + 1]
  /\ pipe' = [pipe EXCEPT ![s] = @ + 1]
  /\ UNCHANGED <<treeVars, pidVars, chunk, kept, dropped, reader, writer,
                 budgetVars, callerVars, runVars>>

Close(p, s) ==
  /\ Listening /\ Acts(p) /\ p \in holds[s]
  /\ holds' = [holds EXCEPT ![s] = @ \ {p}]
  /\ UNCHANGED <<proc, group, escaped, killed, pidVars, pipeVars, writer,
                 budgetVars, callerVars, runVars>>

Dies(dying) ==
  /\ proc' = [p \in Procs |-> IF p \in dying THEN "dead" ELSE proc[p]]
  /\ holds' = [s \in Streams |-> holds[s] \ dying]
  /\ group' = group \ dying /\ escaped' = escaped \ dying /\ killed' = killed \ dying

Exit(p) ==
  /\ Acts(p)
  /\ Dies({p})
  /\ UNCHANGED <<pidVars, pipeVars, writer, budgetVars, callerVars, runVars>>

-----------------------------------------------------------------------------
(* The kernel and the caller.                                              *)

DieOfKill(p) ==
  /\ Live(p) /\ p \in killed
  /\ Dies({p})
  /\ UNCHANGED <<pidVars, pipeVars, writer, budgetVars, callerVars, runVars>>

\* A pid is reusable once its process is reaped and no group carries it.
ReusePid ==
  /\ PidReuse /\ reaped /\ group = {} /\ ~foreign
  /\ foreign' = TRUE
  /\ UNCHANGED <<treeVars, reaped, strayed, pipeVars, writer, budgetVars,
                 callerVars, runVars>>

Cancel ==
  /\ ~cancelled /\ ~Returned
  /\ cancelled' = TRUE
  /\ UNCHANGED <<treeVars, pidVars, pipeVars, writer, budgetVars, expired, runVars>>

Expire ==
  /\ ~expired /\ ~Returned
  /\ expired' = TRUE
  /\ UNCHANGED <<treeVars, pidVars, pipeVars, writer, budgetVars, cancelled, runVars>>

-----------------------------------------------------------------------------
(* The pipe threads.  Both readers charge one Budget, under its lock; what *)
(* does not fit is read and dropped, so that the child never blocks.       *)

ReadChunk(s) ==
  /\ Listening /\ reader[s] = "reading"
  /\ \E n \in 1 .. pipe[s] :
       /\ pipe' = [pipe EXCEPT ![s] = @ - n]
       /\ chunk' = [chunk EXCEPT ![s] = n]
  /\ reader' = [reader EXCEPT ![s] = "accounting"]
  /\ UNCHANGED <<treeVars, pidVars, written, kept, dropped, writer, budgetVars,
                 callerVars, runVars>>

\* Fault: a chunk is charged whole, whatever is left of the budget.
WholeChunk(n) == n
Fits(n)       == IF n <= left THEN n ELSE left

\* Fault: a chunk that spends the budget to its last byte counts as cut.
LastByteCut(s)     == truncated \/ Fits(chunk[s]) = left
TruncatedAfter(s)  == truncated \/ Fits(chunk[s]) < chunk[s]

Account(s) ==
  /\ Listening /\ reader[s] = "accounting"
  /\ kept' = [kept EXCEPT ![s] = @ + Fits(chunk[s])]
  /\ dropped' = [dropped EXCEPT ![s] = @ + (chunk[s] - Fits(chunk[s]))]
  /\ left' = left - Fits(chunk[s])
  /\ truncated' = TruncatedAfter(s)
  /\ chunk' = [chunk EXCEPT ![s] = 0]
  /\ reader' = [reader EXCEPT ![s] = "reading"]
  /\ UNCHANGED <<treeVars, pidVars, written, pipe, writer, callerVars, runVars>>

\* Fault: an empty pipe is taken for a closed one.
EmptyPipe(s) == pipe[s] = 0
Eof(s)       == pipe[s] = 0 /\ holds[s] = {}

\* read returned 0: the pipe is empty and nobody holds its write end.
ReadEof(s) ==
  /\ Listening /\ reader[s] = "reading" /\ Eof(s)
  /\ reader' = [reader EXCEPT ![s] = "ok"]
  /\ UNCHANGED <<treeVars, pidVars, written, pipe, chunk, kept, dropped, writer,
                 budgetVars, callerVars, runVars>>

ReadFails(s) ==
  /\ Listening /\ "read" \in HostFaults /\ reader[s] = "reading"
  /\ reader' = [reader EXCEPT ![s] = "err"]
  /\ UNCHANGED <<treeVars, pidVars, written, pipe, chunk, kept, dropped, writer,
                 budgetVars, callerVars, runVars>>

\* write_all ends when everything was taken (or there was no input).
StdinTaken ==
  /\ Listening /\ writer = "writing" /\ writer' = "ok"
  /\ UNCHANGED <<treeVars, pidVars, pipeVars, budgetVars, callerVars, runVars>>

\* ... or with EPIPE, when the program stopped reading before the end.
StdinRefused ==
  /\ Listening /\ "write" \in HostFaults /\ writer = "writing" /\ writer' = "err"
  /\ UNCHANGED <<treeVars, pidVars, pipeVars, budgetVars, callerVars, runVars>>

Reads(s) == ReadChunk(s) \/ Account(s) \/ ReadEof(s)

-----------------------------------------------------------------------------
(* run_child.  One iteration is poll, then decide (drain the channel, test *)
(* for all four results, read the token), then clock; the sleep of 2 ms is *)
(* the gap between two iterations.                                         *)

RunnerFrame == UNCHANGED <<treeVars, pipeVars, writer, budgetVars, callerVars>>

Return(kind, at) ==
  /\ result' = kind /\ stage' = at /\ pc' = "done"

Poll ==
  /\ pc = "poll"
  /\ status' = ~Live(Child)
  /\ reaped' = ~Live(Child)
  /\ cancelTop' = cancelled
  /\ pc' = "decide"
  /\ UNCHANGED <<foreign, strayed, cancelSeen, why, escalated, result, stage>>
  /\ RunnerFrame

\* try_wait failed: returned at once, nothing is cleaned up.
PollFails ==
  /\ pc = "poll" /\ ~status /\ ~Live(Child) /\ "wait" \in HostFaults
  /\ Return("Unknown", "reap")
  /\ UNCHANGED <<pidVars, status, cancelSeen, cancelTop, why, escalated>>
  /\ RunnerFrame

\* Fault: only results without an error are waited for.
AllOk ==
  /\ status /\ writer = "ok"
  /\ \A s \in Streams : reader[s] = "ok"

\* drain: a thread's result is in the channel from the moment it ended.
AllIn ==
  /\ status /\ writer # "writing"
  /\ \A s \in Streams : reader[s] \in {"ok", "err"}

\* completed: a failed thread is reported before the group is looked at.
ThreadFailed ==
  /\ pc = "decide" /\ AllIn
  /\ \/ writer = "err" /\ Return("Unknown", "stdin")
     \/ writer = "ok" /\ "err" \in {reader[s] : s \in Streams}
        /\ Return("Unknown", "capture")
  /\ UNCHANGED <<pidVars, status, cancelSeen, cancelTop, why, escalated>>
  /\ RunnerFrame

ThreadsDone ==
  /\ pc = "decide" /\ AllIn
  /\ writer = "ok" /\ \A s \in Streams : reader[s] = "ok"
  /\ pc' = "sweep"
  /\ UNCHANGED <<pidVars, status, cancelSeen, cancelTop, why, escalated,
                 result, stage>>
  /\ RunnerFrame

ReadToken ==
  /\ pc = "decide" /\ ~AllIn
  /\ cancelSeen' = cancelled
  /\ pc' = "clock"
  /\ UNCHANGED <<pidVars, status, cancelTop, why, escalated, result, stage>>
  /\ RunnerFrame

\* Faults: the deadline is reported although the token was set; any stop is
\* reported as a cancellation.
DeadlineFirst == IF expired THEN "timeout" ELSE "cancel"
AlwaysCancel  == "cancel"
StopReason    == IF cancelSeen THEN "cancel" ELSE "timeout"

ReadClock ==
  /\ pc = "clock"
  /\ IF cancelSeen \/ expired
     THEN pc' = "term" /\ why' = StopReason
     ELSE pc' = "poll" /\ why' = why
  /\ UNCHANGED <<pidVars, status, cancelSeen, cancelTop, escalated, result, stage>>
  /\ RunnerFrame

\* completed: with the results in hand, is the group gone as well?
Sweep ==
  /\ pc = "sweep"
  /\ \E found \in GroupExists :
       IF found THEN pc' = "term" /\ why' = "completed" /\ UNCHANGED <<result, stage>>
                ELSE Return("Completed", "none") /\ why' = why
  /\ UNCHANGED <<pidVars, status, cancelSeen, cancelTop, escalated>>
  /\ RunnerFrame

-----------------------------------------------------------------------------
(* terminate_tree.                                                         *)

\* TERM: the members that do not handle it die, the others may exit later.
Term ==
  /\ pc = "term"
  /\ \E dying \in SUBSET (group \ killed) : Dies(dying)
  /\ strayed' = (strayed \/ foreign)
  /\ pc' = "grace"
  /\ UNCHANGED <<reaped, foreign, pipeVars, writer, budgetVars, callerVars, status,
                 cancelSeen, cancelTop, why, escalated, result, stage>>

\* Fault: a child that is still there is left to its TERM.
TrustTerm(found) == ~Live(Child) /\ found
Escalates(found) == Live(Child) \/ found

\* Up to 100 ms for the child; the wait may end before the child does.
Grace ==
  /\ pc = "grace"
  /\ reaped' = ~Live(Child)
  /\ \E found \in GroupExists : escalated' = Escalates(found)
  /\ pc' = "kill"
  /\ UNCHANGED <<foreign, strayed, status, cancelSeen, cancelTop, why,
                 result, stage>>
  /\ RunnerFrame

\* A killed process can neither fork nor leave: no member escapes a KILL of its
\* group.
Kill ==
  /\ pc = "kill"
  /\ \/ escalated /\ killed' = killed \cup group /\ strayed' = (strayed \/ foreign)
     \/ (~escalated \/ "signal" \in HostFaults) /\ UNCHANGED <<killed, strayed>>
  /\ pc' = "wait"
  /\ UNCHANGED <<proc, group, escaped, holds, reaped, foreign, pipeVars, writer,
                 budgetVars, callerVars, status, cancelSeen, cancelTop,
                 why, escalated, result, stage>>

\* child.wait() has no timeout.
Wait ==
  /\ pc = "wait" /\ ~Live(Child)
  /\ reaped' = TRUE
  /\ pc' = "vanish"
  /\ UNCHANGED <<foreign, strayed, status, cancelSeen, cancelTop, why,
                 escalated, result, stage>>
  /\ RunnerFrame

\* wait() failed: whatever the group does within 500 ms, the answer is an error.
WaitFails ==
  /\ pc = "wait" /\ ~status /\ ~Live(Child) /\ "wait" \in HostFaults
  /\ Return("Unknown", "cleanup")
  /\ UNCHANGED <<pidVars, status, cancelSeen, cancelTop, why, escalated>>
  /\ RunnerFrame

CleanedUp == CASE why = "completed" -> "Completed"
               [] why = "cancel"    -> "StoppedAfterCancel"
               [] OTHER             -> "StoppedAfterTimeout"

\* Fault: descendants that outlive the wait are not reported.
IgnoreLeak(found) == Return(CleanedUp, "none")
Answer(found)     == IF found THEN Return("Unknown", "cleanup") ELSE Return(CleanedUp, "none")

\* Up to 500 ms for the group: found gone, or given up on.
Vanish ==
  /\ pc = "vanish"
  /\ \E found \in GroupExists : Answer(found)
  /\ UNCHANGED <<pidVars, status, cancelSeen, cancelTop, why, escalated>>
  /\ RunnerFrame

Runner ==
  \/ Poll \/ PollFails \/ ThreadFailed \/ ThreadsDone \/ ReadToken
  \/ ReadClock \/ Sweep \/ Term \/ Grace \/ Kill \/ Wait \/ WaitFails \/ Vanish

Tree ==
  \/ \E p \in Procs, k \in Kids : Fork(p, k)
  \/ \E p \in Procs : LeaveGroup(p) \/ JoinGroup(p)
  \/ \E p \in Procs, s \in Streams : Write(p, s) \/ Close(p, s)
  \/ \E p \in Procs : Exit(p)

World ==
  \/ \E p \in Procs : DieOfKill(p)
  \/ ReusePid \/ Cancel \/ Expire

Threads ==
  \/ \E s \in Streams : Reads(s) \/ ReadFails(s)
  \/ StdinTaken \/ StdinRefused

Next == Tree \/ World \/ Threads \/ Runner

(* The capsule's threads and the kernel's killing run on; the program, the *)
(* caller and the clock owe nothing.  A write to a pipe nobody reads fails *)
(* at once, so the stdin thread ends when the tree is gone.                *)
NobodyLeft == \A p \in Procs : ~Live(p)
Fairness ==
  /\ WF_vars(Runner)
  /\ \A s \in Streams : WF_vars(Reads(s))
  /\ \A p \in Procs : WF_vars(DieOfKill(p))
  /\ WF_vars(NobodyLeft /\ (StdinTaken \/ StdinRefused))

Spec     == Init /\ [][Next]_vars
FairSpec == Spec /\ Fairness

-----------------------------------------------------------------------------
(* Properties.                                                             *)

\* The two readers charge one shared budget exactly: what both keep and what
\* is left add up to max_output_bytes, and the receipt's `truncated` is set
\* exactly when some byte of either stream was thrown away (`reader`).
BudgetExact ==
  /\ kept[Stdout] + kept[Stderr] + left = MaxOutput
  /\ truncated <=> dropped[Stdout] + dropped[Stderr] > 0

\* A Completed receipt holds the whole output: both streams were read to the
\* end of what anyone wrote, no process can still write to them, and unless
\* the receipt says truncated every byte is in the capture (`completed`).
CompletedIsWhole ==
  result = "Completed" =>
    /\ status
    /\ \A s \in Streams : kept[s] + dropped[s] = written[s] /\ holds[s] = {}
    /\ ~truncated => \A s \in Streams : kept[s] = written[s]

\* A receipt that claims the run ended (completed, cancelled or timed out) is
\* returned with the child dead, wherever it had moved, and with no descendant
\* alive that never left the child's group, and none appears afterwards.  Who
\* left the group is beyond group_exists and may outlive any answer.
ClaimOwnsNothing == result \in Proven => Owned = {}

\* A token already set when the deciding iteration began is reported as a
\* cancellation even when the deadline has passed too (`run_child`).
CancellationWins == result = "StoppedAfterTimeout" => ~cancelTop

\* The reasons to stop that have arrived.
Asked == (IF cancelled THEN {"cancel"} ELSE {}) \cup
         (IF expired THEN {"timeout"} ELSE {})

Contract == INSTANCE ProcessContract WITH
  Processes <- Procs,
  owned     <- Owned,
  asked     <- Asked,
  outcome   <- result

\* The detailed run is a ProcessPort: it answers once, claims an end only with
\* nothing owned alive and reports only a stop that was asked for.
ImplementsContract == Contract!Spec

\* The deadline and the token are enforced: once either is there the run
\* returns, whatever the descendants do and as long as the child itself stays in
\* its group.  A child that has moved is reached by no signal of
\* terminate_tree, and child.wait() blocks until it ends of itself.
StopIsEnforced == (expired \/ cancelled) ~> (Returned \/ Child \in escaped)

\* A tree that has gone away is noticed without help from the deadline.
GoneTreeReturns == NobodyLeft ~> Returned

\* No signal reaches a process group that is not the child's.
OnlyOwnGroupSignalled == ~strayed
=============================================================================
