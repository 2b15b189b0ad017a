----------------------------- MODULE LocalCheck -----------------------------
(***************************************************************************)
(* The local check adapter on Ubuntu: operations on one installed command, *)
(* performed over the process port or the bubblewrap launcher, observed by *)
(* their output files, with the process of the adapter crashing anywhere.  *)
(*                                                                         *)
(* The journal and its lifecycle (observe, persist a dispatch, perform,    *)
(* persist the receipt, observe, persist the outcome) are external, and so *)
(* is the program: it writes and spoils its outputs while it runs.  How a  *)
(* run ends is what ProcessContract promises of run_child.                 *)
(***************************************************************************)
EXTENDS Naturals, FiniteSets

CONSTANTS
  Operations,     \* requests of the command, each with an intent of its own
  Commands,       \* the commands one of which is installed
  MaxDispatches,  \* bound: dispatches in a behaviour
  None            \* no record, no operation, no observation

Routes == {"process", "sandbox"}
Files == {"absent", "partial", "right", "elsewhere"}
\* OutputState: what an expectation accepts.  A path that leads out of its root
\* cannot be observed at all.
Accepts ==
  [nothing |-> Files, exists |-> {"partial", "right"}, absent |-> {"absent"},
   content |-> {"right"}]

Outcomes == {"already-true", "verified", "diverged"}
\* How the run of a dispatch ended, and whether its scratch was emptied.
Ends == [end : {"completed", "stopped", "refused", "unknown"}, good : BOOLEAN,
         within : BOOLEAN, swept : BOOLEAN]

ASSUME CheckAssumption ==
  /\ Commands \subseteq [route : Routes, replay : {"idempotent", "exactly-once"},
                         expects : DOMAIN Accepts, invocable : BOOLEAN]
  /\ MaxDispatches \in Nat
  /\ None \notin Operations \cup Outcomes \cup Ends \cup {"good", "bad"}

VARIABLES
  command,     \* the installed command
  journal,     \* what is durable of every operation
  adapter,     \* the call the adapter is in, lost by a crash
  executions,  \* the adapter's records by dispatch, lost by a crash
  running,     \* dispatches whose program, or part of it, is at work
  file,        \* the output file
  scratch,     \* whether the scratch resources hold anything
  ran,         \* history: how the run of a dispatch ended
  unaccounted  \* history: dispatches whose end no answer vouched for

checkVars == <<command, journal, adapter, executions, running, file, scratch, ran,
               unaccounted>>

Dispatches == 1 .. MaxDispatches
Exits == {"good", "bad", None}
Records == [exit : Exits, cleanup : BOOLEAN, bounded : BOOLEAN]

Entries == [dispatch : 0 .. MaxDispatches, receipt : BOOLEAN,
            outcome : Outcomes \cup {None}]
Places == {"idle", "observe", "perform", "run", "clean", "record", "receipt", "answer"}
Adapters == [at : Places, op : Operations \cup {None}, record : Records \cup {None},
             outputs : {"complete", "incomplete", "failed", None}]

Idle == [at |-> "idle", op |-> None, record |-> None, outputs |-> None]

CheckTypeOK ==
  /\ command \in Commands
  /\ journal \in [Operations -> Entries]
  /\ adapter \in Adapters
  /\ executions \in [Dispatches -> Records \cup {None}]
  /\ running \subseteq Dispatches /\ unaccounted \subseteq Dispatches
  /\ file \in Files /\ scratch \in BOOLEAN
  /\ ran \in [Dispatches -> Ends \cup {None}]
  /\ \A d \in Dispatches : executions[d] # None => ran[d] # None
  /\ \A o \in Operations : journal[o].receipt => journal[o].dispatch # 0
  /\ adapter.at \in {"perform", "run", "clean", "record", "receipt"} =>
       /\ journal[adapter.op].dispatch # 0
       /\ executions[journal[adapter.op].dispatch] # None => adapter.at = "receipt"

CheckInit ==
  /\ command \in Commands
  /\ journal = [o \in Operations |-> [dispatch |-> 0, receipt |-> FALSE, outcome |-> None]]
  /\ adapter = Idle
  /\ executions = [d \in Dispatches |-> None]
  /\ running = {} /\ file \in Files /\ scratch \in BOOLEAN
  /\ ran = [d \in Dispatches |-> None]
  /\ unaccounted = {}

Op == adapter.op
Last == journal[Op].dispatch
Used == Cardinality({d \in Dispatches : \E o \in Operations : d <= journal[o].dispatch})
Goto(place) == adapter' = [adapter EXCEPT !.at = place]
World == <<command, running, file, scratch, unaccounted>>

\* run and check: an operation whose outcome is durable is answered from the
\* journal; any other one is taken up where the journal left it.
Run(o) ==
  /\ adapter = Idle /\ journal[o].outcome = None
  /\ adapter' = [adapter EXCEPT !.at = "observe", !.op = o]
  /\ UNCHANGED <<journal, executions, ran, World>>

(***************************************************************************)
(* The observer: first the output files, then the adapter's record.        *)
(***************************************************************************)
Outputs ==
  CASE command.expects = "nothing" -> "complete"
    [] file = "elsewhere" -> "failed"
    [] OTHER -> IF file \in Accepts[command.expects] THEN "complete" ELSE "incomplete"

ObserveOutputs ==
  /\ adapter.at = "observe"
  /\ adapter' = [adapter EXCEPT !.at = "answer", !.outputs = Outputs]
  /\ UNCHANGED <<journal, executions, ran, World>>

\* Fault: an incomplete record is taken for a failed check, not for an unknown one.
Disproved(r) == FALSE
Unavailable(r) == ~r.bounded \/ ~r.cleanup

Response ==
  LET r == IF Last = 0 THEN None ELSE executions[Last] IN
  CASE adapter.outputs = "failed" -> "unavailable"
    [] adapter.outputs # "failed" /\ r = None ->
         IF adapter.outputs = "complete" /\ command.expects # "nothing"
         THEN "satisfied" ELSE "not-satisfied"
    [] OTHER ->
         IF Unavailable(r) THEN "unavailable"
         ELSE IF r.exit = "good" /\ adapter.outputs = "complete"
         THEN "satisfied" ELSE "not-satisfied"

Persist(outcome) == journal' = [journal EXCEPT ![Op].outcome = outcome]

\* The lifecycle answers AlreadyTrue for what holds before any dispatch, Verified
\* or Diverged for what its observer tells afterwards.
Conclude ==
  /\ adapter.at = "answer"
  /\ \/ Response = "satisfied" /\ Persist(IF Last = 0 THEN "already-true" ELSE "verified")
     \/ Response = "not-satisfied" /\ journal[Op].receipt /\ Persist("diverged")
  /\ adapter' = Idle
  /\ UNCHANGED <<executions, ran, World>>

\* Whether the lifecycle performs: first, or again what may be done again.
Performs ==
  Response = "not-satisfied" /\ ~journal[Op].receipt
    /\ (Last = 0 \/ command.replay = "idempotent")

Dispatch ==
  /\ adapter.at = "answer" /\ Performs /\ Used < MaxDispatches
  /\ journal' = [journal EXCEPT ![Op].dispatch = Used + 1]
  /\ adapter' = [adapter EXCEPT !.at = "perform", !.outputs = None]
  /\ UNCHANGED <<executions, ran, World>>

\* Anything else is answered Uncertain and may be run again.
Uncertain ==
  /\ adapter.at = "answer"
  /\ \/ Response = "unavailable"
     \/ Response = "not-satisfied" /\ ~journal[Op].receipt /\ ~Performs
  /\ adapter' = Idle
  /\ UNCHANGED <<journal, executions, ran, World>>

(***************************************************************************)
(* The performer.                                                          *)
(***************************************************************************)
\* A command that yields no arguments leaves a receipt and no record.
PerformInvalid ==
  /\ adapter.at = "perform" /\ ~command.invocable
  /\ Goto("receipt")
  /\ UNCHANGED <<journal, executions, ran, World>>

Spawn ==
  /\ adapter.at = "perform" /\ command.invocable
  /\ running' = running \cup {Last}
  /\ Goto("run")
  /\ UNCHANGED <<command, journal, executions, file, scratch, ran, unaccounted>>

\* record_process and record_sandbox.
Record(end, exit, bounded) ==
  [exit |-> IF end = "completed" THEN exit ELSE None,
   cleanup |-> end # "unknown" /\ (end = "completed" => command.route = "sandbox"),
   bounded |-> end # "unknown" /\ (end = "completed" => bounded)]

Ended(end, exit, bounded, within) ==
  /\ adapter' = [adapter EXCEPT !.at = "clean", !.record = Record(end, exit, bounded)]
  /\ ran' = [ran EXCEPT ![Last] = [end |-> end, good |-> exit = "good",
                                   within |-> within, swept |-> FALSE]]

\* The program, its launcher, a mount or a root is missing, or the spawn fails.
SpawnRefused ==
  /\ adapter.at = "perform" /\ command.invocable
  /\ Ended("refused", None, TRUE, TRUE)
  /\ UNCHANGED <<journal, executions, World>>

\* Fault: what the program wrote beyond its budget or its limits is not counted.
AllWithin(truncated, usage) == ~truncated

\* A completed run: output not truncated and, in the sandbox, the use of the
\* writable roots observed and within the limits.
Within(truncated, usage) ==
  ~truncated /\ (command.route = "sandbox" => usage = "small")

RunCompletes(exit, truncated, usage) ==
  /\ adapter.at = "run"
  /\ Ended("completed", exit, Within(truncated, usage), ~truncated /\ usage = "small")
  /\ running' = running \ {Last}
  /\ UNCHANGED <<command, journal, executions, file, scratch, unaccounted>>

\* Timeout or cancellation.
RunStops ==
  /\ adapter.at = "run"
  /\ Ended("stopped", None, TRUE, TRUE)
  /\ running' = running \ {Last}
  /\ UNCHANGED <<command, journal, executions, file, scratch, unaccounted>>

RunUnknown(left) ==
  /\ adapter.at = "run"
  /\ Ended("unknown", None, FALSE, TRUE)
  /\ running' = IF left THEN running ELSE running \ {Last}
  /\ unaccounted' = unaccounted \cup {Last}
  /\ UNCHANGED <<command, journal, executions, file, scratch>>

\* Fault: scratch resources that could not be emptied count as empty.
Taken(swept) == adapter.record

Proven(swept) == [adapter.record EXCEPT !.cleanup = @ /\ swept]

CleanScratch(swept) ==
  /\ adapter.at = "clean"
  /\ scratch' = IF swept THEN FALSE ELSE scratch
  /\ adapter' = [adapter EXCEPT !.at = "record", !.record = Proven(swept)]
  /\ ran' = [ran EXCEPT ![Last].swept = swept]
  /\ UNCHANGED <<command, journal, executions, running, file, unaccounted>>

\* Fault: the record is kept under the number of the operation's first dispatch.
OfFirst == 1
Recorded == Last

InsertRecord ==
  /\ adapter.at = "record"
  /\ executions' = [executions EXCEPT ![Recorded] = adapter.record]
  /\ adapter' = [adapter EXCEPT !.at = "receipt", !.record = None]
  /\ UNCHANGED <<journal, ran, World>>

PersistReceipt ==
  /\ adapter.at = "receipt"
  /\ journal' = [journal EXCEPT ![Op].receipt = TRUE]
  /\ Goto("observe")
  /\ UNCHANGED <<executions, ran, World>>

(***************************************************************************)
(* The world.                                                              *)
(***************************************************************************)
\* A program at work writes, removes or replaces its output and uses scratch.
Work(f) ==
  /\ running # {} /\ file # f
  /\ file' = f /\ scratch' = TRUE
  /\ UNCHANGED <<command, journal, adapter, executions, running, ran, unaccounted>>

ProgramEnds(d) ==
  /\ d \in running /\ ~(adapter.at = "run" /\ d = Last)
  /\ running' = running \ {d}
  /\ UNCHANGED <<command, journal, adapter, executions, file, scratch, ran, unaccounted>>

\* Somebody else brings the checkout to another state between calls.
Edit(f) ==
  /\ adapter.at = "idle" /\ running = {} /\ file # f
  /\ file' = f
  /\ UNCHANGED <<command, journal, adapter, executions, running, scratch, ran, unaccounted>>

\* Fault: bwrap is started without --die-with-parent.
Orphans == IF adapter.at = "run" THEN {Last} ELSE {}

\* What a crash of the adapter leaves at work: with --die-with-parent nothing of
\* a sandbox, of the process port's child everything.
Survivors == IF command.route = "process" THEN Orphans ELSE {}

Crash ==
  /\ adapter.at # "idle" \/ \E d \in Dispatches : executions[d] # None
  /\ adapter' = Idle
  /\ executions' = [d \in Dispatches |-> None]
  /\ running' = IF adapter.at = "run" THEN (running \ {Last}) \cup Survivors ELSE running
  /\ unaccounted' = IF command.route = "process" THEN unaccounted \cup Orphans
                    ELSE unaccounted
  /\ UNCHANGED <<command, journal, file, scratch, ran>>

CheckNext ==
  \/ \E o \in Operations : Run(o)
  \/ ObserveOutputs \/ Conclude \/ Dispatch \/ Uncertain
  \/ PerformInvalid \/ Spawn \/ SpawnRefused
  \/ \E exit \in {"good", "bad"}, truncated \in BOOLEAN,
        usage \in {"small", "large", "unobserved"} : RunCompletes(exit, truncated, usage)
  \/ RunStops
  \/ \E left \in BOOLEAN : RunUnknown(left)
  \/ \E swept \in BOOLEAN : CleanScratch(swept)
  \/ InsertRecord \/ PersistReceipt
  \/ \E f \in Files : Work(f) \/ Edit(f)
  \/ \E d \in Dispatches : ProgramEnds(d)
  \/ Crash

CheckSpec == CheckInit /\ [][CheckNext]_checkVars

(***************************************************************************)
(* Properties.                                                             *)
(***************************************************************************)
\* An operation gets its outcome - true before its dispatch, verified or diverged
\* after it - only while no program works on the outputs, crashes of the adapter
\* included when the program is in the sandbox.  The exceptions are runs nobody
\* vouched for: the answer Unknown, and the process port's child after a crash.
QuietVerdicts ==
  [][\A o \in Operations :
       journal'[o].outcome # journal[o].outcome => running \subseteq unaccounted]_checkVars

\* As long as the adapter remembers the dispatch of an operation, it verifies
\* only what completed in the sandbox with an accepted exit code, within all
\* limits and with its scratch resources emptied, and it never reports a run
\* with an unknown end or uncleaned scratch as a failed check.
VerdictsMatchRuns ==
  \A o \in Operations :
    LET d == journal[o].dispatch IN
    d # 0 /\ executions[d] # None =>
      /\ journal[o].outcome = "verified" =>
           /\ command.route = "sandbox"
           /\ ran[d] = [end |-> "completed", good |-> TRUE, within |-> TRUE, swept |-> TRUE]
      /\ journal[o].outcome = "diverged" => ran[d].end # "unknown" /\ ran[d].swept
=============================================================================
