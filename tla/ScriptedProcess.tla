--------------------------- MODULE ScriptedProcess ---------------------------
(* The modelled process port: runs of several threads are answered from one *)
(* script. A run logs its request under one mutex, reads its token, and     *)
(* takes an outcome under another: the two orders may differ. A request is  *)
(* represented by its place in the log.                                     *)
EXTENDS Naturals, Sequences, SequencesExt, FiniteSetsExt

CONSTANTS
  Runners,       \* threads that run processes
  ScriptLength,  \* bound: outcomes of a script
  MaxOutput,     \* bound: bytes of a stream, and of a budget
  MaxRuns        \* bound: runs of all threads

ASSUME ScriptAssumption == ScriptLength \in Nat /\ MaxOutput \in Nat /\ MaxRuns \in Nat

VARIABLES
  outcomes,   \* outcomes that are left
  log,        \* number of requests logged
  runs,       \* per thread, the request it runs and its budget, or NoRun
  script,     \* history: the outcomes at first
  answers     \* history: the answers, in the order of the outcomes

scriptVars == <<outcomes, log, runs, script, answers>>

NoRun == [request |-> 0, budget |-> 0]

\* A stream is text in UTF-8: its bytes, and those at which a character ends,
\* of one to four bytes each.
Streams ==
  {s \in [bytes : 0..MaxOutput, ends : SUBSET (1..MaxOutput)] :
     /\ s.ends \subseteq 1..s.bytes
     /\ \A b \in 1..s.bytes : \E e \in s.ends : b <= e /\ e <= b + 3}
ExitOutcomes == [end : {"exit"}, late : BOOLEAN, out : Streams, err : Streams]
OtherOutcomes == {"refused", "spawn-failed", "timeout", "cancelled", "unknown"}
ScriptOutcomes == ExitOutcomes \union [end : OtherOutcomes]

ScriptInit ==
  /\ script = <<>> /\ outcomes = <<>>
  /\ log = 0 /\ runs = [r \in Runners |-> NoRun] /\ answers = <<>>

\* The script is made before the first run.
AddOutcome(outcome) ==
  /\ log = 0 /\ Len(script) < ScriptLength
  /\ script' = Append(script, outcome) /\ outcomes' = script'
  /\ UNCHANGED <<log, runs, answers>>

LogRequest(r, budget) ==
  /\ runs[r] = NoRun /\ log < MaxRuns
  /\ log' = log + 1
  /\ runs' = [runs EXCEPT ![r] = [request |-> log + 1, budget |-> budget]]
  /\ UNCHANGED <<outcomes, script, answers>>

\* A token that is set is found before an outcome is taken.
CancelledBefore(r) ==
  /\ runs[r] # NoRun /\ runs' = [runs EXCEPT ![r] = NoRun]
  /\ UNCHANGED <<outcomes, log, script, answers>>

(* from_utf8_lossy of the first k bytes: the characters that end in them,   *)
(* and a replacement of three bytes for one that was cut.                   *)
Text(s, k) ==
  [chars |-> s.ends \intersect (1..k), replaced |-> k \notin (s.ends \union {0})]
Whole(s) == [chars |-> s.ends, replaced |-> FALSE]
GivenBytes(text) ==
  Max(text.chars \union {0}) + (IF text.replaced THEN 3 ELSE 0)

(* cap: what stdout leaves of the budget is for stderr. Both are converted  *)
(* after they were cut.                                                     *)
\* Fault: each stream has the whole budget.
BudgetEach(budget, kept) == budget
LeftOver(budget, kept) == budget - kept
Capped(outcome, budget) ==
  LET out == Min({outcome.out.bytes, budget})
      err == Min({outcome.err.bytes, LeftOver(budget, out)}) IN
  [end |-> "completed", out |-> Text(outcome.out, out), err |-> Text(outcome.err, err),
   truncated |-> outcome.out.bytes + outcome.err.bytes > budget]
Answer(outcome, budget) ==
  CASE outcome.end # "exit" -> [end |-> outcome.end]
    [] outcome.end = "exit" /\ outcome.late -> [end |-> "timeout"]
    [] outcome.end = "exit" /\ ~outcome.late -> Capped(outcome, budget)

TakeOutcome(r) ==
  /\ runs[r] # NoRun
  /\ IF outcomes = <<>>
       THEN UNCHANGED <<outcomes, answers>>
       ELSE /\ outcomes' = Tail(outcomes)
            /\ answers' = Append(answers, [request |-> runs[r].request,
                                           budget |-> runs[r].budget,
                                           answer |-> Answer(Head(outcomes), runs[r].budget)])
  /\ runs' = [runs EXCEPT ![r] = NoRun]
  /\ UNCHANGED <<log, script>>

ScriptNext ==
  \/ \E outcome \in ScriptOutcomes : AddOutcome(outcome)
  \/ \E r \in Runners :
       \/ \E budget \in 0..MaxOutput : LogRequest(r, budget)
       \/ CancelledBefore(r) \/ TakeOutcome(r)

ScriptSpec == ScriptInit /\ [][ScriptNext]_scriptVars

-----------------------------------------------------------------------------
ScriptTypeOK ==
  /\ outcomes \in Suffixes(script) /\ log \in 0..MaxRuns
  /\ \A r \in Runners : runs[r].request \in 0..log /\ runs[r].budget \in 0..MaxOutput

(* Whatever the threads, each outcome answers one run, in the order of the  *)
(* script, and no run has two. A run that is answered as completed ended in *)
(* time, is told that it was truncated exactly when its two texts are not   *)
(* those of the script, and what it is given keeps to its budget but for    *)
(* the replacement of one character that was cut, two bytes at most: never  *)
(* is one cut in either stream.                                             *)
ScriptIsFollowed ==
  /\ SubSeq(script, Len(answers) + 1, Len(script)) = outcomes
  /\ \A i, j \in DOMAIN answers : answers[i].request = answers[j].request => i = j
  /\ \A i \in DOMAIN answers :
       LET given == answers[i].answer IN
       /\ \A r \in Runners : runs[r].request # answers[i].request
       /\ given.end = "completed" =>
            /\ ~script[i].late
            /\ given.truncated <=> \/ given.out # Whole(script[i].out)
                                   \/ given.err # Whole(script[i].err)
            /\ GivenBytes(given.out) + GivenBytes(given.err)
                 <= answers[i].budget + (IF given.truncated THEN 2 ELSE 0)
=============================================================================
