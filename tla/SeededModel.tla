----------------------------- MODULE SeededModel -----------------------------
(* The seeded platform that stands for a host in tests: a clock that only   *)
(* requests advance, a generator, a script of lifecycle steps and an        *)
(* injected fault, behind one mutex. The generator is represented by the    *)
(* number of bytes drawn from it.                                           *)
EXTENDS Naturals, FiniteSets, Sequences, SequencesExt, FiniteSetsExt

CONSTANTS
  MaxTime,      \* where the clock saturates
  MaxApplied    \* bound: requests applied

ASSUME SimAssumption == MaxTime \in Nat \ {0} /\ MaxApplied \in Nat

VARIABLES
  sim,      \* the platform, or NoSim
  sReply,   \* the last reply
  sTaken    \* history: the requests that were not refused

simVars == <<sim, sReply, sTaken>>

LifecycleSteps == [at : 1..MaxTime, state : {"suspended", "stopped"}]
LifecycleScripts == {<<>>} \union {<<s>> : s \in LifecycleSteps}
                    \union {<<s, t>> : s, t \in LifecycleSteps}
Faults == {"none", "unsupported", "timer", "entropy", "lifecycle"}
SimRequests ==
  [op : {"timer", "entropy"}, amount : 1..2] \union [op : {"lifecycle", "clock"}, amount : {0}]
NoSim == [left |-> <<>>]

SimInit == sim = NoSim /\ sReply = [op |-> "none"] /\ sTaken = <<>>

\* Steps of a script may stand in any order.
StartSim(script, fault) ==
  /\ sim = NoSim
  /\ sim' = [script |-> script, left |-> script, fault |-> fault,
             mono |-> 0, drawn |-> 0, sequence |-> 0]
  /\ UNCHANGED <<sReply, sTaken>>

\* refuse_injected: advancing the clock is the timer's. A "clock" is a reading of
\* the monotonic clock, which no fault of one port refuses; reading the timer is
\* refused with the timer, and is not among the requests here.
Injected(op) == sim.fault = "unsupported" \/ (sim.fault = op /\ op # "clock")

\* saturating_add
Advanced(amount) == Min({sim.mono + amount, MaxTime})

\* current_lifecycle drops the steps from the front that are due, and
\* answers the state of the one that is next.
\* Fault: a step is due after its time only.
OverdueBy(script) == {i \in DOMAIN script : \A j \in 1..i : script[j].at < sim.mono}
DueIn(script) == {i \in DOMAIN script : \A j \in 1..i : script[j].at <= sim.mono}
Remaining == SubSeq(sim.left, Max(DueIn(sim.left) \union {0}) + 1, Len(sim.left))
StateOf(script) == IF script = <<>> THEN "ready" ELSE Head(script).state

(* Every request takes a number, the refused ones too.                      *)
Apply(request) ==
  /\ sim # NoSim /\ sim.sequence < MaxApplied
  /\ LET counted == [sim EXCEPT !.sequence = @ + 1] IN
     IF Injected(request.op)
       THEN sim' = counted /\ sReply' = [op |-> "refused"] /\ sTaken' = sTaken
       ELSE /\ sTaken' = Append(sTaken, request)
            /\ CASE request.op = "timer" ->
                      /\ sim' = [counted EXCEPT !.mono = Advanced(request.amount)]
                      /\ sReply' = [op |-> "clock", value |-> Advanced(request.amount)]
                 [] request.op = "clock" ->
                      /\ sim' = counted
                      /\ sReply' = [op |-> "clock", value |-> sim.mono]
                 [] request.op = "entropy" ->
                      /\ sim' = [counted EXCEPT !.drawn = @ + request.amount]
                      /\ sReply' = [op |-> "entropy", value |-> sim.drawn]
                 [] request.op = "lifecycle" ->
                      /\ sim' = [counted EXCEPT !.left = Remaining]
                      /\ sReply' = [op |-> "lifecycle", value |-> StateOf(Remaining)]

SimNext ==
  \/ \E script \in LifecycleScripts, fault \in Faults : StartSim(script, fault)
  \/ \E request \in SimRequests : Apply(request)

SimSpec == SimInit /\ [][SimNext]_simVars

-----------------------------------------------------------------------------
SimTypeOK ==
  sim # NoSim => /\ sim.mono \in 0..MaxTime /\ sim.sequence \in 0..MaxApplied
                 /\ sim.left \in Suffixes(sim.script)

(* A reply is a function of the configuration and the requests that were    *)
(* taken before it: the clock is what the taken advances add up to, the     *)
(* entropy begins where the taken draws end, and the lifecycle is that of   *)
(* the time alone, however often it was asked for before and in whatever    *)
(* order the script has its steps. Refused requests leave no trace but      *)
(* their number.                                                            *)
Units(op) ==
  {u \in (DOMAIN sTaken) \X (1..2) : sTaken[u[1]].op = op /\ u[2] <= sTaken[u[1]].amount}
Total(op) == Cardinality(Units(op))
AtTime(script) ==
  LET later == {i \in DOMAIN script : script[i].at > sim.mono} IN
  IF later = {} THEN "ready" ELSE script[Min(later)].state
RepliesReplay ==
  sim # NoSim =>
    /\ sim.mono = Min({Total("timer"), MaxTime}) /\ sim.drawn = Total("entropy")
    /\ sReply.op = "clock" => sReply.value = sim.mono
    /\ sReply.op = "entropy" => sReply.value + Last(sTaken).amount = sim.drawn
    /\ sReply.op = "lifecycle" => sReply.value = AtTime(sim.script)
    /\ Len(sTaken) <= sim.sequence
=============================================================================
