-------------------------- MODULE LocalCheckProofs --------------------------
(* A verdict is about a finished run: of every number of operations, of     *)
(* dispatches and of kinds of command.                                      *)
(*                                                                          *)
(* A record speaks for the run of its own dispatch because no two operations *)
(* share a dispatch and none is ever used again; whatever is at work outside *)
(* the call the adapter waits in is nobody's answer.                        *)
EXTENDS LocalCheck, FiniteSetTheorems, TLAPS

\* What a record claims of a run, except for the scratch resources.
Claims(record, end) ==
  /\ end.end = "unknown" => ~record.bounded /\ ~record.cleanup
  /\ record.exit = "good" => end.end = "completed" /\ end.good
  /\ record.exit = "good" /\ record.cleanup => command.route = "sandbox"
  /\ record.exit = "good" /\ record.bounded /\ command.route = "sandbox" => end.within

Swept(record, end) == record.cleanup => end.swept

\* The adapter is in a call of an operation without an outcome, or in none.
Engaged ==
  /\ adapter.at = "idle" => adapter = Idle
  /\ adapter.at # "idle" => Op \in Operations /\ journal[Op].outcome = None

OwnDispatches ==
  \A o, p \in Operations :
    journal[o].dispatch # 0 /\ journal[o].dispatch = journal[p].dispatch => o = p

\* Nothing is kept of a dispatch that was not used yet.
RecordsUsed ==
  \A d \in Dispatches :
    executions[d] # None => \E o \in Operations : d <= journal[o].dispatch

RecordsTrue ==
  \A d \in Dispatches :
    executions[d] # None =>
      /\ executions[d] \in Records /\ ran[d] \in Ends
      /\ Claims(executions[d], ran[d]) /\ Swept(executions[d], ran[d])

InHand ==
  /\ adapter.at \in {"clean", "record"} =>
       adapter.record \in Records /\ ran[Last] \in Ends /\ Claims(adapter.record, ran[Last])
  /\ adapter.at = "record" => Swept(adapter.record, ran[Last])

\* Outside the call that waits for it, only what nobody vouched for is at work.
AtWork == running \subseteq unaccounted \cup (IF adapter.at = "run" THEN {Last} ELSE {})

CheckInv ==
  /\ CheckTypeOK /\ Engaged /\ OwnDispatches /\ RecordsUsed /\ RecordsTrue /\ InHand
  /\ AtWork /\ VerdictsMatchRuns

(***************************************************************************)
(* Dispatch numbers.                                                       *)
(***************************************************************************)
\* As many numbers are used as the largest one in the journal.
LEMMA UsedBounds ==
  ASSUME journal \in [Operations -> Entries]
  PROVE  /\ Used \in Nat
         /\ Used <= MaxDispatches
         /\ \A o \in Operations : journal[o].dispatch <= Used
<1> DEFINE Upto(n) == 1 .. n
<1>1. \A n \in Nat : IsFiniteSet(Upto(n)) /\ Cardinality(Upto(n)) = n
  <2>1. SUFFICES ASSUME NEW n \in Nat
                 PROVE  IsFiniteSet(1 .. n) /\ Cardinality(1 .. n) = n
    OBVIOUS
  <2>2. 1 \in Int /\ n \in Int
    BY <2>1
  <2>3. IsFiniteSet(1 .. n) /\ Cardinality(1 .. n) = IF 1 > n THEN 0 ELSE n - 1 + 1
    BY <2>2, FS_Interval, Zenon
  <2> QED
    BY <2>1, <2>3
<1> DEFINE Covered == {d \in Dispatches : \E o \in Operations : d <= journal[o].dispatch}
<1>2. MaxDispatches \in Nat /\ Dispatches = Upto(MaxDispatches) /\ Used = Cardinality(Covered)
  BY CheckAssumption DEF Dispatches, Used
<1>3. Covered \in SUBSET Upto(MaxDispatches)
  BY <1>2
<1>4. IsFiniteSet(Covered) /\ Used <= MaxDispatches
  <2>1. IsFiniteSet(Upto(MaxDispatches)) /\ Cardinality(Upto(MaxDispatches)) = MaxDispatches
    BY <1>1, <1>2
  <2> HIDE DEF Upto, Covered
  <2>2. IsFiniteSet(Covered) /\ Cardinality(Covered) <= Cardinality(Upto(MaxDispatches))
    BY <2>1, <1>3, FS_Subset
  <2> QED
    BY <2>1, <2>2, <1>2
<1>5. Used \in Nat
  <2> HIDE DEF Covered
  <2> QED
    BY <1>2, <1>4, FS_CardinalityType
<1>6. ASSUME NEW o \in Operations
      PROVE  journal[o].dispatch <= Used
  <2>1. journal[o].dispatch \in 0 .. MaxDispatches
    BY DEF Entries
  <2>2. journal[o].dispatch \in Nat
    BY <2>1, <1>2
  <2>3. Upto(journal[o].dispatch) \in SUBSET Covered
    BY <2>1, <2>2, <1>2
  <2>4. Cardinality(Upto(journal[o].dispatch)) = journal[o].dispatch
    BY <2>2, <1>1
  <2> HIDE DEF Upto, Covered
  <2>5. Cardinality(Upto(journal[o].dispatch)) <= Cardinality(Covered)
    BY <2>3, <1>4, FS_Subset
  <2> QED
    BY <2>4, <2>5, <1>2
<1> QED
  BY <1>4, <1>5, <1>6

\* The next number is one of the bound's, and nothing is known under it yet.
LEMMA NextIsFresh ==
  ASSUME CheckTypeOK, RecordsUsed, Used < MaxDispatches
  PROVE  /\ Used + 1 \in Dispatches
         /\ \A o \in Operations : journal[o].dispatch \in Nat /\ journal[o].dispatch < Used + 1
         /\ executions[Used + 1] = None
<1>1. /\ Used \in Nat /\ MaxDispatches \in Nat
      /\ \A o \in Operations : journal[o].dispatch \in Nat /\ journal[o].dispatch <= Used
  BY UsedBounds, CheckAssumption DEF CheckTypeOK, Entries
<1> HIDE DEF Used
<1>2. Used + 1 \in Dispatches
  BY <1>1 DEF Dispatches
<1>3. executions[Used + 1] = None
  <2>1. ASSUME executions[Used + 1] # None
        PROVE  FALSE
    <3>1. PICK o \in Operations : Used + 1 <= journal[o].dispatch
      BY <1>2, <2>1 DEF RecordsUsed
    <3> QED
      BY <1>1, <3>1
  <2> QED
    BY <2>1
<1> QED
  BY <1>1, <1>2, <1>3

(***************************************************************************)
(* The initial states, and what most steps leave alone.                    *)
(***************************************************************************)
LEMMA CheckInvInit ==
  ASSUME CheckInit
  PROVE  CheckInv
<1> USE CheckAssumption DEF CheckInit, Idle
<1>1. CheckTypeOK
  BY DEF CheckTypeOK, Entries, Adapters, Places, Dispatches
<1>2. Engaged /\ OwnDispatches /\ RecordsUsed /\ RecordsTrue /\ InHand /\ AtWork
  BY DEF Engaged, OwnDispatches, RecordsUsed, RecordsTrue, InHand, AtWork
<1>3. VerdictsMatchRuns
  BY DEF VerdictsMatchRuns
<1> QED
  BY <1>1, <1>2, <1>3 DEF CheckInv

\* Most steps touch neither what is durable nor what is known of the runs.
LEMMA KnowledgeKept ==
  ASSUME CheckInv, UNCHANGED <<command, journal, executions, ran>>
  PROVE  OwnDispatches' /\ RecordsUsed' /\ RecordsTrue' /\ VerdictsMatchRuns'
BY DEF CheckInv, OwnDispatches, RecordsUsed, RecordsTrue, VerdictsMatchRuns, Claims, Swept,
       Records, Ends

\* A step of the adapter alone, between calls that hold no record.
LEMMA AdapterAlone ==
  ASSUME CheckInv, UNCHANGED <<command, journal, executions, running, file, scratch, ran,
                               unaccounted>>,
         adapter.at # "run", adapter' \in Adapters,
         adapter'.at \in {"idle", "observe", "receipt", "answer"},
         adapter'.at = "receipt" => Last' # 0,
         Engaged'
  PROVE  CheckInv'
<1>1. CheckTypeOK'
  BY DEF CheckInv, CheckTypeOK, Op, Last
<1>2. InHand' /\ AtWork'
  BY DEF CheckInv, InHand, AtWork
<1> QED
  BY <1>1, <1>2, KnowledgeKept DEF CheckInv

(***************************************************************************)
(* The observer and the lifecycle.                                         *)
(***************************************************************************)
LEMMA InvRun ==
  ASSUME CheckInv, NEW o \in Operations, Run(o)
  PROVE  CheckInv'
<1>1. adapter.at = "idle" /\ adapter = Idle /\ adapter' \in Adapters
  BY DEF Run, Idle, CheckInv, CheckTypeOK, Adapters, Places
<1>2. adapter'.at = "observe" /\ adapter'.op = o
  BY <1>1 DEF Run, Idle
<1>3. Engaged'
  BY <1>1, <1>2 DEF Engaged, Run, Op
<1> QED
  BY <1>1, <1>2, <1>3, AdapterAlone DEF Run, World

LEMMA InvObserveOutputs ==
  ASSUME CheckInv, ObserveOutputs
  PROVE  CheckInv'
<1>1. adapter.at = "observe" /\ adapter \in Adapters
  BY DEF ObserveOutputs, CheckInv, CheckTypeOK
<1>2. Outputs \in {"complete", "incomplete", "failed"}
  BY DEF Outputs
<1>3. adapter' \in Adapters /\ adapter'.at = "answer" /\ adapter'.op = adapter.op
  BY <1>1, <1>2 DEF ObserveOutputs, Adapters, Places
<1>4. Engaged'
  BY <1>1, <1>3 DEF Engaged, ObserveOutputs, Op, CheckInv
<1> QED
  BY <1>1, <1>3, <1>4, AdapterAlone DEF ObserveOutputs, World

LEMMA InvUncertain ==
  ASSUME CheckInv, Uncertain
  PROVE  CheckInv'
<1>1. adapter.at = "answer" /\ adapter' = Idle /\ Idle.at = "idle" /\ Idle \in Adapters
  BY DEF Uncertain, Idle, Adapters, Places
<1>2. Engaged'
  BY <1>1 DEF Engaged
<1> QED
  BY <1>1, <1>2, AdapterAlone DEF Uncertain, World

\* What the observer answers with a record of the operation's dispatch in hand.
LEMMA ResponseWithRecord ==
  ASSUME Last # 0, executions[Last] # None
  PROVE  /\ Response # "unavailable" => executions[Last].bounded /\ executions[Last].cleanup
         /\ Response = "satisfied" => executions[Last].exit = "good"
BY DEF Response, Unavailable

LEMMA InvConclude ==
  ASSUME CheckInv, Conclude
  PROVE  CheckInv'
<1>1. /\ adapter.at = "answer" /\ adapter' = Idle /\ Idle.at = "idle" /\ Idle \in Adapters
      /\ Op \in Operations /\ journal \in [Operations -> Entries]
      /\ UNCHANGED <<command, running, file, scratch, unaccounted, executions, ran>>
  BY DEF Conclude, Idle, Adapters, Places, CheckInv, CheckTypeOK, Engaged, World
<1>2. PICK outcome \in Outcomes :
        /\ journal' = [journal EXCEPT ![Op].outcome = outcome]
        /\ \/ Response = "satisfied" /\ outcome # "diverged"
           \/ Response = "not-satisfied" /\ outcome = "diverged"
  BY DEF Conclude, Persist, Outcomes
<1>3. /\ journal' \in [Operations -> Entries]
      /\ \A o \in Operations : /\ journal'[o].dispatch = journal[o].dispatch
                               /\ journal'[o].receipt = journal[o].receipt
                               /\ o # Op => journal'[o] = journal[o]
      /\ journal'[Op].outcome = outcome
  BY <1>1, <1>2 DEF Entries
<1>4. CheckTypeOK'
  BY <1>1, <1>3 DEF CheckInv, CheckTypeOK
<1>5. Engaged' /\ InHand' /\ AtWork'
  BY <1>1 DEF Engaged, InHand, AtWork, CheckInv
<1>6. OwnDispatches' /\ RecordsUsed' /\ RecordsTrue'
  BY <1>1, <1>3 DEF OwnDispatches, RecordsUsed, RecordsTrue, Claims, Swept, Records, Ends, CheckInv
<1>7. VerdictsMatchRuns'
  <2> SUFFICES ASSUME NEW o \in Operations,
                      journal[o].dispatch # 0, executions[journal[o].dispatch] # None
               PROVE  LET d == journal[o].dispatch IN
                      /\ journal'[o].outcome = "verified" =>
                           /\ command.route = "sandbox"
                           /\ ran[d] = [end |-> "completed", good |-> TRUE,
                                        within |-> TRUE, swept |-> TRUE]
                      /\ journal'[o].outcome = "diverged" => ran[d].end # "unknown" /\ ran[d].swept
    BY <1>1, <1>3 DEF VerdictsMatchRuns
  <2>1. CASE o # Op
    BY <2>1, <1>3 DEF VerdictsMatchRuns, CheckInv
  <2>2. CASE o = Op
    <3> DEFINE d == journal[o].dispatch
    <3>1. d = Last /\ d \in Dispatches
      BY <2>2, <1>1, CheckAssumption DEF Last, Op, Entries, Dispatches
    <3>2. /\ executions[d] \in Records /\ ran[d] \in Ends
          /\ Claims(executions[d], ran[d]) /\ Swept(executions[d], ran[d])
      BY <3>1 DEF RecordsTrue, CheckInv
    <3>3. executions[d].bounded /\ executions[d].cleanup
      BY <3>1, <1>2, ResponseWithRecord
    <3>4. outcome # "diverged" => executions[d].exit = "good"
      BY <3>1, <1>2, ResponseWithRecord
    <3>5. ran[d].end # "unknown" /\ ran[d].swept
      BY <3>2, <3>3 DEF Claims, Swept
    <3>6. outcome # "diverged" =>
            /\ command.route = "sandbox"
            /\ ran[d].end = "completed" /\ ran[d].good /\ ran[d].within
      BY <3>2, <3>3, <3>4 DEF Claims
    <3>7. outcome # "diverged" =>
            ran[d] = [end |-> "completed", good |-> TRUE, within |-> TRUE, swept |-> TRUE]
      BY <3>2, <3>5, <3>6 DEF Ends
    <3> QED
      BY <2>2, <1>3, <3>5, <3>6, <3>7
  <2> QED
    BY <2>1, <2>2
<1> QED
  BY <1>4, <1>5, <1>6, <1>7 DEF CheckInv

LEMMA InvDispatch ==
  ASSUME CheckInv, Dispatch
  PROVE  CheckInv'
<1> DEFINE n == Used + 1
<1>1. /\ adapter.at = "answer" /\ Op \in Operations /\ journal \in [Operations -> Entries]
      /\ adapter \in Adapters /\ journal[Op].outcome = None
      /\ UNCHANGED <<command, running, file, scratch, unaccounted, executions, ran>>
  BY DEF Dispatch, CheckInv, CheckTypeOK, Engaged, World
<1>2. /\ n \in Dispatches /\ n \in Nat /\ n # 0 /\ executions[n] = None
      /\ \A o \in Operations : journal[o].dispatch \in Nat /\ journal[o].dispatch < n
  BY NextIsFresh DEF Dispatch, CheckInv, Dispatches
<1>3. journal' = [journal EXCEPT ![Op].dispatch = n]
  BY DEF Dispatch
<1> HIDE DEF n
<1>4. /\ journal' \in [Operations -> Entries]
      /\ \A o \in Operations : /\ o # Op => journal'[o] = journal[o]
                               /\ journal'[o].receipt = journal[o].receipt
                               /\ journal'[o].outcome = journal[o].outcome
      /\ journal'[Op].dispatch = n
  BY <1>1, <1>2, <1>3, CheckAssumption DEF Entries, Dispatches
<1>5. adapter' \in Adapters /\ adapter'.at = "perform" /\ Op' = Op
  BY <1>1 DEF Dispatch, Adapters, Places, Op
<1>6. Last' = n
  BY <1>4, <1>5 DEF Last
<1>7. CheckTypeOK'
  <2>1. \A o \in Operations : journal'[o].receipt => journal'[o].dispatch # 0
    BY <1>2, <1>4 DEF CheckInv, CheckTypeOK
  <2>2. journal[adapter.op]'.dispatch # 0 /\ executions[journal[adapter.op].dispatch]' = None
    BY <1>1, <1>2, <1>6 DEF Last, Op
  <2> QED
    BY <1>1, <1>4, <1>5, <2>1, <2>2 DEF CheckInv, CheckTypeOK
<1>8. Engaged' /\ InHand'
  BY <1>1, <1>4, <1>5 DEF Engaged, InHand
<1>9. OwnDispatches'
  <2> SUFFICES ASSUME NEW o \in Operations, NEW p \in Operations,
                      journal'[o].dispatch # 0, journal'[o].dispatch = journal'[p].dispatch
               PROVE  o = p
    BY DEF OwnDispatches
  <2> QED
    BY <1>2, <1>4 DEF OwnDispatches, CheckInv
<1>10. RecordsUsed'
  <2> SUFFICES ASSUME NEW d \in Dispatches, executions[d] # None
               PROVE  \E o \in Operations : d <= journal'[o].dispatch
    BY <1>1 DEF RecordsUsed
  <2>1. d \in Nat
    BY CheckAssumption DEF Dispatches
  <2>2. PICK o \in Operations : d <= journal[o].dispatch
    BY DEF RecordsUsed, CheckInv
  <2>3. CASE o = Op
    BY <2>1, <2>2, <2>3, <1>1, <1>2, <1>4
  <2>4. CASE o # Op
    BY <2>2, <2>4, <1>4
  <2> QED
    BY <2>3, <2>4
<1>11. RecordsTrue' /\ AtWork'
  <2>1. RecordsTrue'
    BY <1>1 DEF RecordsTrue, Claims, Swept, Records, Ends, CheckInv
  <2>2. AtWork'
    BY <1>1, <1>5 DEF AtWork, CheckInv
  <2> QED
    BY <2>1, <2>2
<1>12. VerdictsMatchRuns'
  <2>1. executions'[journal'[Op].dispatch] = None
    BY <1>1, <1>2, <1>4
  <2> QED
    BY <2>1, <1>1, <1>4 DEF VerdictsMatchRuns, CheckInv
<1> QED
  BY <1>7, <1>8, <1>9, <1>10, <1>11, <1>12 DEF CheckInv

(***************************************************************************)
(* The performer.                                                          *)
(***************************************************************************)
\* While a dispatch is performed its number is used and nothing is kept of it.
LEMMA PerformingIsOpen ==
  ASSUME CheckInv, adapter.at \in {"perform", "run", "clean", "record"}
  PROVE  /\ Op \in Operations /\ journal[Op].outcome = None
         /\ Last \in Dispatches /\ Last # 0 /\ executions[Last] = None
<1>1. /\ Op \in Operations /\ journal[Op].outcome = None
      /\ Last # 0 /\ executions[Last] = None
  BY DEF CheckInv, CheckTypeOK, Engaged, Op, Last
<1>2. Last \in 0 .. MaxDispatches
  BY <1>1 DEF CheckInv, CheckTypeOK, Entries, Last
<1> QED
  BY <1>1, <1>2, CheckAssumption DEF Dispatches

\* What is noted of the run in progress is no matter of any record yet.
LEMMA RunNoted ==
  ASSUME CheckInv, UNCHANGED <<command, journal, executions>>,
         executions[Last] = None, NEW e \in Ends, ran' = [ran EXCEPT ![Last] = e]
  PROVE  /\ ran' \in [Dispatches -> Ends \cup {None}]
         /\ \A d \in Dispatches : executions'[d] # None => ran'[d] # None
         /\ OwnDispatches' /\ RecordsUsed' /\ RecordsTrue' /\ VerdictsMatchRuns'
<1>1. ran' \in [Dispatches -> Ends \cup {None}] /\ ran \in [Dispatches -> Ends \cup {None}]
  BY DEF CheckInv, CheckTypeOK
<1>2. \A d \in Dispatches : executions[d] # None => ran'[d] = ran[d] /\ ran[d] # None
  BY <1>1 DEF CheckInv, CheckTypeOK
<1>3. OwnDispatches' /\ RecordsUsed'
  BY DEF OwnDispatches, RecordsUsed, CheckInv
<1>4. RecordsTrue'
  BY <1>2 DEF RecordsTrue, Claims, Swept, Records, Ends, CheckInv
<1>5. VerdictsMatchRuns'
  <2>1. \A o \in Operations : journal[o].dispatch # 0 => journal[o].dispatch \in Dispatches
    BY CheckAssumption DEF CheckInv, CheckTypeOK, Entries, Dispatches
  <2> QED
    BY <1>2, <2>1 DEF VerdictsMatchRuns, CheckInv
<1> QED
  BY <1>1, <1>2, <1>3, <1>4, <1>5

LEMMA InvPerformInvalid ==
  ASSUME CheckInv, PerformInvalid
  PROVE  CheckInv'
<1>1. /\ adapter.at = "perform" /\ adapter \in Adapters
      /\ adapter' = [adapter EXCEPT !.at = "receipt"]
  BY DEF PerformInvalid, Goto, CheckInv, CheckTypeOK
<1>2. adapter' \in Adapters /\ adapter'.at = "receipt" /\ Op' = Op
  BY <1>1 DEF Adapters, Places, Op
<1>3. Engaged' /\ Last' # 0
  BY <1>1, <1>2, PerformingIsOpen DEF Engaged, PerformInvalid, Last
<1> QED
  BY <1>1, <1>2, <1>3, AdapterAlone DEF PerformInvalid, World

LEMMA InvSpawn ==
  ASSUME CheckInv, Spawn
  PROVE  CheckInv'
<1>1. /\ adapter.at = "perform" /\ adapter \in Adapters
      /\ adapter' = [adapter EXCEPT !.at = "run"] /\ running' = running \cup {Last}
      /\ UNCHANGED <<command, journal, executions, file, scratch, ran, unaccounted>>
  BY DEF Spawn, Goto, CheckInv, CheckTypeOK
<1>2. adapter' \in Adapters /\ adapter'.at = "run" /\ Op' = Op /\ Last' = Last
  BY <1>1 DEF Adapters, Places, Op, Last
<1>3. /\ Op \in Operations /\ journal[Op].outcome = None
      /\ Last \in Dispatches /\ Last # 0 /\ executions[Last] = None
  BY <1>1, PerformingIsOpen
<1>4. CheckTypeOK'
  <2>1. running' \subseteq Dispatches
    BY <1>1, <1>3 DEF CheckInv, CheckTypeOK
  <2>2. journal[adapter.op]'.dispatch # 0 /\ executions[journal[adapter.op].dispatch]' = None
    BY <1>1, <1>2, <1>3 DEF Last, Op
  <2> QED
    BY <1>1, <1>2, <2>1, <2>2 DEF CheckInv, CheckTypeOK
<1>5. Engaged' /\ InHand'
  BY <1>1, <1>2, <1>3 DEF Engaged, InHand
<1>6. AtWork'
  BY <1>1, <1>2 DEF AtWork, CheckInv
<1> QED
  BY <1>1, <1>4, <1>5, <1>6, KnowledgeKept DEF CheckInv

\* The record of a run's end claims no more than the end.
LEMMA InvEnded ==
  ASSUME CheckInv, adapter.at \in {"perform", "run"},
         NEW end \in {"completed", "stopped", "refused", "unknown"}, NEW exit \in Exits,
         NEW bounded \in BOOLEAN, NEW within \in BOOLEAN,
         command.route = "sandbox" /\ bounded => within,
         Ended(end, exit, bounded, within),
         UNCHANGED <<command, journal, executions, file, scratch>>,
         running' \subseteq running, unaccounted' \subseteq Dispatches,
         running' \subseteq unaccounted'
  PROVE  CheckInv'
<1> DEFINE r == Record(end, exit, bounded)
           e == [end |-> end, good |-> exit = "good", within |-> within, swept |-> FALSE]
<1>1. /\ Op \in Operations /\ journal[Op].outcome = None
      /\ Last \in Dispatches /\ Last # 0 /\ executions[Last] = None
  BY PerformingIsOpen
<1>2. r \in Records /\ e \in Ends
  <2>1. r.exit \in Exits /\ r.cleanup \in BOOLEAN /\ r.bounded \in BOOLEAN
    BY DEF Record, Exits
  <2> QED
    BY <2>1 DEF Record, Records, Ends
<1>3. Claims(r, e)
  BY CheckAssumption DEF Claims, Record, Exits
<1>4. adapter' = [adapter EXCEPT !.at = "clean", !.record = r] /\ ran' = [ran EXCEPT ![Last] = e]
  BY DEF Ended
<1> HIDE DEF r, e
<1>5. adapter' \in Adapters /\ adapter'.at = "clean" /\ adapter'.record = r /\ Op' = Op
  BY <1>2, <1>4 DEF Adapters, Places, Op, CheckInv, CheckTypeOK
<1>6. Last' = Last
  BY <1>5 DEF Last
<1>7. ran'[Last] = e
  BY <1>1, <1>4 DEF CheckInv, CheckTypeOK
<1>8. /\ ran' \in [Dispatches -> Ends \cup {None}]
      /\ \A d \in Dispatches : executions'[d] # None => ran'[d] # None
      /\ OwnDispatches' /\ RecordsUsed' /\ RecordsTrue' /\ VerdictsMatchRuns'
  BY <1>1, <1>2, <1>4, RunNoted
<1>9. CheckTypeOK'
  <2>1. journal[adapter.op]'.dispatch # 0 /\ executions[journal[adapter.op].dispatch]' = None
    BY <1>1, <1>6 DEF Last, Op
  <2>2. running' \subseteq Dispatches
    BY DEF CheckInv, CheckTypeOK
  <2> QED
    BY <1>5, <1>8, <2>1, <2>2 DEF CheckInv, CheckTypeOK
<1>10. Engaged'
  BY <1>1, <1>5 DEF Engaged
<1>11. InHand'
  BY <1>2, <1>3, <1>5, <1>6, <1>7 DEF InHand, Claims
<1>12. AtWork'
  BY <1>5 DEF AtWork
<1> QED
  BY <1>8, <1>9, <1>10, <1>11, <1>12 DEF CheckInv

LEMMA InvSpawnRefused ==
  ASSUME CheckInv, SpawnRefused
  PROVE  CheckInv'
<1>1. /\ adapter.at = "perform" /\ Ended("refused", None, TRUE, TRUE)
      /\ UNCHANGED <<command, journal, executions, running, file, scratch, unaccounted>>
  BY DEF SpawnRefused, World
<1>2. None \in Exits /\ running' \subseteq unaccounted' /\ unaccounted' \subseteq Dispatches
  BY <1>1 DEF Exits, AtWork, CheckInv, CheckTypeOK
<1> QED
  BY <1>1, <1>2, InvEnded

LEMMA InvRunCompletes ==
  ASSUME CheckInv, NEW exit \in {"good", "bad"}, NEW truncated \in BOOLEAN,
         NEW usage \in {"small", "large", "unobserved"}, RunCompletes(exit, truncated, usage)
  PROVE  CheckInv'
<1> DEFINE bounded == Within(truncated, usage)
           within == ~truncated /\ usage = "small"
<1>1. /\ adapter.at = "run" /\ Ended("completed", exit, bounded, within)
      /\ running' = running \ {Last}
      /\ UNCHANGED <<command, journal, executions, file, scratch, unaccounted>>
  BY DEF RunCompletes
<1>2. /\ exit \in Exits /\ bounded \in BOOLEAN /\ within \in BOOLEAN
      /\ command.route = "sandbox" /\ bounded => within
  BY DEF Exits, Within
<1>3. running' \subseteq unaccounted' /\ unaccounted' \subseteq Dispatches /\ running' \subseteq running
  BY <1>1 DEF AtWork, CheckInv, CheckTypeOK
<1> HIDE DEF bounded, within
<1> QED
  BY <1>1, <1>2, <1>3, InvEnded

LEMMA InvRunStops ==
  ASSUME CheckInv, RunStops
  PROVE  CheckInv'
<1>1. /\ adapter.at = "run" /\ Ended("stopped", None, TRUE, TRUE)
      /\ running' = running \ {Last}
      /\ UNCHANGED <<command, journal, executions, file, scratch, unaccounted>>
  BY DEF RunStops
<1>2. None \in Exits
  BY DEF Exits
<1>3. running' \subseteq unaccounted' /\ unaccounted' \subseteq Dispatches /\ running' \subseteq running
  BY <1>1 DEF AtWork, CheckInv, CheckTypeOK
<1> QED
  BY <1>1, <1>2, <1>3, InvEnded

LEMMA InvRunUnknown ==
  ASSUME CheckInv, NEW left \in BOOLEAN, RunUnknown(left)
  PROVE  CheckInv'
<1>1. /\ adapter.at = "run" /\ Ended("unknown", None, FALSE, TRUE)
      /\ running' = IF left THEN running ELSE running \ {Last}
      /\ unaccounted' = unaccounted \cup {Last}
      /\ UNCHANGED <<command, journal, executions, file, scratch>>
  BY DEF RunUnknown
<1>2. None \in Exits /\ Last \in Dispatches
  BY <1>1, PerformingIsOpen DEF Exits
<1>3. running' \subseteq unaccounted' /\ unaccounted' \subseteq Dispatches /\ running' \subseteq running
  BY <1>1, <1>2 DEF AtWork, CheckInv, CheckTypeOK
<1> QED
  BY <1>1, <1>2, <1>3, InvEnded

LEMMA InvCleanScratch ==
  ASSUME CheckInv, NEW swept \in BOOLEAN, CleanScratch(swept)
  PROVE  CheckInv'
<1> DEFINE r == Proven(swept)
           e == [ran[Last] EXCEPT !.swept = swept]
<1>1. /\ adapter.at = "clean" /\ adapter \in Adapters
      /\ scratch' = IF swept THEN FALSE ELSE scratch
      /\ UNCHANGED <<command, journal, executions, running, file, unaccounted>>
  BY DEF CleanScratch, CheckInv, CheckTypeOK
<1>2. /\ Op \in Operations /\ journal[Op].outcome = None
      /\ Last \in Dispatches /\ Last # 0 /\ executions[Last] = None
  BY <1>1, PerformingIsOpen
<1>3. adapter.record \in Records /\ ran[Last] \in Ends /\ Claims(adapter.record, ran[Last])
  BY <1>1 DEF InHand, CheckInv
<1>4. /\ r \in Records /\ e \in Ends
      /\ r.exit = adapter.record.exit /\ r.bounded = adapter.record.bounded
      /\ (r.cleanup => adapter.record.cleanup) /\ (r.cleanup => swept)
      /\ e.swept = swept /\ e.end = ran[Last].end /\ e.good = ran[Last].good
      /\ e.within = ran[Last].within
  BY <1>3 DEF Proven, Records, Ends
<1>5. Claims(r, e) /\ Swept(r, e)
  <2>1. e.end = "unknown" => ~r.bounded /\ ~r.cleanup
    BY <1>3, <1>4 DEF Claims
  <2>2. Swept(r, e)
    BY <1>4 DEF Swept
  <2> QED
    BY <1>3, <1>4, <2>1, <2>2 DEF Claims
<1>6. adapter' = [adapter EXCEPT !.at = "record", !.record = r] /\ ran' = [ran EXCEPT ![Last] = e]
  BY DEF CleanScratch
<1> HIDE DEF r, e
<1>7. adapter' \in Adapters /\ adapter'.at = "record" /\ adapter'.record = r /\ Op' = Op
  BY <1>1, <1>4, <1>6 DEF Adapters, Places, Op
<1>8. Last' = Last
  BY <1>1, <1>7 DEF Last
<1>9. ran'[Last] = e
  BY <1>2, <1>6 DEF CheckInv, CheckTypeOK
<1>10. /\ ran' \in [Dispatches -> Ends \cup {None}]
       /\ \A d \in Dispatches : executions'[d] # None => ran'[d] # None
       /\ OwnDispatches' /\ RecordsUsed' /\ RecordsTrue' /\ VerdictsMatchRuns'
  BY <1>1, <1>2, <1>4, <1>6, RunNoted
<1>11. CheckTypeOK'
  <2>1. journal[adapter.op]'.dispatch # 0 /\ executions[journal[adapter.op].dispatch]' = None
    BY <1>1, <1>2, <1>8 DEF Last, Op
  <2>2. scratch' \in BOOLEAN
    BY <1>1 DEF CheckInv, CheckTypeOK
  <2> QED
    BY <1>1, <1>7, <1>10, <2>1, <2>2 DEF CheckInv, CheckTypeOK
<1>12. Engaged'
  BY <1>1, <1>2, <1>7 DEF Engaged
<1>13. InHand'
  BY <1>1, <1>4, <1>5, <1>7, <1>8, <1>9 DEF InHand, Claims, Swept
<1>14. AtWork'
  BY <1>1, <1>7 DEF AtWork, CheckInv
<1> QED
  BY <1>10, <1>11, <1>12, <1>13, <1>14 DEF CheckInv

\* A record is the first of its dispatch, and no other operation has that one.
LEMMA InvInsertRecord ==
  ASSUME CheckInv, InsertRecord
  PROVE  CheckInv'
<1> DEFINE r == adapter.record
<1>1. /\ adapter.at = "record" /\ adapter \in Adapters
      /\ executions' = [executions EXCEPT ![Last] = r]
      /\ adapter' = [adapter EXCEPT !.at = "receipt", !.record = None]
      /\ UNCHANGED <<command, journal, running, file, scratch, ran, unaccounted>>
  BY DEF InsertRecord, Recorded, World, CheckInv, CheckTypeOK
<1>2. /\ Op \in Operations /\ journal[Op].outcome = None
      /\ Last \in Dispatches /\ Last # 0 /\ executions[Last] = None
  BY <1>1, PerformingIsOpen
<1>3. /\ r \in Records /\ ran[Last] \in Ends
      /\ Claims(r, ran[Last]) /\ Swept(r, ran[Last])
  BY <1>1 DEF InHand, CheckInv
<1> HIDE DEF r
<1>4. adapter' \in Adapters /\ adapter'.at = "receipt" /\ Op' = Op
  BY <1>1 DEF Adapters, Places, Op
<1>5. Last' = Last
  BY <1>1, <1>4 DEF Last
<1>6. /\ executions' \in [Dispatches -> Records \cup {None}]
      /\ executions'[Last] = r
      /\ \A d \in Dispatches : d # Last => executions'[d] = executions[d]
  BY <1>1, <1>2, <1>3 DEF CheckInv, CheckTypeOK
<1>7. CheckTypeOK'
  <2>1. \A d \in Dispatches : executions'[d] # None => ran'[d] # None
    BY <1>1, <1>3, <1>6, CheckAssumption DEF CheckInv, CheckTypeOK
  <2>2. journal[adapter.op]'.dispatch # 0
    BY <1>1, <1>2, <1>5 DEF Last, Op
  <2> QED
    BY <1>1, <1>4, <1>6, <2>1, <2>2 DEF CheckInv, CheckTypeOK
<1>8. Engaged' /\ InHand' /\ OwnDispatches'
  BY <1>1, <1>2, <1>4 DEF Engaged, InHand, OwnDispatches, CheckInv
<1>9. RecordsUsed'
  <2>1. Last <= journal[Op].dispatch
    BY <1>2, CheckAssumption DEF Last, Dispatches
  <2> QED
    BY <1>1, <1>2, <1>6, <2>1 DEF RecordsUsed, CheckInv
<1>10. RecordsTrue'
  <2> SUFFICES ASSUME NEW d \in Dispatches, executions'[d] # None
               PROVE  /\ executions'[d] \in Records /\ ran[d] \in Ends
                      /\ Claims(executions'[d], ran[d]) /\ Swept(executions'[d], ran[d])
    BY <1>1 DEF RecordsTrue, Claims, Swept
  <2>1. CASE d = Last
    BY <2>1, <1>3, <1>6
  <2>2. CASE d # Last
    BY <2>2, <1>6 DEF RecordsTrue, CheckInv
  <2> QED
    BY <2>1, <2>2
<1>11. AtWork'
  BY <1>1, <1>4 DEF AtWork, CheckInv
<1>12. VerdictsMatchRuns'
  <2>1. \A o \in Operations :
          /\ journal[o].dispatch # 0 => journal[o].dispatch \in Dispatches
          /\ journal[o].dispatch = Last => o = Op
    BY <1>2, CheckAssumption DEF CheckInv, CheckTypeOK, Entries, Dispatches, OwnDispatches, Last
  <2>2. journal[Op].outcome \notin Outcomes
    BY <1>2, CheckAssumption
  <2>3. journal[Op].outcome # "verified" /\ journal[Op].outcome # "diverged"
    BY <2>2 DEF Outcomes
  <2> QED
    BY <1>1, <1>6, <2>1, <2>3 DEF VerdictsMatchRuns, CheckInv
<1> QED
  BY <1>7, <1>8, <1>9, <1>10, <1>11, <1>12 DEF CheckInv

LEMMA InvPersistReceipt ==
  ASSUME CheckInv, PersistReceipt
  PROVE  CheckInv'
<1>1. /\ adapter.at = "receipt" /\ adapter \in Adapters
      /\ journal' = [journal EXCEPT ![Op].receipt = TRUE]
      /\ adapter' = [adapter EXCEPT !.at = "observe"]
      /\ UNCHANGED <<command, executions, running, file, scratch, ran, unaccounted>>
  BY DEF PersistReceipt, Goto, World, CheckInv, CheckTypeOK
<1>2. /\ Op \in Operations /\ journal[Op].outcome = None /\ journal[Op].dispatch # 0
      /\ journal \in [Operations -> Entries]
  BY <1>1 DEF CheckInv, CheckTypeOK, Engaged, Op
<1>3. adapter' \in Adapters /\ adapter'.at = "observe" /\ Op' = Op
  BY <1>1 DEF Adapters, Places, Op
<1>4. /\ journal' \in [Operations -> Entries]
      /\ \A o \in Operations : /\ o # Op => journal'[o] = journal[o]
                               /\ journal'[o].dispatch = journal[o].dispatch
                               /\ journal'[o].outcome = journal[o].outcome
  BY <1>1, <1>2 DEF Entries
<1>5. CheckTypeOK'
  <2>1. \A o \in Operations : journal'[o].receipt => journal'[o].dispatch # 0
    BY <1>2, <1>4 DEF CheckInv, CheckTypeOK
  <2> QED
    BY <1>1, <1>3, <1>4, <2>1 DEF CheckInv, CheckTypeOK
<1>6. Engaged' /\ InHand' /\ AtWork'
  BY <1>1, <1>2, <1>3, <1>4 DEF Engaged, InHand, AtWork, CheckInv
<1>7. OwnDispatches' /\ RecordsUsed'
  BY <1>1, <1>4 DEF OwnDispatches, RecordsUsed, CheckInv
<1>8. RecordsTrue'
  BY <1>1 DEF RecordsTrue, Claims, Swept, Records, Ends, CheckInv
<1>9. VerdictsMatchRuns'
  BY <1>1, <1>4 DEF VerdictsMatchRuns, CheckInv
<1> QED
  BY <1>5, <1>6, <1>7, <1>8, <1>9 DEF CheckInv

(***************************************************************************)
(* The world.                                                              *)
(***************************************************************************)
LEMMA InvWorld ==
  ASSUME CheckInv,
         UNCHANGED <<command, journal, adapter, executions, ran, unaccounted>>,
         file' \in Files, scratch' \in BOOLEAN, running' \subseteq running
  PROVE  CheckInv'
<1>1. CheckTypeOK'
  BY DEF CheckInv, CheckTypeOK
<1>2. Engaged'
  BY DEF CheckInv, Engaged, Op, Idle
<1>3. InHand'
  BY DEF CheckInv, InHand, Last, Op, Claims, Swept, Records, Ends
<1>4. AtWork'
  BY DEF CheckInv, AtWork, Last, Op
<1> QED
  BY <1>1, <1>2, <1>3, <1>4, KnowledgeKept DEF CheckInv

\* A crash forgets the records; what it leaves at work nobody answers for.
LEMMA InvCrash ==
  ASSUME CheckInv, Crash
  PROVE  CheckInv'
<1>1. /\ adapter' = Idle /\ Idle.at = "idle" /\ Idle \in Adapters
      /\ executions' = [d \in Dispatches |-> None]
      /\ UNCHANGED <<command, journal, file, scratch, ran>>
  BY DEF Crash, Idle, Adapters, Places
<1>2. adapter.at = "run" => Last \in Dispatches
  BY PerformingIsOpen
<1>3. running' \subseteq Dispatches /\ unaccounted' \subseteq Dispatches /\ running' \subseteq unaccounted'
  <2>1. CASE adapter.at = "run"
    BY <2>1, <1>2 DEF Crash, Survivors, Orphans, AtWork, CheckInv, CheckTypeOK
  <2>2. CASE adapter.at # "run"
    BY <2>2 DEF Crash, Survivors, Orphans, AtWork, CheckInv, CheckTypeOK
  <2> QED
    BY <2>1, <2>2
<1>4. CheckTypeOK'
  BY <1>1, <1>3 DEF CheckInv, CheckTypeOK
<1>5. Engaged' /\ InHand' /\ AtWork'
  BY <1>1, <1>3 DEF Engaged, InHand, AtWork
<1>6. OwnDispatches' /\ RecordsUsed' /\ RecordsTrue'
  BY <1>1 DEF OwnDispatches, RecordsUsed, RecordsTrue, CheckInv
<1>7. VerdictsMatchRuns'
  <2>1. \A o \in Operations : journal[o].dispatch # 0 => journal[o].dispatch \in Dispatches
    BY CheckAssumption DEF CheckInv, CheckTypeOK, Entries, Dispatches
  <2> QED
    BY <1>1, <2>1 DEF VerdictsMatchRuns
<1> QED
  BY <1>4, <1>5, <1>6, <1>7 DEF CheckInv

LEMMA CheckInvNext ==
  ASSUME CheckInv, [CheckNext]_checkVars
  PROVE  CheckInv'
<1>1. CASE UNCHANGED checkVars
  BY <1>1, InvWorld DEF checkVars, CheckInv, CheckTypeOK
<1>2. ASSUME NEW o \in Operations, Run(o) PROVE CheckInv'
  BY <1>2, InvRun
<1>3. CASE ObserveOutputs
  BY <1>3, InvObserveOutputs
<1>4. CASE Conclude
  BY <1>4, InvConclude
<1>5. CASE Dispatch
  BY <1>5, InvDispatch
<1>6. CASE Uncertain
  BY <1>6, InvUncertain
<1>7. CASE PerformInvalid
  BY <1>7, InvPerformInvalid
<1>8. CASE Spawn
  BY <1>8, InvSpawn
<1>9. CASE SpawnRefused
  BY <1>9, InvSpawnRefused
<1>10. ASSUME NEW exit \in {"good", "bad"}, NEW truncated \in BOOLEAN,
              NEW usage \in {"small", "large", "unobserved"},
              RunCompletes(exit, truncated, usage)
       PROVE  CheckInv'
  BY <1>10, InvRunCompletes
<1>11. CASE RunStops
  BY <1>11, InvRunStops
<1>12. ASSUME NEW left \in BOOLEAN, RunUnknown(left) PROVE CheckInv'
  BY <1>12, InvRunUnknown
<1>13. ASSUME NEW swept \in BOOLEAN, CleanScratch(swept) PROVE CheckInv'
  BY <1>13, InvCleanScratch
<1>14. CASE InsertRecord
  BY <1>14, InvInsertRecord
<1>15. CASE PersistReceipt
  BY <1>15, InvPersistReceipt
<1>16. ASSUME NEW f \in Files, Work(f) \/ Edit(f) PROVE CheckInv'
  BY <1>16, InvWorld DEF Work, Edit, CheckInv, CheckTypeOK
<1>17. ASSUME NEW d \in Dispatches, ProgramEnds(d) PROVE CheckInv'
  BY <1>17, InvWorld DEF ProgramEnds, CheckInv, CheckTypeOK
<1>18. CASE Crash
  BY <1>18, InvCrash
<1> QED
  BY <1>1, <1>2, <1>3, <1>4, <1>5, <1>6, <1>7, <1>8, <1>9, <1>10, <1>11, <1>12, <1>13,
     <1>14, <1>15, <1>16, <1>17, <1>18 DEF CheckNext

LEMMA CheckInvariant == CheckSpec => []CheckInv
<1>1. CheckInit => CheckInv
  BY CheckInvInit
<1>2. CheckInv /\ [CheckNext]_checkVars => CheckInv'
  BY CheckInvNext
<1> QED
  BY <1>1, <1>2, PTL DEF CheckSpec

(***************************************************************************)
(* The theorems.                                                           *)
(***************************************************************************)
\* Journal, adapter and records have their types; a receipt is of a dispatch,
\* and while a dispatch is performed nothing is on record of it.
THEOREM CheckTypes == CheckSpec => []CheckTypeOK
<1>1. CheckInv => CheckTypeOK
  BY DEF CheckInv
<1> QED
  BY <1>1, CheckInvariant, PTL

\* check: with a record of its dispatch at hand an operation is verified only if
\* the sandboxed run completed well within all limits and its scratch was
\* emptied, and is never reported as failed after an unknown end.
THEOREM VerdictsAreOfTheRun == CheckSpec => []VerdictsMatchRuns
<1>1. CheckInv => VerdictsMatchRuns
  BY DEF CheckInv
<1> QED
  BY <1>1, CheckInvariant, PTL

\* A step that gives an operation its outcome is a conclusion of the lifecycle.
LEMMA ConcludedQuietly ==
  ASSUME CheckInv, CheckNext, NEW o \in Operations,
         journal'[o].outcome # journal[o].outcome
  PROVE  running \subseteq unaccounted
<1>1. journal' # journal /\ journal \in [Operations -> Entries]
  BY DEF CheckInv, CheckTypeOK
<1>2. CASE Conclude
  BY <1>2 DEF Conclude, AtWork, CheckInv
<1>3. CASE Dispatch
  BY <1>1, <1>3 DEF Dispatch, Entries
<1>4. CASE PersistReceipt
  BY <1>1, <1>4 DEF PersistReceipt, Entries
<1> QED
  BY <1>1, <1>2, <1>3, <1>4
  DEF CheckNext, Run, ObserveOutputs, Uncertain, PerformInvalid, Spawn, SpawnRefused,
      RunCompletes, RunStops, RunUnknown, CleanScratch, InsertRecord, Work, Edit,
      ProgramEnds, Crash

\* Whatever order the adapter, its programs and its crashes take, no operation
\* gets its outcome while a program it may not ignore works on the outputs.
THEOREM VerdictsAreQuiet == CheckSpec => QuietVerdicts
<1>1. CheckInv /\ [CheckNext]_checkVars =>
        [\A o \in Operations :
           journal'[o].outcome # journal[o].outcome => running \subseteq unaccounted]_checkVars
  BY ConcludedQuietly
<1> QED
  BY <1>1, CheckInvariant, PTL DEF CheckSpec, QuietVerdicts
=============================================================================
