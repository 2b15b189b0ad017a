--------------------------- MODULE ProcessContract ---------------------------
(***************************************************************************)
(* What a ProcessPort promises about one dispatched request: it owns the   *)
(* processes it started, it answers once, an answer that claims the work   *)
(* ended (Completed, StoppedAfterCancel, StoppedAfterTimeout) is given     *)
(* only when nothing owned is left alive, and a stop is reported only for  *)
(* a stop that was asked for.  `Unknown` claims nothing.                   *)
(***************************************************************************)
CONSTANT Processes

VARIABLES
  owned,     \* live processes this request answers for
  asked,     \* reasons to stop that have arrived: subset of {"cancel", "timeout"}
  outcome    \* the ProcessAttempt given, or "None"

vars == <<owned, asked, outcome>>

Claims == {"Completed", "StoppedAfterCancel", "StoppedAfterTimeout"}

Init ==
  /\ owned \subseteq Processes /\ owned # {}
  /\ asked \subseteq {"cancel"}
  /\ outcome = "None"

\* Processes come and go, and while nothing is answered a stop may be asked for.
Evolve ==
  /\ outcome \notin Claims
  /\ owned' \subseteq Processes
  /\ outcome = "None" \/ owned' \subseteq owned \/ owned # {}
  /\ asked \subseteq asked' /\ asked' \subseteq {"cancel", "timeout"}
  /\ outcome # "None" => asked' = asked
  /\ UNCHANGED outcome

Claim(o) ==
  /\ outcome = "None" /\ owned = {}
  /\ o = "StoppedAfterCancel" => "cancel" \in asked
  /\ o = "StoppedAfterTimeout" => "timeout" \in asked
  /\ outcome' = o
  /\ UNCHANGED <<owned, asked>>

GiveUp ==
  /\ outcome = "None"
  /\ outcome' = "Unknown"
  /\ UNCHANGED <<owned, asked>>

Next == Evolve \/ (\E o \in Claims : Claim(o)) \/ GiveUp

Spec == Init /\ [][Next]_vars
=============================================================================
