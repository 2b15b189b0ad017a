---------------------------- MODULE MCLocalCheck ----------------------------
(* LocalCheck with every kind of command.                                   *)
EXTENDS LocalCheck, TLC

CONSTANTS o1, o2

Check(route, replay, expects) ==
  [route |-> route, replay |-> replay, expects |-> expects, invocable |-> TRUE]
AllCommands ==
  {Check(route, replay, "content") : route \in Routes,
                                     replay \in {"idempotent", "exactly-once"}}
  \cup {Check("sandbox", "exactly-once", "nothing"), Check("sandbox", "idempotent", "absent"),
        [Check("process", "exactly-once", "exists") EXCEPT !.invocable = FALSE]}
OperationSymmetry == Permutations(Operations)
=============================================================================
