------------------------------ MODULE MCHostDir ------------------------------
(* HostDir with two threads of one process and, in the larger runs, a       *)
(* second process.                                                          *)
EXTENDS HostDir, TLC

CONSTANTS c1, c2, p1, p2

OneProcess   == [c \in Clients |-> p1]
ClientSymmetry == Permutations(Clients)
ValueSymmetry  == Permutations(Values)
DirSymmetry    == ClientSymmetry \cup ValueSymmetry \cup Permutations(Leaves)
=============================================================================
