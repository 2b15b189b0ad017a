-------------------------- MODULE MCSqliteSession --------------------------
(* SqliteSession with two sessions and two programs.                        *)
EXTENDS SqliteSession, TLC

CONSTANTS s1, s2, first, second

Scripts == (first :> <<"table", "index">>) @@ (second :> <<"column">>)
SqliteSymmetry == Permutations(Sessions)
=============================================================================
