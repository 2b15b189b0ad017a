--------------------------- MODULE MCCompanionLink ---------------------------
(* CompanionLink with a message of three fragments, two short ones and one   *)
(* that is too long in one session, and in another session a message with    *)
(* the sequence number of the first and one whose total is wrong.            *)
EXTENDS CompanionLink

CONSTANTS long, short, blip, big, other, lying, s1, s2

Header(s, q, kind, count, total) ==
  [session |-> s, sequence |-> q, kind |-> kind, count |-> count, total |-> total]

Headers == [m \in Messages |->
  CASE m = long  -> Header(s1, 1, "Button", 3, 3)
    [] m = short -> Header(s1, 2, "LinkState", 1, 1)
    [] m = blip  -> Header(s1, 4, "LinkState", 1, 1)
    [] m = big   -> Header(s1, 3, "Sensor", 2, 3)
    [] m = other -> Header(s2, 1, "Button", 2, 2)
    [] m = lying -> Header(s2, 2, "LinkState", 1, 2)]

Lengths == [m \in Messages |->
  CASE m = long  -> <<1, 1, 1>>
    [] m = short -> <<1>>
    [] m = blip  -> <<1>>
    [] m = big   -> <<2, 2>>
    [] m = other -> <<1, 1>>
    [] m = lying -> <<1>>]
=============================================================================
