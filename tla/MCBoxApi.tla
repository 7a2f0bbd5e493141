------------------------------ MODULE MCBoxApi ------------------------------
(* Constants of BoxApi for TLC *)
EXTENDS BoxApi

CONSTANTS c1, e1, e2, s1, r1

MCOwner == [i \in Plains \cup Streams |-> c1]
MCCap == [p \in Streams |-> IF p \in Execs THEN 1 ELSE MaxOutput + 2]
MCTogether == {{s1}, {e1, e2}, {e1, r1}}
MCAlone == {{s1}, {e1}}
=============================================================================
