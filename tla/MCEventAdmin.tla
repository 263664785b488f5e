---------------------------- MODULE MCEventAdmin ----------------------------
(* Instances of EventAdmin: one page and one request at a time is the single *)
(* operator; two of either are what the routes accept.                       *)
EXTENDS EventAdmin

CONSTANTS p1, p2, r1, r2

OnePage     == {p1}
TwoPages    == {p1, p2}
OneRequest  == {r1}
TwoRequests == {r1, r2}
=============================================================================
