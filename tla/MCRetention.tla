----------------------------- MODULE MCRetention -----------------------------
(* Instances of Retention: two pictures are a raw shot and its composite, or *)
(* the pictures of two guests; the operator and the sweep delete at once.    *)
EXTENDS Retention

CONSTANTS a, b, op

TwoPictures == {a, b}
Operator    == {op}
=============================================================================
