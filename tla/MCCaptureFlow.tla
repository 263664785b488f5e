---------------------------- MODULE MCCaptureFlow ----------------------------
(* Instances of CaptureFlow.  The coroutines are interchangeable; the        *)
(* symmetry is used by runs without liveness only.                           *)
EXTENDS CaptureFlow, TLC

CONSTANTS t1, t2

TwoTasks == {t1, t2}
AnyTask  == Permutations(Tasks)
=============================================================================
