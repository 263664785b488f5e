---------------------------- MODULE DurableQueue ----------------------------
(* What storage/queue.py promises to those who enqueue: a job that was       *)
(* accepted is tried until it is done, at most MaxAttempts times, and never  *)
(* disappears: after the last failed attempt it is kept as a dead letter.    *)
EXTENDS Integers

CONSTANTS Jobs, MaxAttempts

VARIABLES fate,   \* what has become of each job
          tries   \* failed attempts recorded for it

vars == <<fate, tries>>

TypeOK ==
  /\ fate \in [Jobs -> {"absent", "queued", "done", "dead"}]
  /\ tries \in [Jobs -> Nat]

Init ==
  /\ fate = [j \in Jobs |-> "absent"]
  /\ tries = [j \in Jobs |-> 0]

Accept(j) ==
  /\ fate[j] = "absent"
  /\ fate' = [fate EXCEPT ![j] = "queued"]
  /\ UNCHANGED tries

Succeed(j) ==
  /\ fate[j] = "queued"
  /\ fate' = [fate EXCEPT ![j] = "done"]
  /\ UNCHANGED tries

Retry(j) ==
  /\ fate[j] = "queued" /\ tries[j] + 1 < MaxAttempts
  /\ tries' = [tries EXCEPT ![j] = @ + 1]
  /\ UNCHANGED fate

GiveUp(j) ==
  /\ fate[j] = "queued" /\ tries[j] + 1 >= MaxAttempts
  /\ fate' = [fate EXCEPT ![j] = "dead"]
  /\ tries' = [tries EXCEPT ![j] = @ + 1]

Next == \E j \in Jobs : Accept(j) \/ Succeed(j) \/ Retry(j) \/ GiveUp(j)

Spec == Init /\ [][Next]_vars
=============================================================================
