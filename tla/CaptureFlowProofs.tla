-------------------------- MODULE CaptureFlowProofs --------------------------
(* Proofs about the capture flow, for any number of coroutines, captures,    *)
(* sessions and restarts, any templates, clients and failures.               *)
EXTENDS CaptureFlow, FiniteSetTheorems, SequenceTheorems, TLAPS

(* Where a coroutine stands decides what its locals hold.                    *)
LocalsOK ==
  /\ shotCount > 0
  /\ \A t \in Tasks :
       /\ pc[t] \in {"countdown", "gate", "woken", "trigger", "preview",
                     "previewed", "full"} => left[t] > 0
       /\ pc[t] \in {"preview", "previewed", "full", "composed"} => cur[t] \in Captures
       /\ pc[t] = "announced" => shots[t] # <<>>

(* Only pictures that are on disk are kept as shots, and only those become   *)
(* deliverables that are published.                                          *)
ShotsSaved ==
  \A t \in Tasks :
    /\ \A i \in 1 .. Len(shots[t]) : shots[t][i] \in saved
    /\ pc[t] = "composed" => cur[t] \in saved

(* The rows: none beyond the current session, the machine's state for the    *)
(* current one, nothing live between the restart and the current one.        *)
RowsOK ==
  /\ bootSid <= sid
  /\ \A s \in SessionIds :
       /\ s > sid => rowState[s] = "none"
       /\ s = sid => rowState[s] \in {"none", state}
       /\ bootSid < s /\ s < sid => rowState[s] \in {"none", "idle"}
-----------------------------------------------------------------------------
(* Only the attract loop can be armed (core/state.py:23).                    *)
LEMMA ArmOnlyIdle ==
  ASSUME NEW s \in States, CanGo(s, "armed")
  PROVE  s = "idle"
  BY DEF States, CanGo, AllowedTransitions

(* A move, refused or not, keeps the machine's state and the rows typed.     *)
LEMMA TransitionType ==
  ASSUME TypeOK, NEW target \in States, Transition(target) \/ TryTransition(target)
  PROVE  /\ state' \in States
         /\ rowState' \in [SessionIds -> States \cup {"none"}]
  BY DEF TypeOK, Transition, TryTransition

(* A coroutine's end keeps its locals typed.                                 *)
LEMMA DropType ==
  ASSUME TypeOK, NEW t \in Tasks, DropLocals(t)
  PROVE  /\ left' \in [Tasks -> Nat]
         /\ shots' \in [Tasks -> Seq(Captures)]
         /\ cur' \in [Tasks -> Captures \cup {NoCapture}]
  BY DEF TypeOK, DropLocals

(* Opening the gate keeps the program counters typed.                        *)
LEMMA SetIdleType ==
  ASSUME TypeOK, NEW t \in Tasks, NEW next \in PCs, SetIdleAndAt(t, next)
  PROVE  cameraIdle' \in BOOLEAN /\ pc' \in [Tasks -> PCs]
  BY DEF TypeOK, SetIdleAndAt, PCs, OnLink

(* Answering the first request, and issuing the next, keep the queue typed.  *)
LEMMA LinkType ==
  ASSUME TypeOK, NEW t \in Tasks
  PROVE  /\ Append(link, t) \in Seq(Tasks)
         /\ Answered(t) => Tail(link) \in Seq(Tasks) /\ Append(Tail(link), t) \in Seq(Tasks)
  BY DEF TypeOK, Answered

(* The picture a coroutine publishes is one it downloaded or composed.       *)
LEMMA FinalizedSaved ==
  ASSUME TypeOK, LocalsOK, ShotsSaved, NEW t \in Tasks, NEW c \in Captures,
         Finalized(t, c)
  PROVE  c \in saved
<1>1. CASE ShotIsFinal(t) /\ c = shots[t][1]
  <2>1. shots[t] \in Seq(Captures) /\ shots[t] # <<>>
    BY <1>1 DEF TypeOK, LocalsOK, ShotIsFinal, AllShot
  <2>2. 1 \in 1 .. Len(shots[t])
    BY <2>1
  <2> QED BY <1>1, <2>2 DEF ShotsSaved
<1>2. CASE pc[t] = "composed" /\ c = cur[t]
  BY <1>2 DEF ShotsSaved
<1> QED BY <1>1, <1>2 DEF Finalized
(* Every step keeps the variables typed.                                    *)
LEMMA TypeStep ==
  ASSUME FlowAssumption, TypeOK, LocalsOK, [Next]_vars
  PROVE  TypeOK'
<1> USE DEF PCs, OnLink, States
<1>1. CASE \E slots \in SlotCounts : Arm(slots)
  <2>1. PICK slots \in SlotCounts : Arm(slots)
    BY <1>1
  <2>2. slots \in Nat /\ sid + 1 \in SessionIds
    BY <2>1 DEF TypeOK, Arm, FlowAssumption, SessionIds
  <2>3. rowState' \in [SessionIds -> States \cup {"none"}]
    BY <2>1 DEF TypeOK, Arm
  <2> QED
    BY <2>1, <2>2, <2>3 DEF TypeOK, Arm, task, captureDb, disk, process
<1>2. CASE ArmFails
  BY <1>2 DEF TypeOK, ArmFails, At, SessionIds, NoTemplate, manager, task,
     captureDb, disk, process
<1>3. CASE Dismiss
  BY <1>3, TransitionType DEF TypeOK, Dismiss, At, manager, task, captureDb,
     disk, process
<1>4. CASE \E t \in Tasks : StartCapture(t)
  <2>1. PICK t \in Tasks : StartCapture(t)
    BY <1>4
  <2>2. state' \in States /\ rowState' \in [SessionIds -> States \cup {"none"}]
    BY <2>1, TransitionType DEF StartCapture
  <2>3. pc' \in [Tasks -> PCs] /\ left' \in [Tasks -> Nat]
    BY <2>1 DEF TypeOK, StartCapture, At
  <2> QED
    BY <2>1, <2>2, <2>3 DEF TypeOK, StartCapture, captureDb, disk, process
<1>5. CASE Restart
  BY <1>5 DEF TypeOK, Restart, At, ProcessRestarts, SessionIds, NoTemplate,
     manager, task, captureDb, disk, process
<1>6. CASE \E t \in Tasks : PowerLossWhilePublishing(t)
  <2>1. PICK t \in Tasks : PowerLossWhilePublishing(t)
    BY <1>6
  <2>2. shared' \subseteq SessionIds
    BY <2>1 DEF TypeOK, PowerLossWhilePublishing, IssueToken
  <2> QED
    BY <2>1, <2>2 DEF TypeOK, PowerLossWhilePublishing, ProcessRestarts,
       SessionIds, NoTemplate, captureDb, disk
<1>7. CASE \E t \in Tasks : HoldAtGate(t)
  BY <1>7 DEF TypeOK, HoldAtGate, At, manager, task, captureDb, disk, process
<1>8. CASE \E t \in Tasks : Trigger(t)
  <2>1. PICK t \in Tasks : Trigger(t)
    BY <1>8
  <2>2. state' \in States /\ rowState' \in [SessionIds -> States \cup {"none"}]
    BY <2>1, TransitionType DEF Trigger
  <2>3. pc' \in [Tasks -> PCs] /\ link' \in Seq(Tasks)
    BY <2>1, LinkType DEF TypeOK, Trigger, At, Issue
  <2> QED
    BY <2>1, <2>2, <2>3 DEF TypeOK, Trigger, captureDb, disk, process
<1>9. CASE \E t \in Tasks : TriggerRefused(t)
  BY <1>9, DropType DEF TypeOK, TriggerRefused, At, manager, task, captureDb,
     disk, process
<1>10. CASE \E t \in Tasks, c \in Captures : TriggerAnswered(t, c)
  <2>1. PICK t \in Tasks, c \in Captures : TriggerAnswered(t, c)
    BY <1>10
  <2>2. owner' \in [Captures -> SessionIds \cup {NoSession}] /\ deliverable' \subseteq Captures
    BY <2>1 DEF TypeOK, TriggerAnswered
  <2>3. cur' \in [Tasks -> Captures \cup {NoCapture}] /\ pc' \in [Tasks -> PCs]
    BY <2>1 DEF TypeOK, TriggerAnswered, At
  <2>4. link' \in Seq(Tasks)
    BY <2>1, LinkType DEF TriggerAnswered
  <2> QED
    BY <2>1, <2>2, <2>3, <2>4 DEF TypeOK, TriggerAnswered, manager, disk,
       process
<1>11. CASE \E t \in Tasks : PreviewAnswered(t)
  <2>1. PICK t \in Tasks : PreviewAnswered(t)
    BY <1>11
  <2>2. pc' \in [Tasks -> PCs] /\ link' \in Seq(Tasks)
    BY <2>1, LinkType DEF TypeOK, PreviewAnswered, At
  <2> QED
    BY <2>1, <2>2 DEF TypeOK, PreviewAnswered, manager, captureDb, disk, process
<1>12. CASE \E t \in Tasks : RequestFull(t)
  <2>1. PICK t \in Tasks : RequestFull(t)
    BY <1>12
  <2>2. pc' \in [Tasks -> PCs] /\ link' \in Seq(Tasks) /\ cameraIdle' \in BOOLEAN
    BY <2>1, LinkType DEF TypeOK, RequestFull, At, Issue
  <2> QED
    BY <2>1, <2>2 DEF TypeOK, RequestFull, manager, captureDb, disk, process
<1>13. CASE \E t \in Tasks : FullAnswered(t)
  <2>1. PICK t \in Tasks : FullAnswered(t)
    BY <1>13
  <2>2. cur[t] \in Captures /\ left[t] \in Nat /\ left[t] > 0
    BY <2>1 DEF TypeOK, LocalsOK, FullAnswered
  <2>3. shots' \in [Tasks -> Seq(Captures)] /\ saved' \subseteq Captures
    <3>1. shots \in [Tasks -> Seq(Captures)] /\ saved \subseteq Captures
      BY DEF TypeOK
    <3>2. Append(shots[t], cur[t]) \in Seq(Captures)
      BY <2>2, <3>1, AppendProperties
    <3> QED BY <2>1, <2>2, <3>1, <3>2 DEF FullAnswered
  <2>4. left' \in [Tasks -> Nat] /\ cur' \in [Tasks -> Captures \cup {NoCapture}]
    BY <2>1, <2>2 DEF TypeOK, FullAnswered
  <2>5. link' \in Seq(Tasks) /\ cameraIdle' \in BOOLEAN /\ pc' \in [Tasks -> PCs]
    BY <2>1, LinkType, SetIdleType DEF FullAnswered
  <2> QED
    BY <2>1, <2>3, <2>4, <2>5 DEF TypeOK, FullAnswered, manager, captureDb,
       process
<1>14. CASE \E t \in Tasks : CameraFails(t)
  BY <1>14, SetIdleType, LinkType DEF TypeOK, CameraFails, At, manager, task,
     captureDb, disk, process
<1>15. CASE \E t \in Tasks : FailureSettled(t)
  <2>1. PICK t \in Tasks : FailureSettled(t)
    BY <1>15
  <2>2. state' \in States /\ rowState' \in [SessionIds -> States \cup {"none"}]
    BY <2>1, TransitionType DEF FailureSettled
  <2>3. /\ pc' \in [Tasks -> PCs] /\ left' \in [Tasks -> Nat]
        /\ shots' \in [Tasks -> Seq(Captures)]
        /\ cur' \in [Tasks -> Captures \cup {NoCapture}]
    BY <2>1, DropType DEF TypeOK, FailureSettled, At
  <2> QED
    BY <2>1, <2>2, <2>3 DEF TypeOK, FailureSettled, captureDb, disk, process
<1>16. CASE \E t \in Tasks : StorageFails(t)
  BY <1>16, SetIdleType, DropType, LinkType DEF TypeOK, StorageFails, At,
     manager, task, captureDb, disk, process
<1>17. CASE \E t \in Tasks : NextShot(t)
  <2>1. PICK t \in Tasks : NextShot(t)
    BY <1>17
  <2>2. state' \in States /\ rowState' \in [SessionIds -> States \cup {"none"}]
    BY <2>1, TransitionType DEF TypeOK, NextShot
  <2>3. /\ pc' \in [Tasks -> PCs] /\ left' \in [Tasks -> Nat]
        /\ shots' \in [Tasks -> Seq(Captures)]
        /\ cur' \in [Tasks -> Captures \cup {NoCapture}]
    BY <2>1, DropType DEF TypeOK, NextShot, At
  <2> QED
    BY <2>1, <2>2, <2>3 DEF TypeOK, NextShot, captureDb, disk, process
<1>18. CASE \E t \in Tasks : StartRender(t)
  BY <1>18 DEF TypeOK, StartRender, At, Answered, manager, task, captureDb,
     disk, process
<1>19. CASE \E t \in Tasks, c \in Captures : RenderAnswered(t, c)
  <2>1. PICK t \in Tasks, c \in Captures : RenderAnswered(t, c)
    BY <1>19
  <2>2. pc' \in [Tasks -> PCs] /\ cur' \in [Tasks -> Captures \cup {NoCapture}]
    BY <2>1 DEF TypeOK, RenderAnswered, At
  <2>3. /\ owner' \in [Captures -> SessionIds \cup {NoSession}]
        /\ sources' \in [Captures -> Seq(Captures)]
        /\ deliverable' \subseteq Captures /\ saved' \subseteq Captures
    BY <2>1 DEF TypeOK, RenderAnswered
  <2> QED
    BY <2>1, <2>2, <2>3 DEF TypeOK, RenderAnswered, manager, process
<1>20. CASE \E t \in Tasks : RenderFails(t)
  <2>1. PICK t \in Tasks : RenderFails(t)
    BY <1>20
  <2>2. /\ pc' \in [Tasks -> PCs] /\ left' \in [Tasks -> Nat]
        /\ shots' \in [Tasks -> Seq(Captures)]
        /\ cur' \in [Tasks -> Captures \cup {NoCapture}]
    BY <2>1, DropType DEF TypeOK, RenderFails, At
  <2> QED
    BY <2>1, <2>2 DEF TypeOK, RenderFails, manager, captureDb, disk, process
<1>21. CASE \E t \in Tasks, c \in Captures : Publish(t, c)
  <2>1. PICK t \in Tasks, c \in Captures : Publish(t, c)
    BY <1>21
  <2>2. state' \in States /\ rowState' \in [SessionIds -> States \cup {"none"}]
    BY <2>1, TransitionType DEF Publish
  <2>3. /\ pc' \in [Tasks -> PCs] /\ left' \in [Tasks -> Nat]
        /\ shots' \in [Tasks -> Seq(Captures)]
        /\ cur' \in [Tasks -> Captures \cup {NoCapture}]
    BY <2>1, DropType DEF TypeOK, Publish, At
  <2>4. shared' \subseteq SessionIds /\ uploads' \subseteq Captures
    BY <2>1 DEF TypeOK, Publish, IssueToken
  <2> QED
    BY <2>1, <2>2, <2>3, <2>4 DEF TypeOK, Publish, captureDb, disk, process
<1>22. CASE UNCHANGED vars
  BY <1>22 DEF TypeOK, vars, manager, task, captureDb, disk, process
<1> QED
  BY <1>1, <1>2, <1>3, <1>4, <1>5, <1>6, <1>7, <1>8, <1>9, <1>10, <1>11,
     <1>12, <1>13, <1>14, <1>15, <1>16, <1>17, <1>18, <1>19, <1>20, <1>21,
     <1>22 DEF Next, Request, TaskStep

(* Every step keeps the locals of each coroutine in order.                  *)
LEMMA LocalsStep ==
  ASSUME FlowAssumption, TypeOK, LocalsOK, [Next]_vars
  PROVE  LocalsOK'
<1>1. CASE \E slots \in SlotCounts : Arm(slots)
  BY <1>1 DEF LocalsOK, TypeOK, At, PCs, OnLink, manager, task, Arm,
     FlowAssumption
<1>2. CASE ArmFails
  BY <1>2 DEF LocalsOK, TypeOK, At, PCs, OnLink, manager, task, ArmFails
<1>3. CASE Dismiss
  BY <1>3 DEF LocalsOK, TypeOK, At, PCs, OnLink, manager, task, Dismiss
<1>4. CASE \E t \in Tasks : StartCapture(t)
  BY <1>4 DEF LocalsOK, TypeOK, At, PCs, OnLink, manager, task, StartCapture
<1>5. CASE Restart
  BY <1>5 DEF LocalsOK, TypeOK, At, PCs, OnLink, manager, task, Restart,
     ProcessRestarts
<1>6. CASE \E t \in Tasks : PowerLossWhilePublishing(t)
  BY <1>6 DEF LocalsOK, TypeOK, At, PCs, OnLink, manager, task,
     PowerLossWhilePublishing, ProcessRestarts
<1>7. CASE \E t \in Tasks : HoldAtGate(t)
  BY <1>7 DEF LocalsOK, TypeOK, At, PCs, OnLink, manager, task, HoldAtGate
<1>8. CASE \E t \in Tasks : Trigger(t)
  BY <1>8 DEF LocalsOK, TypeOK, At, PCs, OnLink, manager, task, Trigger
<1>9. CASE \E t \in Tasks : TriggerRefused(t)
  BY <1>9 DEF LocalsOK, TypeOK, At, PCs, OnLink, manager, task,
     TriggerRefused, DropLocals
<1>10. CASE \E t \in Tasks, c \in Captures : TriggerAnswered(t, c)
  BY <1>10 DEF LocalsOK, TypeOK, At, PCs, OnLink, manager, task,
     TriggerAnswered
<1>11. CASE \E t \in Tasks : PreviewAnswered(t)
  BY <1>11 DEF LocalsOK, TypeOK, At, PCs, OnLink, manager, task,
     PreviewAnswered
<1>12. CASE \E t \in Tasks : RequestFull(t)
  BY <1>12 DEF LocalsOK, TypeOK, At, PCs, OnLink, manager, task, RequestFull
<1>13. CASE \E t \in Tasks : FullAnswered(t)
  <2>1. PICK t \in Tasks : FullAnswered(t)
    BY <1>13
  <2>2. cur[t] \in Captures /\ shots[t] \in Seq(Captures)
    BY <2>1 DEF TypeOK, LocalsOK, FullAnswered
  <2>3. shots'[t] = Append(shots[t], cur[t]) /\ shots'[t] # <<>>
    <3>1. shots'[t] = Append(shots[t], cur[t])
      BY <2>1 DEF TypeOK, FullAnswered
    <3>2. Append(shots[t], cur[t]) # <<>>
      BY <2>2
    <3> QED BY <3>1, <3>2
  <2>4. pc'[t] = "announced"
    BY <2>1 DEF TypeOK, FullAnswered, SetIdleAndAt
  <2>5. \A u \in Tasks \ {t} :
          /\ left'[u] = left[u] /\ shots'[u] = shots[u] /\ cur'[u] = cur[u]
          /\ pc'[u] = pc[u] \/ (pc[u] = "gate" /\ pc'[u] = "woken")
    BY <2>1 DEF TypeOK, FullAnswered, SetIdleAndAt
  <2> QED
    BY <2>1, <2>3, <2>4, <2>5 DEF LocalsOK, FullAnswered, manager
<1>14. CASE \E t \in Tasks : CameraFails(t)
  BY <1>14 DEF LocalsOK, TypeOK, At, PCs, OnLink, manager, task, CameraFails,
     SetIdleAndAt
<1>15. CASE \E t \in Tasks : FailureSettled(t)
  BY <1>15 DEF LocalsOK, TypeOK, At, PCs, OnLink, manager, task,
     FailureSettled, DropLocals
<1>16. CASE \E t \in Tasks : StorageFails(t)
  BY <1>16 DEF LocalsOK, TypeOK, At, PCs, OnLink, manager, task, StorageFails,
     SetIdleAndAt, DropLocals
<1>17. CASE \E t \in Tasks : NextShot(t)
  BY <1>17 DEF LocalsOK, TypeOK, At, PCs, OnLink, manager, task, NextShot,
     DropLocals, Transition
<1>18. CASE \E t \in Tasks : StartRender(t)
  BY <1>18 DEF LocalsOK, TypeOK, At, PCs, OnLink, manager, task, StartRender
<1>19. CASE \E t \in Tasks, c \in Captures : RenderAnswered(t, c)
  BY <1>19 DEF LocalsOK, TypeOK, At, PCs, OnLink, manager, task, RenderAnswered
<1>20. CASE \E t \in Tasks : RenderFails(t)
  BY <1>20 DEF LocalsOK, TypeOK, At, PCs, OnLink, manager, task, RenderFails,
     DropLocals
<1>21. CASE \E t \in Tasks, c \in Captures : Publish(t, c)
  BY <1>21 DEF LocalsOK, TypeOK, At, PCs, OnLink, manager, task, Publish,
     DropLocals
<1>22. CASE UNCHANGED vars
  BY <1>22 DEF LocalsOK, vars, manager, task
<1> QED
  BY <1>1, <1>2, <1>3, <1>4, <1>5, <1>6, <1>7, <1>8, <1>9, <1>10, <1>11,
     <1>12, <1>13, <1>14, <1>15, <1>16, <1>17, <1>18, <1>19, <1>20, <1>21,
     <1>22 DEF Next, Request, TaskStep
-----------------------------------------------------------------------------
(* Whoever leaves the download opens the gate, and opening it wakes all.     *)
LEMMA GateStep ==
  ASSUME TypeOK, GateConsistent, [Next]_vars
  PROVE  GateConsistent'
<1>1. CASE UNCHANGED <<pc, cameraIdle>>
  BY <1>1 DEF GateConsistent
<1>2. CASE \E t \in Tasks, next \in PCs \ {"gate"} :
              pc[t] # "full" /\ pc' = At(t, next) /\ UNCHANGED cameraIdle
  BY <1>2 DEF GateConsistent, TypeOK, At
<1>3. CASE \E t \in Tasks, next \in PCs \ {"gate"} : SetIdleAndAt(t, next)
  BY <1>3 DEF GateConsistent, TypeOK, SetIdleAndAt
<1>4. CASE \E t \in Tasks : HoldAtGate(t)
  BY <1>4 DEF GateConsistent, TypeOK, HoldAtGate, At
<1>5. CASE \E t \in Tasks : RequestFull(t)
  BY <1>5 DEF GateConsistent, TypeOK, RequestFull, At
<1>6. CASE ProcessRestarts
  BY <1>6 DEF GateConsistent, ProcessRestarts
<1>7. ASSUME NEW t \in Tasks, TaskStep(t), ~HoldAtGate(t), ~RequestFull(t)
      PROVE  \E next \in PCs \ {"gate"} :
               \/ SetIdleAndAt(t, next)
               \/ pc[t] # "full" /\ pc' = At(t, next) /\ UNCHANGED cameraIdle
  BY <1>7 DEF TaskStep, Trigger, TriggerRefused, TriggerAnswered,
     PreviewAnswered,
              FullAnswered, CameraFails, FailureSettled, StorageFails, NextShot,
              StartRender, AllShot, RenderAnswered, RenderFails, Publish, Finalized,
              ShotIsFinal, PCs, OnLink
<1>8. ASSUME Request
      PROVE  \/ UNCHANGED <<pc, cameraIdle>>
             \/ \E t \in Tasks, next \in PCs \ {"gate"} :
                  pc[t] # "full" /\ pc' = At(t, next) /\ UNCHANGED cameraIdle
  BY <1>8 DEF Request, Arm, ArmFails, Dismiss, StartCapture, task, PCs
<1>9. UNCHANGED vars => UNCHANGED <<pc, cameraIdle>>
  BY DEF vars, task
<1> QED
  BY <1>1, <1>2, <1>3, <1>4, <1>5, <1>6, <1>7, <1>8, <1>9
  DEF Next, Restart, PowerLossWhilePublishing
-----------------------------------------------------------------------------
(* Pictures reach the shots, the composites and the upload jobs only after   *)
(* their file is on disk, and no file is ever taken away.                    *)
LEMMA SavedStep ==
  ASSUME TypeOK, LocalsOK, ShotsSaved, UploadsOnDisk, [Next]_vars
  PROVE  ShotsSaved' /\ UploadsOnDisk'
<1>1. saved \subseteq saved'
  BY DEF Next, Request, Arm, ArmFails, Dismiss, StartCapture, Restart,
         PowerLossWhilePublishing, ProcessRestarts, TaskStep, HoldAtGate, Trigger,
         TriggerRefused, TriggerAnswered, PreviewAnswered, RequestFull,
         FullAnswered, CameraFails, FailureSettled, StorageFails, NextShot,
         StartRender, RenderAnswered, RenderFails, Publish, vars, disk
<1>2. CASE UNCHANGED <<shots, uploads>>
           /\ (\A t \in Tasks : pc'[t] = "composed" => pc[t] = "composed" /\ cur'[t] = cur[t])
  BY <1>1, <1>2 DEF ShotsSaved, UploadsOnDisk
<1>3. CASE \E t \in Tasks : FullAnswered(t)
  <2>1. PICK t \in Tasks : FullAnswered(t)
    BY <1>3
  <2>2. cur[t] \in Captures /\ shots[t] \in Seq(Captures)
    BY <2>1 DEF TypeOK, LocalsOK, FullAnswered
  <2>3. \A i \in 1 .. Len(shots'[t]) : shots'[t][i] \in saved'
    BY <2>1, <2>2 DEF TypeOK, FullAnswered, ShotsSaved
  <2>4. \A u \in Tasks \ {t} : shots'[u] = shots[u] /\ cur'[u] = cur[u]
    BY <2>1 DEF TypeOK, FullAnswered
  <2>5. \A u \in Tasks : pc'[u] = "composed" => u # t /\ pc[u] = "composed"
    BY <2>1 DEF TypeOK, FullAnswered, SetIdleAndAt
  <2>6. ShotsSaved'
    BY <1>1, <2>3, <2>4, <2>5 DEF ShotsSaved
  <2> QED
    BY <1>1, <2>1, <2>6 DEF UploadsOnDisk, FullAnswered
<1>4. CASE \E t \in Tasks, c \in Captures : RenderAnswered(t, c)
  BY <1>1, <1>4 DEF TypeOK, ShotsSaved, UploadsOnDisk, RenderAnswered, At
<1>5. CASE \E t \in Tasks : DropLocals(t) /\ pc' = At(t, "free") /\ UNCHANGED uploads
  BY <1>1, <1>5 DEF TypeOK, ShotsSaved, UploadsOnDisk, DropLocals, At
<1>6. CASE \E t \in Tasks : StorageFails(t)
  BY <1>1, <1>6 DEF TypeOK, ShotsSaved, UploadsOnDisk, StorageFails,
     SetIdleAndAt,
                    DropLocals, At
<1>7. CASE \E t \in Tasks, c \in Captures : Publish(t, c)
  <2>1. PICK t \in Tasks, c \in Captures : Publish(t, c)
    BY <1>7
  <2>2. c \in saved
    BY <2>1, FinalizedSaved DEF Publish
  <2> QED
    BY <1>1, <2>1, <2>2 DEF TypeOK, ShotsSaved, UploadsOnDisk, Publish,
       DropLocals, At
<1>8. CASE ProcessRestarts /\ UNCHANGED uploads
  BY <1>1, <1>8 DEF ShotsSaved, UploadsOnDisk, ProcessRestarts
<1>9. ASSUME NEW t \in Tasks,
             \/ HoldAtGate(t) \/ Trigger(t) \/ \E c \in Captures : TriggerAnswered(t, c)
             \/ PreviewAnswered(t) \/ RequestFull(t) \/ CameraFails(t) \/ StartRender(t)
      PROVE  UNCHANGED <<shots, uploads>>
             /\ \A u \in Tasks : pc'[u] = "composed" => pc[u] = "composed" /\ cur'[u] = cur[u]
  BY <1>9 DEF TypeOK, HoldAtGate, Trigger, TriggerAnswered, PreviewAnswered,
              RequestFull, CameraFails, StartRender, At, SetIdleAndAt
<1>10. ASSUME Request \/ UNCHANGED vars
       PROVE  UNCHANGED <<shots, uploads>>
              /\ \A u \in Tasks : pc'[u] = "composed" => pc[u] = "composed" /\ cur'[u] = cur[u]
  BY <1>10 DEF TypeOK, Request, Arm, ArmFails, Dismiss, StartCapture, At,
     vars, task
<1>11. ASSUME NEW t \in Tasks, NextShot(t)
       PROVE  ShotsSaved' /\ UploadsOnDisk'
  <2>1. UNCHANGED uploads
    BY <1>11 DEF NextShot
  <2>2. CASE pc' = At(t, "free") /\ DropLocals(t)
    BY <1>5, <2>1, <2>2
  <2>3. CASE pc' = At(t, "countdown") /\ UNCHANGED <<shots, cur>>
    <3>1. \A u \in Tasks : pc'[u] = "composed" => pc[u] = "composed" /\ cur'[u] = cur[u]
      BY <2>3 DEF TypeOK, At
    <3> QED BY <1>2, <2>1, <2>3, <3>1
  <2> QED
    BY <1>11, <2>2, <2>3 DEF NextShot
<1> QED
  BY <1>2, <1>3, <1>4, <1>5, <1>6, <1>7, <1>8, <1>9, <1>10, <1>11
  DEF Next, TaskStep, Restart, PowerLossWhilePublishing, TriggerRefused,
      FailureSettled, RenderFails
-----------------------------------------------------------------------------
(* Only arm() and a restart begin a session, and both find the machine (or   *)
(* leave it) in IDLE; every other step writes the current session's row.     *)
LEMMA RowsStep ==
  ASSUME FlowAssumption, TypeOK, RowsOK, [Next]_vars
  PROVE  RowsOK'
<1>1. CASE UNCHANGED <<state, sid, rowState, bootSid>>
  BY <1>1 DEF RowsOK
<1>2. CASE \E target \in States : Transition(target) /\ UNCHANGED <<sid, bootSid>>
  BY <1>2 DEF RowsOK, TypeOK, Transition, SessionIds, FlowAssumption
<1>3. CASE \E slots \in SlotCounts : Arm(slots)
  <2>1. state = "idle" /\ state' = "armed" /\ sid' = sid + 1 /\ bootSid' = bootSid
    BY <1>3, ArmOnlyIdle DEF TypeOK, Arm, process
  <2>2. rowState' = [rowState EXCEPT ![sid + 1] = "armed"] /\ sid + 1 \in SessionIds
    BY <1>3 DEF TypeOK, Arm, SessionIds, FlowAssumption
  <2> QED
    BY <2>1, <2>2 DEF RowsOK, TypeOK, SessionIds, FlowAssumption
<1>4. CASE ArmFails
  <2>1. state = "idle" /\ sid' = sid + 1 /\ bootSid' = bootSid /\ rowState' = rowState
    BY <1>4, ArmOnlyIdle DEF TypeOK, ArmFails, process
  <2> QED
    BY <2>1 DEF RowsOK, TypeOK, SessionIds, FlowAssumption
<1>5. CASE ProcessRestarts
  BY <1>5 DEF RowsOK, TypeOK, ProcessRestarts, SessionIds, FlowAssumption
<1>6. ASSUME NEW t \in Tasks, TaskStep(t)
      PROVE  \/ UNCHANGED <<state, sid, rowState, bootSid>>
             \/ \E target \in States : Transition(target) /\ UNCHANGED <<sid, bootSid>>
  BY <1>6 DEF TaskStep, HoldAtGate, Trigger, TriggerRefused, TriggerAnswered,
              PreviewAnswered, RequestFull, FullAnswered, CameraFails,
              FailureSettled, StorageFails, NextShot, StartRender, RenderAnswered,
              RenderFails, Publish, TryTransition, States, manager, process
<1>7. ASSUME Dismiss \/ \E t \in Tasks : StartCapture(t)
      PROVE  \E target \in States : Transition(target) /\ UNCHANGED <<sid, bootSid>>
  BY <1>7 DEF Dismiss, StartCapture, States, process
<1>8. UNCHANGED vars => UNCHANGED <<state, sid, rowState, bootSid>>
  BY DEF vars, manager, process
<1> QED
  BY <1>1, <1>2, <1>3, <1>4, <1>5, <1>6, <1>7, <1>8
  DEF Next, Request, Restart, PowerLossWhilePublishing
-----------------------------------------------------------------------------
(* REVIEW is entered from Publish only, and left before the next arm().      *)
LEMMA ReviewStep ==
  ASSUME TypeOK, LocalsOK, ShotsSaved, ReviewComplete, [Next]_vars
  PROVE  ReviewComplete'
<1>1. CASE \E t \in Tasks, c \in Captures : Publish(t, c)
  <2>1. PICK t \in Tasks, c \in Captures : Publish(t, c)
    BY <1>1
  <2>2. c \in saved
    BY <2>1, FinalizedSaved DEF Publish
  <2> QED
    BY <2>1, <2>2 DEF ReviewComplete, Publish, disk
<1>2. CASE /\ saved \subseteq saved' /\ UNCHANGED <<sessionCaptures, uploads>>
           /\ state' = "review" => state = "review"
  BY <1>2 DEF ReviewComplete
<1>3. CASE state' # "review"
  BY <1>3 DEF ReviewComplete
<1>4. ASSUME NEW t \in Tasks, TaskStep(t), ~\E c \in Captures : Publish(t, c)
      PROVE  /\ saved \subseteq saved' /\ UNCHANGED <<sessionCaptures, uploads>>
             /\ state' = "review" => state = "review"
  BY <1>4 DEF TaskStep, HoldAtGate, Trigger, TriggerRefused, TriggerAnswered,
              PreviewAnswered, RequestFull, FullAnswered, CameraFails,
              FailureSettled, StorageFails, NextShot, StartRender, RenderAnswered,
              RenderFails, TryTransition, Transition, manager, disk
<1>5. Request \/ ProcessRestarts => state' # "review"
  BY DEF Request, Arm, ArmFails, Dismiss, StartCapture, Transition,
     ProcessRestarts
<1>6. UNCHANGED vars => UNCHANGED <<state, sessionCaptures, uploads, saved>>
  BY DEF vars, manager, disk
<1> QED
  BY <1>1, <1>2, <1>3, <1>4, <1>5, <1>6 DEF Next, Restart,
     PowerLossWhilePublishing
-----------------------------------------------------------------------------
(* The inductive invariant: the properties, and what they rest on.           *)
IInv == TypeOK /\ LocalsOK /\ GateConsistent /\ ShotsSaved /\ UploadsOnDisk
        /\ ReviewComplete /\ RowsOK

LEMMA InitIInv == ASSUME FlowAssumption, Init PROVE IInv
  BY DEF FlowAssumption, Init, IInv, TypeOK, LocalsOK, GateConsistent,
     ShotsSaved,
         UploadsOnDisk, ReviewComplete, RowsOK, States, PCs, SessionIds, NoTemplate

LEMMA InductiveIInv == Spec => []IInv
<1>1. Init => IInv
  BY FlowAssumption, InitIInv
<1>2. IInv /\ [Next]_vars => IInv'
  BY FlowAssumption, TypeStep, LocalsStep, GateStep, SavedStep, ReviewStep,
     RowsStep DEF IInv
<1> QED
  BY <1>1, <1>2, PTL DEF Spec

(* The capture flow keeps every attribute, local, row and file well typed,   *)
(* for every client and every failure.                                       *)
THEOREM TypeCorrect == Spec => []TypeOK
  BY InductiveIInv, PTL DEF IInv

(* The camera gate never loses a wakeup, however many coroutines share it.   *)
THEOREM GateNeverStuck == Spec => []GateConsistent
  BY InductiveIInv, PTL DEF IInv

(* No upload job ever names a file that is not completely written, although  *)
(* coroutines of dismissed sessions run on and publish late.                 *)
THEOREM UploadsSafe == Spec => []UploadsOnDisk
  BY InductiveIInv, PTL DEF IInv

(* In REVIEW there is exactly one finished picture to show, print and share. *)
THEOREM ReviewShowsPicture == Spec => []ReviewComplete
  BY InductiveIInv, PTL DEF IInv

(* Together: whatever is promised to the upload worker or to the guest is    *)
(* complete on disk.                                                         *)
THEOREM PromisesKept == Spec => []PromisedOnDisk
  BY UploadsSafe, ReviewShowsPicture, PTL DEF PromisedOnDisk

(* At most one session of the running process is live in the database, and   *)
(* its row is the machine's state.                                           *)
THEOREM SingleSession == Spec => []OneActiveSession
<1>1. IInv => OneActiveSession
  BY DEF IInv, TypeOK, RowsOK, OneActiveSession, SessionIds
<1> QED
  BY <1>1, InductiveIInv, PTL
-----------------------------------------------------------------------------
(* Who owns which picture.  CompositesDisjoint, for any number of coroutines *)
(* that share the session manager: a coroutine holds the shots it has        *)
(* collected and the one under way, nobody else holds them, no composite is  *)
(* made of them until its own is, and none is a deliverable unless it is the *)
(* only one.  And for an orderly client, that the pictures, the share page   *)
(* and the camera are the session's own: OwnShotsOnly, SharingSound,         *)
(* HandleKeptFree.                                                           *)

(* Between the shutter and the end of its download a shot is in cur.         *)
Shooting == {"preview", "previewed", "full"}

Taken(t) == {shots[t][i] : i \in 1 .. Len(shots[t])}
Held(t)  == Taken(t) \cup {x \in {cur[t]} : pc[t] \in Shooting}
Used(c)  == {sources[c][i] : i \in 1 .. Len(sources[c])}

Distinct(s) == \A i, j \in 1 .. Len(s) : s[i] = s[j] => i = j

(* What one coroutine holds, by where it is.                                 *)
HoldsOwn(t) ==
  /\ Distinct(shots[t])
  /\ pc[t] = "free" => shots[t] = <<>>
  /\ pc[t] = "render" => Len(shots[t]) > 1
  /\ pc[t] \in Shooting =>
       /\ cur[t] \notin Taken(t) /\ owner[cur[t]] # NoSession
       /\ cur[t] \in deliverable => left[t] = 1 /\ shots[t] = <<>>
  /\ Len(shots[t]) > 1 \/ left[t] > 0 => Taken(t) \cap deliverable = {}

(* What a composite was made of.                                             *)
MadeOf(c) == Distinct(sources[c]) /\ Used(c) \subseteq saved \ deliverable

ShotsApart ==
  /\ \A t \in Tasks : HoldsOwn(t)
  /\ \A t, u \in Tasks : t # u => Held(t) \cap Held(u) = {}
  /\ \A t \in Tasks, c \in Captures : pc[t] # "composed" => Held(t) \cap Used(c) = {}
  /\ \A c \in Captures : MadeOf(c)
  /\ \A c, d \in Captures : c # d => Used(c) \cap Used(d) = {}
  /\ \A c \in deliverable : owner[c] # NoSession
-----------------------------------------------------------------------------
(* A coroutine that goes on with what it holds, or drops it.                 *)
Keeps(t) ==
  /\ shots'[t] = shots[t] /\ cur'[t] = cur[t]
  /\ pc'[t] \in Shooting => pc[t] \in Shooting
  /\ pc[t] \in {"composed", "free"} => pc'[t] = pc[t] \/ shots[t] = <<>>
  /\ pc'[t] # "free"  \/ pc[t] = "free"
  /\ pc'[t] = "render" => Len(shots[t]) > 1
  /\ left'[t] = left[t] \/ (pc[t] \notin Shooting /\ (Len(shots[t]) > 1 \/ shots[t] = <<>>))

Drops(t) == shots'[t] = <<>> /\ pc'[t] \notin Shooting \cup {"render"}

(* Nothing new is shot or composed, and every coroutine keeps or drops: what *)
(* was apart stays apart.                                                    *)
LEMMA NothingNew ==
  ASSUME TypeOK, ShotsApart, UNCHANGED <<owner, deliverable, sources>>,
         saved \subseteq saved', \A t \in Tasks : Keeps(t) \/ Drops(t)
  PROVE  ShotsApart' /\ \A t \in Tasks : Held(t)' \subseteq Held(t)
<1>1. \A t \in Tasks : Held(t)' \subseteq Held(t) /\ Taken(t)' \subseteq Taken(t)
  BY DEF Keeps, Drops, Held, Taken
<1>2. \A c \in Captures : Used(c)' = Used(c) /\ MadeOf(c)'
  BY DEF ShotsApart, MadeOf, Used, Distinct
<1>3. \A t \in Tasks : HoldsOwn(t)'
  <2>1. TAKE t \in Tasks
  <2>2. HoldsOwn(t) /\ shots[t] \in Seq(Captures)
    BY DEF ShotsApart, TypeOK
  <2>3. CASE Drops(t)
    BY <2>3 DEF Drops, HoldsOwn, Distinct, Taken
  <2>4. CASE Keeps(t)
    BY <2>2, <2>4 DEF Keeps, HoldsOwn, Distinct, Taken, Shooting
  <2> QED BY <2>3, <2>4
<1>4. \A t \in Tasks : pc'[t] # "composed" => pc[t] # "composed" \/ Held(t)' = {}
  BY DEF Keeps, Drops, Held, Taken, Shooting
<1> QED
  BY <1>1, <1>2, <1>3, <1>4 DEF ShotsApart

(* The shutter fires: the coroutine takes an id nobody holds or used.        *)
LEMMA ShotTaken ==
  ASSUME TypeOK, LocalsOK, ShotsSaved, ShotsApart, NEW t \in Tasks, NEW c \in Captures,
         TriggerAnswered(t, c)
  PROVE  ShotsApart'
<1>1. owner[c] = NoSession /\ c \notin saved /\ pc[t] = "trigger"
  BY DEF TriggerAnswered, Fresh, Unissued
<1>2. /\ pc' = [pc EXCEPT ![t] = "preview"] /\ cur' = [cur EXCEPT ![t] = c]
      /\ UNCHANGED <<shots, left, sources, saved>>
      /\ owner' = [owner EXCEPT ![c] = sid]
      /\ deliverable' = IF left[t] = 1 /\ shots[t] = <<>>
                        THEN deliverable \cup {c} ELSE deliverable
  BY DEF TriggerAnswered, At, disk
<1>3. \A u \in Tasks : c \notin Held(u)
  <2>1. \A u \in Tasks : c \notin Taken(u)
    BY <1>1 DEF Taken, ShotsSaved
  <2>2. \A u \in Tasks : pc[u] \in Shooting => owner[cur[u]] # NoSession
    BY DEF ShotsApart, HoldsOwn
  <2> QED BY <1>1, <2>1, <2>2 DEF Held
<1>4. \A d \in Captures : c \notin Used(d)
  BY <1>1 DEF ShotsApart, MadeOf
<1>5. \A u \in Tasks : Taken(u)' = Taken(u)
  BY <1>2 DEF Taken
<1>6. Held(t)' = Taken(t) \cup {c} /\ \A u \in Tasks \ {t} : Held(u)' = Held(u)
  BY <1>1, <1>2, <1>5 DEF Held, TypeOK, Shooting
<1>7. \A d \in Captures : Used(d)' = Used(d) /\ MadeOf(d)'
  <2>1. \A d \in Captures : Used(d)' = Used(d) /\ Distinct(sources[d])'
    BY <1>2 DEF ShotsApart, MadeOf, Used, Distinct
  <2> QED BY <1>2, <1>4, <2>1 DEF ShotsApart, MadeOf
<1>8. \A u \in Tasks : HoldsOwn(u)'
  <2>1. TAKE u \in Tasks
  <2>2. HoldsOwn(u) /\ Distinct(shots[u])' /\ Taken(u)' = Taken(u) /\ c \notin Taken(u)
    BY <1>2, <1>3, <1>5 DEF ShotsApart, HoldsOwn, Distinct, Held
  <2>3. CASE u = t
    <3>1. pc'[u] = "preview" /\ cur'[u] = c /\ sid # NoSession /\ owner'[c] = sid
      BY <1>2, <2>3 DEF TypeOK, SessionIds, NoSession
    <3>2. c \notin deliverable
      BY <1>1 DEF ShotsApart
    <3> QED BY <1>2, <2>2, <2>3, <3>1, <3>2 DEF HoldsOwn, Shooting, Taken
  <2>4. CASE u # t
    <3>1. pc'[u] = pc[u] /\ cur'[u] = cur[u]
      BY <1>2, <2>4 DEF TypeOK
    <3>2. pc[u] \in Shooting => cur[u] # c /\ owner'[cur[u]] = owner[cur[u]]
      BY <1>2, <1>3 DEF Held, TypeOK
    <3> QED BY <1>2, <2>2, <3>1, <3>2 DEF HoldsOwn
  <2> QED BY <2>3, <2>4
<1>9. \A u \in Tasks : pc'[u] # "composed" => pc[u] # "composed"
  BY <1>1, <1>2 DEF TypeOK
<1>10. \A u, v \in Tasks : u # v => (Held(u) \cap Held(v) = {})'
  BY <1>3, <1>6 DEF ShotsApart, Held
<1>11. \A u \in Tasks, d \in Captures : pc'[u] # "composed" => (Held(u) \cap Used(d) = {})'
  BY <1>4, <1>6, <1>7, <1>9 DEF ShotsApart, Held
<1>12. \A d \in deliverable' : owner'[d] # NoSession
  BY <1>2 DEF ShotsApart, TypeOK, SessionIds, NoSession
<1> QED
  BY <1>7, <1>8, <1>10, <1>11, <1>12 DEF ShotsApart

(* The download ends: the shot moves from cur to the shots.                  *)
LEMMA ShotKept ==
  ASSUME TypeOK, LocalsOK, ShotsApart, NEW t \in Tasks, FullAnswered(t)
  PROVE  ShotsApart' /\ \A u \in Tasks : Held(u)' = Held(u)
<1>1. /\ pc[t] = "full" /\ cur[t] \in Captures /\ left[t] \in Nat /\ left[t] > 0
      /\ shots[t] \in Seq(Captures)
  BY DEF FullAnswered, LocalsOK, TypeOK
<1>2. /\ shots'[t] = Append(shots[t], cur[t]) /\ left'[t] = left[t] - 1
      /\ pc'[t] = "announced" /\ cur'[t] = NoCapture
      /\ UNCHANGED <<owner, deliverable, sources>> /\ saved \subseteq saved'
  BY DEF FullAnswered, SetIdleAndAt, TypeOK, captureDb
<1>3. \A u \in Tasks \ {t} :
        /\ shots'[u] = shots[u] /\ left'[u] = left[u] /\ cur'[u] = cur[u]
        /\ pc'[u] = pc[u] \/ (pc[u] = "gate" /\ pc'[u] = "woken")
  BY DEF FullAnswered, SetIdleAndAt, TypeOK
<1>4. Taken(t)' = Taken(t) \cup {cur[t]} /\ Held(t)' = Held(t)
  <2>1. /\ Len(shots'[t]) = Len(shots[t]) + 1
        /\ \A i \in 1 .. Len(shots[t]) : shots'[t][i] = shots[t][i]
        /\ shots'[t][Len(shots[t]) + 1] = cur[t]
    BY <1>1, <1>2
  <2>2. Taken(t)' = Taken(t) \cup {cur[t]}
    <3>1. Len(shots[t]) \in Nat
      BY <1>1
    <3>2. 1 .. Len(shots'[t]) = (1 .. Len(shots[t])) \cup {Len(shots[t]) + 1}
      BY <2>1, <3>1
    <3>3. Taken(t)' = {shots'[t][i] : i \in 1 .. Len(shots'[t])}
      BY DEF Taken
    <3> QED
      BY <2>1, <3>2, <3>3, Zenon DEF Taken
  <2> QED BY <1>1, <1>2, <2>2 DEF Held, Shooting
<1>5. \A u \in Tasks : Held(u)' = Held(u)
  <2>1. TAKE u \in Tasks
  <2>2. CASE u # t
    <3>1. Taken(u)' = Taken(u) /\ cur'[u] = cur[u]
      BY <1>3, <2>2 DEF Taken
    <3>2. pc'[u] \in Shooting <=> pc[u] \in Shooting
      BY <1>3, <2>2 DEF Shooting
    <3> QED BY <3>1, <3>2 DEF Held
  <2> QED BY <1>4, <2>2
<1>6. \A d \in Captures : Used(d)' = Used(d) /\ MadeOf(d)'
  BY <1>2 DEF ShotsApart, MadeOf, Used, Distinct
<1>7. HoldsOwn(t)'
  <2>1. HoldsOwn(t) /\ cur[t] \notin Taken(t)
    BY <1>1 DEF ShotsApart, HoldsOwn, Shooting
  <2>2. Distinct(shots[t])'
    BY <1>1, <1>2, <2>1 DEF HoldsOwn, Distinct, Taken
  <2>3. ASSUME Len(shots'[t]) > 1 \/ left'[t] > 0
        PROVE  Taken(t)' \cap deliverable' = {}
    <3>1. shots[t] # <<>> \/ left[t] # 1
      BY <1>1, <1>2, <2>3
    <3>2. cur[t] \notin deliverable
      BY <1>1, <2>1, <3>1 DEF HoldsOwn, Shooting
    <3> QED BY <1>1, <1>2, <1>4, <2>1, <3>2 DEF HoldsOwn
  <2> QED BY <1>2, <2>2, <2>3 DEF HoldsOwn, Shooting
<1>8. \A u \in Tasks \ {t} : HoldsOwn(u)'
  BY <1>2, <1>3 DEF ShotsApart, HoldsOwn, Distinct, Taken, Shooting
<1>9. \A u \in Tasks : pc'[u] # "composed" => pc[u] # "composed"
  BY <1>1, <1>2, <1>3
<1> QED
  BY <1>2, <1>5, <1>6, <1>7, <1>8, <1>9 DEF ShotsApart

(* The render ends: its shots go to the composite and to nobody else.        *)
LEMMA ShotsUsed ==
  ASSUME TypeOK, ShotsSaved, ShotsApart, NEW t \in Tasks, NEW c \in Captures,
         RenderAnswered(t, c)
  PROVE  ShotsApart'
<1>1. c \notin saved /\ owner[c] = NoSession /\ pc[t] = "render"
  BY DEF RenderAnswered, Fresh, Unissued
<1>2. /\ pc' = [pc EXCEPT ![t] = "composed"] /\ cur' = [cur EXCEPT ![t] = c]
      /\ sources' = [sources EXCEPT ![c] = shots[t]]
      /\ owner' = [owner EXCEPT ![c] = sid]
      /\ deliverable' = deliverable \cup {c} /\ saved' = saved \cup {c}
      /\ UNCHANGED <<shots, left>>
  BY DEF RenderAnswered, At
<1>3. \A u \in Tasks : Taken(u)' = Taken(u) /\ c \notin Taken(u)
  BY <1>1, <1>2 DEF Taken, ShotsSaved
<1>4. Held(t) = Taken(t) /\ Held(t)' = Taken(t)
  BY <1>1, <1>2, <1>3 DEF Held, Shooting, TypeOK
<1>5. \A u \in Tasks \ {t} : Held(u)' = Held(u)
  BY <1>2, <1>3 DEF Held, TypeOK
<1>6. Used(c)' = Taken(t) /\ \A d \in Captures \ {c} : Used(d)' = Used(d)
  BY <1>2 DEF Used, Taken, TypeOK
<1>7. Len(shots[t]) > 1 /\ Distinct(shots[t])
      /\ Taken(t) \cap deliverable = {} /\ Taken(t) \subseteq saved
  BY <1>1 DEF ShotsApart, HoldsOwn, ShotsSaved, Taken
<1>8. \A d \in Captures : MadeOf(d)'
  <2>1. MadeOf(c)'
    <3>1. Distinct(sources[c])'
      BY <1>2, <1>7 DEF Distinct, TypeOK
    <3> QED BY <1>2, <1>3, <1>6, <1>7, <3>1 DEF MadeOf
  <2>2. ASSUME NEW d \in Captures \ {c} PROVE MadeOf(d)'
    <3>1. MadeOf(d) /\ sources'[d] = sources[d] /\ c \notin Used(d)
      BY <1>1, <1>2 DEF ShotsApart, MadeOf, TypeOK
    <3> QED BY <1>2, <1>6, <3>1 DEF MadeOf, Distinct
  <2> QED BY <2>1, <2>2
<1>9. \A u \in Tasks : HoldsOwn(u)'
  <2>1. TAKE u \in Tasks
  <2>2. HoldsOwn(u) /\ Distinct(shots[u])' /\ Taken(u)' = Taken(u) /\ c \notin Taken(u)
    BY <1>2, <1>3 DEF ShotsApart, HoldsOwn, Distinct
  <2>3. CASE u = t
    <3>1. pc'[u] = "composed"
      BY <1>2, <2>3 DEF TypeOK
    <3> QED BY <1>2, <2>2, <3>1 DEF HoldsOwn, Shooting
  <2>4. CASE u # t
    <3>1. pc'[u] = pc[u] /\ cur'[u] = cur[u]
      BY <1>2, <2>4 DEF TypeOK
    <3>2. pc[u] \in Shooting => cur[u] # c /\ owner'[cur[u]] = owner[cur[u]]
      BY <1>1, <1>2, <2>2 DEF HoldsOwn, TypeOK
    <3> QED BY <1>2, <2>2, <3>1, <3>2 DEF HoldsOwn
  <2> QED BY <2>3, <2>4
<1>10. \A u, v \in Tasks : u # v => (Held(u) \cap Held(v) = {})'
  BY <1>4, <1>5 DEF ShotsApart
<1>11. \A u \in Tasks, d \in Captures : pc'[u] # "composed" => (Held(u) \cap Used(d) = {})'
  <2>1. TAKE u \in Tasks, d \in Captures
  <2>2. CASE u = t
    BY <1>2, <2>2 DEF TypeOK
  <2>3. CASE u # t
    <3>1. Held(u)' = Held(u) /\ pc'[u] = pc[u] /\ Held(u) \cap Held(t) = {}
      BY <1>2, <1>5, <2>3 DEF ShotsApart, TypeOK
    <3> QED BY <1>4, <1>6, <3>1 DEF ShotsApart
  <2> QED BY <2>2, <2>3
<1>12. \A d, e \in Captures : d # e => (Used(d) \cap Used(e) = {})'
  <2>1. \A d \in Captures : Taken(t) \cap Used(d) = {}
    BY <1>1, <1>4 DEF ShotsApart
  <2> QED BY <1>6, <2>1 DEF ShotsApart
<1>13. \A d \in deliverable' : owner'[d] # NoSession
  BY <1>2 DEF ShotsApart, TypeOK, SessionIds, NoSession
<1> QED
  BY <1>8, <1>9, <1>10, <1>11, <1>12, <1>13 DEF ShotsApart
-----------------------------------------------------------------------------
(* Every other step of a coroutine, and every request and restart, makes     *)
(* each coroutine keep or drop what it holds.                                *)
LEMMA OthersKeep ==
  ASSUME TypeOK, LocalsOK, ShotsApart, [Next]_vars,
         ~\E t \in Tasks, c \in Captures : TriggerAnswered(t, c) \/ RenderAnswered(t, c),
         ~\E t \in Tasks : FullAnswered(t)
  PROVE  /\ UNCHANGED <<owner, deliverable, sources>> /\ saved \subseteq saved'
         /\ \A t \in Tasks : Keeps(t) \/ Drops(t)
<1> DEFINE Quiet == UNCHANGED <<owner, deliverable, sources, saved>>
           Goes(t) == Keeps(t) \/ Drops(t)
<1>1. \A t \in Tasks : /\ pc[t] = "free" => shots[t] = <<>>
                       /\ pc[t] = "render" => Len(shots[t]) > 1
  BY DEF TypeOK, ShotsApart, HoldsOwn
<1>2. ASSUME NEW t \in Tasks, NEW next \in PCs \ {"free", "render"},
             UNCHANGED <<shots, cur, left>>, pc' = At(t, next), pc[t] \notin {"composed", "free"},
             next \in Shooting => pc[t] \in Shooting
      PROVE  \A u \in Tasks : Goes(u)
  BY <1>1, <1>2 DEF Keeps, At, TypeOK
<1>3. ASSUME NEW t \in Tasks, DropLocals(t), pc' = At(t, "free")
      PROVE  \A u \in Tasks : Goes(u)
  BY <1>1, <1>3 DEF Keeps, Drops, DropLocals, At, TypeOK, Shooting
<1>4. ASSUME UNCHANGED task PROVE \A u \in Tasks : Goes(u)
  BY <1>1, <1>4 DEF Keeps, task
<1>5. ASSUME NEW t \in Tasks, NEW next \in {"failing", "free"}, SetIdleAndAt(t, next),
             \/ next = "failing" /\ UNCHANGED <<shots, cur, left>> /\ pc[t] \in OnLink
             \/ next = "free" /\ DropLocals(t)
      PROVE  \A u \in Tasks : Goes(u)
  BY <1>1, <1>5 DEF Keeps, Drops, DropLocals, SetIdleAndAt, TypeOK, Shooting, OnLink
<1>6. ASSUME NEW t \in Tasks, TaskStep(t)
      PROVE  Quiet /\ \A u \in Tasks : Goes(u)
  <2>1. CASE HoldAtGate(t) \/ Trigger(t) \/ PreviewAnswered(t) \/ RequestFull(t)
    <3>1. Quiet /\ UNCHANGED <<shots, cur, left>>
      BY <2>1 DEF HoldAtGate, Trigger, PreviewAnswered, RequestFull, captureDb, disk
    <3>2. \E next \in PCs \ {"free", "render"} :
            /\ pc' = At(t, next) /\ pc[t] \notin {"composed", "free"}
            /\ next \in Shooting => pc[t] \in Shooting
      BY <2>1 DEF HoldAtGate, Trigger, PreviewAnswered, RequestFull, PCs, OnLink, Shooting
    <3> QED BY <1>2, <3>1, <3>2
  <2>2. CASE \/ TriggerRefused(t) \/ FailureSettled(t) \/ RenderFails(t)
             \/ \E c \in Captures : Publish(t, c)
    BY <1>3, <2>2 DEF TriggerRefused, FailureSettled, RenderFails, Publish, captureDb, disk
  <2>3. CASE CameraFails(t)
    BY <1>5, <2>3 DEF CameraFails, captureDb, disk
  <2>4. CASE StorageFails(t)
    BY <1>3, <1>5, <2>4 DEF StorageFails, captureDb, disk
  <2>5. CASE NextShot(t)
    <3>1. Quiet /\ pc[t] = "announced"
      BY <2>5 DEF NextShot, captureDb, disk
    <3>2. CASE pc' = At(t, "countdown") /\ UNCHANGED <<left, shots, cur>>
      BY <1>2, <3>1, <3>2 DEF PCs, Shooting
    <3>3. CASE pc' = At(t, "free") /\ DropLocals(t)
      BY <1>3, <3>1, <3>3
    <3> QED BY <2>5, <3>1, <3>2, <3>3 DEF NextShot
  <2>6. CASE StartRender(t)
    <3>1. Len(shots[t]) > 1
      <4>1. pc[t] = "announced" /\ Len(shots[t]) # 1
        BY <2>6 DEF StartRender, AllShot, ShotIsFinal
      <4>2. shots[t] \in Seq(Captures) /\ shots[t] # <<>>
        BY <4>1 DEF LocalsOK, TypeOK
      <4>3. Len(shots[t]) \in Nat \ {0}
        BY <4>2, EmptySeq
      <4>4. \A n \in Nat \ {0} : n # 1 => n > 1
        OBVIOUS
      <4> QED BY <4>1, <4>3, <4>4
    <3> QED
      BY <1>1, <2>6, <3>1 DEF StartRender, AllShot, At, Keeps, TypeOK, Shooting,
         captureDb, disk
  <2> QED
    BY <1>6, <2>1, <2>2, <2>3, <2>4, <2>5, <2>6 DEF TaskStep
<1>7. ASSUME Request
      PROVE  Quiet /\ \A u \in Tasks : Goes(u)
  <2>1. CASE \E t \in Tasks : StartCapture(t)
    BY <1>1, <2>1 DEF StartCapture, At, Keeps, TypeOK, Shooting, captureDb, disk
  <2>2. CASE ~\E t \in Tasks : StartCapture(t)
    BY <1>4, <1>7, <2>2 DEF Request, Arm, ArmFails, Dismiss, captureDb, disk
  <2> QED BY <2>1, <2>2
<1>8. ASSUME ProcessRestarts
      PROVE  Quiet /\ \A u \in Tasks : Goes(u)
  BY <1>8 DEF ProcessRestarts, Drops, Shooting, captureDb, disk
<1>9. ASSUME UNCHANGED vars
      PROVE  Quiet /\ \A u \in Tasks : Goes(u)
  BY <1>4, <1>9 DEF vars, captureDb, disk
<1> QED
  BY <1>6, <1>7, <1>8, <1>9 DEF Next, Restart, PowerLossWhilePublishing

LEMMA ApartStep ==
  ASSUME IInv, ShotsApart, [Next]_vars
  PROVE  ShotsApart'
<1>1. CASE \E t \in Tasks, c \in Captures : TriggerAnswered(t, c)
  BY <1>1, ShotTaken DEF IInv
<1>2. CASE \E t \in Tasks, c \in Captures : RenderAnswered(t, c)
  BY <1>2, ShotsUsed DEF IInv
<1>3. CASE \E t \in Tasks : FullAnswered(t)
  BY <1>3, ShotKept DEF IInv
<1> QED
  BY <1>1, <1>2, <1>3, OthersKeep, NothingNew DEF IInv
-----------------------------------------------------------------------------
(* A sequence without repetition has as many elements as positions.          *)
LEMMA DistinctCount ==
  ASSUME NEW S, NEW s \in Seq(S), Distinct(s)
  PROVE  Cardinality({s[i] : i \in 1 .. Len(s)}) = Len(s)
<1> DEFINE R == {s[i] : i \in 1 .. Len(s)}
           f == [i \in 1 .. Len(s) |-> s[i]]
<1>1. f \in Bijection(1 .. Len(s), R)
  BY DEF Bijection, Injection, Surjection, IsInjective, Distinct
<1>2. ExistsBijection(1 .. Len(s), R)
  BY <1>1 DEF ExistsBijection
<1> QED
  BY <1>2, FS_CountingElements

(* Whatever coroutines of dismissed or concurrent sessions do to each other, *)
(* no two composites share a shot, and none contains a deliverable or a file *)
(* that is not on disk.                                                      *)
THEOREM CompositesApart == Spec => []CompositesDisjoint
<1>1. Init => ShotsApart
  BY DEF Init, ShotsApart, HoldsOwn, Distinct, MadeOf, Used, Held, Taken, Shooting
<1>2. IInv /\ ShotsApart /\ [Next]_vars => ShotsApart'
  BY ApartStep
<1>3. IInv /\ ShotsApart => CompositesDisjoint
  <2> SUFFICES ASSUME IInv, ShotsApart PROVE CompositesDisjoint
    OBVIOUS
  <2>1. \A c \in Captures : /\ sources[c] \in Seq(Captures)
                           /\ DOMAIN sources[c] = 1 .. Len(sources[c])
    BY DEF IInv, TypeOK
  <2>2. \A c \in Captures : Cardinality(Used(c)) = Len(sources[c])
    BY <2>1, DistinctCount DEF ShotsApart, MadeOf, Used
  <2>3. \A c \in Captures : \A d \in Captures \ {c} :
          \A i \in 1 .. Len(sources[d]) : sources[d][i] \notin Used(c)
    BY DEF ShotsApart, Used
  <2>4. \A c \in Captures : Used(c) \subseteq saved \ deliverable
    BY DEF ShotsApart, MadeOf
  <2>5. \A c \in Captures : {sources[c][i] : i \in DOMAIN sources[c]} = Used(c)
    BY <2>1 DEF Used
  <2> QED BY <2>1, <2>2, <2>3, <2>4, <2>5 DEF CompositesDisjoint
<1> QED
  BY <1>1, <1>2, <1>3, InductiveIInv, PTL DEF Spec
-----------------------------------------------------------------------------
(* What an orderly client adds.  It sends nothing while a coroutine runs, so *)
(* one coroutine at a time has the session and the camera to itself, and     *)
(* the machine is where the coroutine has brought it.                        *)
Alone ==
  /\ \A t, u \in Tasks : Busy(t) /\ Busy(u) => t = u
  /\ \A t \in Tasks : Busy(t) => state = IF pc[t] \in {"countdown", "gate", "woken"}
                                         THEN "countdown" ELSE "capturing"
  /\ \A t \in Tasks : pc[t] \in OnLink => link = <<t>>
  /\ link # <<>> => \E t \in Tasks : pc[t] \in OnLink

(* What the coroutine holds, and what a composite is made of, is of one      *)
(* session.                                                                  *)
OwnOK ==
  /\ \A c \in Captures : owner[c] <= sid
  /\ \A t \in Tasks : \A x \in Held(t) : owner[x] = sid
  /\ \A c \in Captures : /\ \A x \in Used(c) : owner[x] = owner[c]
                         /\ sources[c] # <<>> => c \in saved

(* A session with a row was armed with a template of its number of shots.    *)
CountOK ==
  /\ rowState[sid] # "none" => template = shotCount
  /\ \A t \in Tasks :
       /\ pc[t] \in {"countdown", "gate", "woken", "announced"} \cup OnLink \cup Shooting =>
            left[t] + Len(shots[t]) = shotCount
       /\ pc[t] \in Shooting /\ left[t] = 1 /\ shots[t] = <<>> => cur[t] \in deliverable
       /\ pc[t] = "announced" /\ left[t] = 0 /\ Len(shots[t]) = 1 => shots[t][1] \in deliverable
       /\ pc[t] = "composed" => cur[t] \in deliverable /\ owner[cur[t]] = sid

(* The deliverable of the session, if there is one, is what its coroutine    *)
(* works on, or left behind.                                                 *)
DeliverableOK ==
  \A c \in deliverable : owner[c] = sid =>
    /\ state # "armed"
    /\ \A t \in Tasks : Busy(t) => \/ c \in Held(t)
                                   \/ pc[t] = "composed" /\ c = cur[t]
                                   \/ pc[t] = "failing"

OrderlyInv == ShotsApart /\ Alone /\ OwnOK
SharingInv == CountOK /\ DeliverableOK /\ SharingSound

(* The one that runs, and what it has asked of the camera.                   *)
LEMMA RunsAlone ==
  ASSUME TypeOK, Alone, NEW t \in Tasks, Busy(t)
  PROVE  /\ \A u \in Tasks \ {t} : pc[u] = "free"
         /\ link = IF pc[t] \in OnLink THEN <<t>> ELSE <<>>
BY DEF Alone, Busy, OnLink

(* Where a step of a coroutine brings it, the machine and the camera's queue.*)
LEMMA TaskMoves ==
  ASSUME TypeOK, Alone, NEW t \in Tasks, TaskStep(t)
  PROVE  /\ Busy(t) /\ UNCHANGED <<sid, shotCount, template>>
         /\ state' \in {"countdown", "capturing", "review", "idle"}
         /\ \E next \in PCs :
              /\ pc' = At(t, next)
              /\ next # "free" => state' = IF next \in {"countdown", "gate", "woken"}
                                           THEN "countdown" ELSE "capturing"
              /\ link' = IF next \in OnLink THEN <<t>> ELSE <<>>
<1> DEFINE In(next) == IF next \in {"countdown", "gate", "woken"} THEN "countdown" ELSE "capturing"
           Queue(next) == IF next \in OnLink THEN <<t>> ELSE <<>>
           Goal == /\ Busy(t) /\ UNCHANGED <<sid, shotCount, template>>
                   /\ state' \in {"countdown", "capturing", "review", "idle"}
                   /\ \E next \in PCs :
                        /\ pc' = At(t, next)
                        /\ next # "free" => state' = In(next)
                        /\ link' = Queue(next)
<1>b. Busy(t) /\ pc[t] \in PCs
  BY DEF TaskStep, HoldAtGate, Trigger, TriggerRefused, TriggerAnswered, PreviewAnswered,
     RequestFull, FullAnswered, CameraFails, FailureSettled, StorageFails, NextShot, StartRender,
     AllShot, RenderAnswered, RenderFails, Publish, Finalized, ShotIsFinal, Busy, OnLink, TypeOK
<1>l. /\ link = Queue(pc[t]) /\ state = In(pc[t])
      /\ \A u \in Tasks \ {t} : pc[u] = "free"
  BY <1>b, RunsAlone DEF Alone
<1>q. /\ Append(<<>>, t) = <<t>> /\ Tail(<<t>>) = <<>> /\ <<t>> # <<>> /\ Head(<<t>>) = t
  OBVIOUS
<1>s. ASSUME NEW next \in PCs, SetIdleAndAt(t, next)
      PROVE  pc' = At(t, next)
  BY <1>l, <1>s DEF SetIdleAndAt, At, TypeOK
<1>m. ASSUME NEW target, Transition(target) \/ TryTransition(target)
      PROVE  state' = target \/ state' = state
  BY <1>m DEF Transition, TryTransition
<1>g. ASSUME NEW next \in PCs, pc' = At(t, next), UNCHANGED <<sid, shotCount, template>>,
             state' \in {"countdown", "capturing", "review", "idle"},
             next # "free" => state' = In(next),
             link' = Queue(next)
      PROVE  Goal
  BY <1>b, <1>g
<1> HIDE DEF Goal
<1>1. ASSUME HoldAtGate(t)
       PROVE  Goal
  BY <1>1, <1>g, <1>l DEF HoldAtGate, manager, PCs, OnLink
<1>2. ASSUME Trigger(t)
       PROVE  Goal
  BY <1>2, <1>g, <1>l, <1>q DEF Trigger, Transition, Issue, PCs, OnLink
<1>3. ASSUME TriggerRefused(t)
       PROVE  Goal
  BY <1>3, <1>g, <1>l DEF TriggerRefused, manager, PCs, OnLink
<1>4. ASSUME \E c \in Captures : TriggerAnswered(t, c)
       PROVE  Goal
  BY <1>4, <1>g, <1>l, <1>q DEF TriggerAnswered, manager, PCs, OnLink
<1>5. ASSUME PreviewAnswered(t)
       PROVE  Goal
  BY <1>5, <1>g, <1>l, <1>q DEF PreviewAnswered, manager, PCs, OnLink
<1>6. ASSUME RequestFull(t)
       PROVE  Goal
  BY <1>6, <1>g, <1>l, <1>q DEF RequestFull, Issue, manager, PCs, OnLink
<1>7. ASSUME FullAnswered(t)
       PROVE  Goal
  BY <1>7, <1>g, <1>l, <1>q, <1>s DEF FullAnswered, manager, PCs, OnLink
<1>8. ASSUME CameraFails(t)
       PROVE  Goal
  BY <1>8, <1>g, <1>l, <1>q, <1>s DEF CameraFails, manager, PCs, OnLink
<1>9. ASSUME FailureSettled(t)
       PROVE  Goal
  BY <1>9, <1>g, <1>l, <1>m DEF FailureSettled, PCs, OnLink
<1>10. ASSUME StorageFails(t)
       PROVE  Goal
  BY <1>10, <1>g, <1>l, <1>q, <1>s DEF StorageFails, manager, PCs, OnLink
<1>11. ASSUME NextShot(t)
       PROVE  Goal
  BY <1>11, <1>g, <1>l DEF NextShot, Transition, PCs, OnLink
<1>12. ASSUME StartRender(t)
       PROVE  Goal
  BY <1>12, <1>g, <1>l DEF StartRender, AllShot, manager, PCs, OnLink
<1>13. ASSUME \E c \in Captures : RenderAnswered(t, c)
       PROVE  Goal
  BY <1>13, <1>g, <1>l DEF RenderAnswered, manager, PCs, OnLink
<1>14. ASSUME RenderFails(t)
       PROVE  Goal
  BY <1>14, <1>g, <1>l DEF RenderFails, manager, PCs, OnLink
<1>15. ASSUME \E c \in Captures : Publish(t, c)
       PROVE  Goal
  <2>1. pc[t] \notin OnLink /\ UNCHANGED <<sid, shotCount, template, link>> /\ pc' = At(t, "free")
    BY <1>15 DEF Publish, Finalized, ShotIsFinal, AllShot, OnLink
  <2>2. state' = "review" \/ state' = state
    BY <1>15, <1>m DEF Publish
  <2> QED BY <1>g, <1>l, <2>1, <2>2 DEF PCs, OnLink
<1>16. Goal
  BY <1>1, <1>2, <1>3, <1>4, <1>5, <1>6, <1>7, <1>8, <1>9, <1>10, <1>11, <1>12, <1>13, <1>14,
     <1>15 DEF TaskStep
<1> QED BY <1>16 DEF Goal

(* Every step leaves at most one coroutine running.                          *)
LEMMA AloneStep ==
  ASSUME Orderly, TypeOK, Alone, [Next]_vars
  PROVE  Alone'
<1>1. ASSUME NEW t \in Tasks, TaskStep(t)
      PROVE  Alone'
  <2>1. /\ \A u \in Tasks \ {t} : pc[u] = "free"
        /\ \E next \in PCs :
             /\ pc' = At(t, next)
             /\ next # "free" => state' = IF next \in {"countdown", "gate", "woken"}
                                          THEN "countdown" ELSE "capturing"
             /\ link' = IF next \in OnLink THEN <<t>> ELSE <<>>
    BY <1>1, TaskMoves, RunsAlone
  <2> QED BY <2>1 DEF Alone, Busy, At, OnLink, TypeOK
<1>2. CASE Request
  <2>1. link = <<>> /\ \A t \in Tasks : pc[t] = "free"
    BY <1>2 DEF Request, Arm, ArmFails, Dismiss, StartCapture, Admitted, Alone, OnLink
  <2>2. CASE \E t \in Tasks : StartCapture(t)
    BY <2>1, <2>2 DEF StartCapture, Transition, At, Alone, Busy, OnLink, TypeOK
  <2>3. CASE UNCHANGED <<pc, link>>
    BY <2>1, <2>3 DEF Alone, Busy, OnLink
  <2> QED BY <1>2, <2>2, <2>3 DEF Request, Arm, ArmFails, Dismiss, task
<1>3. CASE ProcessRestarts
  BY <1>3 DEF ProcessRestarts, Alone, Busy, OnLink
<1>4. CASE UNCHANGED vars
  BY <1>4 DEF vars, manager, task, Alone, Busy
<1> QED
  BY <1>1, <1>2, <1>3, <1>4 DEF Next, Restart, PowerLossWhilePublishing
(* The session changes only when nothing runs.                               *)
LEMMA SessionStep ==
  ASSUME Orderly, TypeOK, Alone, [Next]_vars
  PROVE  \/ sid' = sid
         \/ sid' = sid + 1 /\ \A t \in Tasks : pc'[t] = "free"
<1>1. CASE \E t \in Tasks : TaskStep(t)
  BY <1>1, TaskMoves
<1>2. CASE Request
  BY <1>2 DEF Request, Arm, ArmFails, Dismiss, StartCapture, Admitted, task
<1>3. CASE ProcessRestarts \/ UNCHANGED vars
  BY <1>3 DEF ProcessRestarts, vars, manager
<1> QED
  BY <1>1, <1>2, <1>3 DEF Next, Restart, PowerLossWhilePublishing

(* A coroutine that is over holds nothing.                                   *)
LEMMA FreeHolds ==
  ASSUME ShotsApart, NEW t \in Tasks, pc[t] = "free"
  PROVE  Held(t) = {} /\ shots[t] = <<>>
BY DEF ShotsApart, HoldsOwn, Held, Taken, Shooting

(* Every step keeps what is held, and what a composite is made of, of one    *)
(* session.                                                                  *)
LEMMA OwnStep ==
  ASSUME Orderly, IInv, ShotsApart, Alone, OwnOK, [Next]_vars
  PROVE  OwnOK'
<1>t. /\ TypeOK /\ ShotsSaved /\ sid \in Int /\ owner \in [Captures -> SessionIds \cup {NoSession}]
      /\ sid \in SessionIds
  BY DEF IInv, TypeOK, SessionIds
<1>1. ASSUME NEW t \in Tasks, NEW c \in Captures, TriggerAnswered(t, c)
      PROVE  OwnOK'
  <2>1. /\ c \notin saved /\ sid' = sid /\ Busy(t) /\ pc[t] \notin Shooting
        /\ UNCHANGED <<shots, sources, saved>> /\ owner' = [owner EXCEPT ![c] = sid]
        /\ pc' = At(t, "preview") /\ cur' = [cur EXCEPT ![t] = c]
    BY <1>1 DEF TriggerAnswered, Fresh, Unissued, manager, disk, Busy, Shooting
  <2>2. \A u \in Tasks : c \notin Taken(u) /\ Taken(u)' = Taken(u)
    BY <1>t, <2>1 DEF Taken, ShotsSaved
  <2>3. Held(t)' = Taken(t) \cup {c} /\ Held(t) = Taken(t)
    BY <1>t, <2>1, <2>2 DEF Held, At, TypeOK, Shooting
  <2>4. \A u \in Tasks \ {t} : Held(u)' = {}
    BY <1>t, <2>1, <2>2, RunsAlone, FreeHolds DEF Held, At, TypeOK, Shooting
  <2>5. \A d \in Captures : c \notin Used(d) /\ Used(d)' = Used(d)
    BY <2>1 DEF ShotsApart, MadeOf, Used
  <2>6. sources[c] = <<>> /\ Used(c) = {}
    BY <2>1 DEF OwnOK, Used
  <2>7. \A d \in Captures : owner'[d] <= sid'
    BY <1>t, <2>1 DEF OwnOK
  <2>8. \A u \in Tasks : \A x \in Held(u)' : owner'[x] = sid'
    <3>1. \A x \in Taken(t) : owner'[x] = sid'
      BY <1>t, <2>1, <2>2, <2>3 DEF OwnOK
    <3> QED BY <1>t, <2>1, <2>3, <2>4, <3>1
  <2>9. \A d \in Captures : /\ \A x \in Used(d)' : owner'[x] = owner'[d]
                            /\ sources'[d] # <<>> => d \in saved'
    BY <1>t, <2>1, <2>5, <2>6 DEF OwnOK
  <2> QED BY <2>7, <2>8, <2>9 DEF OwnOK
<1>2. ASSUME NEW t \in Tasks, NEW c \in Captures, RenderAnswered(t, c)
      PROVE  OwnOK'
  <2>1. /\ c \notin saved /\ owner[c] = NoSession /\ sid' = sid /\ Busy(t) /\ pc[t] = "render"
        /\ UNCHANGED shots /\ saved' = saved \cup {c}
        /\ sources' = [sources EXCEPT ![c] = shots[t]]
        /\ owner' = [owner EXCEPT ![c] = sid]
        /\ pc' = At(t, "composed") /\ cur' = [cur EXCEPT ![t] = c]
    BY <1>2 DEF RenderAnswered, Fresh, Unissued, manager, Busy
  <2>2. \A u \in Tasks : c \notin Taken(u) /\ Taken(u)' = Taken(u)
    BY <1>t, <2>1 DEF Taken, ShotsSaved
  <2>3. Held(t)' = Taken(t) /\ Held(t) = Taken(t)
    BY <1>t, <2>1, <2>2 DEF Held, At, TypeOK, Shooting
  <2>4. \A u \in Tasks \ {t} : Held(u)' = {}
    BY <1>t, <2>1, <2>2, RunsAlone, FreeHolds DEF Held, At, TypeOK, Shooting
  <2>5. \A d \in Captures \ {c} : c \notin Used(d) /\ Used(d)' = Used(d) /\ sources'[d] = sources[d]
    BY <1>t, <2>1 DEF ShotsApart, MadeOf, Used, TypeOK
  <2>6. Used(c)' = Taken(t)
    BY <1>t, <2>1 DEF Used, Taken, TypeOK
  <2>7. \A d \in Captures : owner'[d] <= sid'
    BY <1>t, <2>1 DEF OwnOK
  <2>8. \A x \in Taken(t) : owner'[x] = sid
    BY <1>t, <2>1, <2>2, <2>3 DEF OwnOK
  <2>9. \A u \in Tasks : \A x \in Held(u)' : owner'[x] = sid'
    BY <2>1, <2>3, <2>4, <2>8
  <2>10. \A d \in Captures : /\ \A x \in Used(d)' : owner'[x] = owner'[d]
                             /\ sources'[d] # <<>> => d \in saved'
    <3>1. ASSUME NEW d \in Captures \ {c}
          PROVE  /\ \A x \in Used(d)' : owner'[x] = owner'[d]
                 /\ sources'[d] # <<>> => d \in saved'
      BY <1>t, <2>1, <2>5 DEF OwnOK
    <3> QED BY <1>t, <2>1, <2>6, <2>8, <3>1
  <2> QED BY <2>7, <2>9, <2>10 DEF OwnOK
<1>3. CASE ~\E t \in Tasks, c \in Captures : TriggerAnswered(t, c) \/ RenderAnswered(t, c)
  <2>1. /\ UNCHANGED <<owner, sources>> /\ saved \subseteq saved'
        /\ \A t \in Tasks : Held(t)' \subseteq Held(t)
    <3>1. CASE \E t \in Tasks : FullAnswered(t)
      BY <3>1, ShotKept DEF IInv, FullAnswered, captureDb
    <3>2. CASE ~\E t \in Tasks : FullAnswered(t)
      BY <1>3, <3>2, OthersKeep, NothingNew DEF IInv
    <3> QED BY <3>1, <3>2
  <2>2. \A d \in Captures : Used(d)' = Used(d)
    BY <2>1 DEF Used
  <2>3. CASE sid' = sid
    BY <2>1, <2>2, <2>3 DEF OwnOK
  <2>4. CASE sid' = sid + 1 /\ \A t \in Tasks : pc'[t] = "free"
    <3>1. \A t \in Tasks : Held(t)' = {}
      <4>1. \A t \in Tasks : shots'[t] = <<>>
        BY <2>4, ApartStep DEF ShotsApart, HoldsOwn
      <4> QED BY <2>4, <4>1 DEF Held, Taken, Shooting
    <3>2. \A c \in Captures : owner'[c] <= sid'
      BY <1>t, <2>1, <2>4 DEF OwnOK, SessionIds, NoSession
    <3> QED BY <2>1, <2>2, <3>1, <3>2 DEF OwnOK
  <2> QED BY <1>t, <2>3, <2>4, SessionStep
<1> QED BY <1>1, <1>2, <1>3
(* A move of the machine makes no row and takes none away.                   *)
LEMMA RowsStay ==
  ASSUME TypeOK, NEW target, Transition(target) \/ TryTransition(target)
  PROVE  \A s \in SessionIds : rowState'[s] # "none" => rowState[s] # "none"
BY DEF Transition, TryTransition

(* Every step keeps count of the shots of a session with a row.              *)
LEMMA CountStep ==
  ASSUME Orderly, "restart" \notin Faults, IInv, ShotsApart, Alone, OwnOK, CountOK, [Next]_vars
  PROVE  CountOK'
<1> DEFINE Row == rowState[sid] # "none" => template = shotCount
           Counted(t) ==
             /\ pc[t] \in {"countdown", "gate", "woken", "announced"} \cup OnLink \cup Shooting =>
                  left[t] + Len(shots[t]) = shotCount
             /\ pc[t] \in Shooting /\ left[t] = 1 /\ shots[t] = <<>> => cur[t] \in deliverable
             /\ pc[t] = "announced" /\ left[t] = 0 /\ Len(shots[t]) = 1 => shots[t][1] \in deliverable
             /\ pc[t] = "composed" => cur[t] \in deliverable /\ owner[cur[t]] = sid
<1>t. /\ TypeOK /\ sid \in SessionIds /\ sid \in Int /\ RowsOK /\ LocalsOK
      /\ \A t \in Tasks : left[t] \in Nat /\ shots[t] \in Seq(Captures) /\ Len(shots[t]) \in Nat
  BY DEF IInv, TypeOK, SessionIds
<1>f. \A t \in Tasks : pc[t] = "free" => Counted(t)
  BY DEF OnLink, Shooting
<1>c. Row /\ \A t \in Tasks : Counted(t)
  BY DEF CountOK
<1>g. ASSUME Row', \A t \in Tasks : Counted(t)' \/ pc'[t] = "free"
      PROVE  CountOK'
  BY <1>g DEF CountOK, OnLink, Shooting
<1>1. ASSUME NEW t \in Tasks, TaskStep(t)
      PROVE  CountOK'
  <2>b. Busy(t) /\ UNCHANGED <<sid, shotCount, template>>
    BY <1>1, <1>t, TaskMoves
  <2>u. \A u \in Tasks \ {t} : pc'[u] = "free"
    <3>1. PICK next \in PCs : pc' = At(t, next)
      BY <1>1, <1>t, TaskMoves
    <3>2. \A u \in Tasks \ {t} : pc[u] = "free"
      BY <1>t, <2>b, RunsAlone
    <3> QED BY <1>t, <3>1, <3>2 DEF At, TypeOK
  <2>r. Row'
    <3>1. rowState'[sid] # "none" => rowState[sid] # "none"
      BY <1>1, <1>t, RowsStay DEF TaskStep, HoldAtGate, Trigger, TriggerRefused, TriggerAnswered,
         PreviewAnswered, RequestFull, FullAnswered, CameraFails, FailureSettled, StorageFails,
         NextShot, StartRender, RenderAnswered, RenderFails, Publish
    <3> QED BY <1>c, <2>b, <3>1
  <2> SUFFICES Counted(t)' \/ pc'[t] = "free"
    BY <1>g, <2>u, <2>r
  <2> HIDE DEF Row
  <2>p. pc \in [Tasks -> PCs] /\ shots \in [Tasks -> Seq(Captures)] /\ left \in [Tasks -> Nat]
        /\ cur \in [Tasks -> Captures \cup {NoCapture}]
        /\ owner \in [Captures -> SessionIds \cup {NoSession}]
    BY <1>t DEF TypeOK
  <2>1. CASE HoldAtGate(t) \/ Trigger(t)
    BY <2>1, <1>c, <2>b, <2>p DEF HoldAtGate, Trigger, At, OnLink, Shooting
  <2>2. ASSUME NEW c \in Captures, TriggerAnswered(t, c)
        PROVE  Counted(t)'
    BY <2>2, <1>c, <2>b, <2>p DEF TriggerAnswered, At, OnLink, Shooting
  <2>3. CASE PreviewAnswered(t) \/ RequestFull(t)
    BY <2>3, <1>c, <2>b, <2>p DEF PreviewAnswered, RequestFull, At, OnLink, Shooting, captureDb
  <2>4. CASE FullAnswered(t)
    <3>1. /\ pc[t] = "full" /\ pc'[t] = "announced" /\ deliverable' = deliverable
          /\ shots'[t] = Append(shots[t], cur[t]) /\ left'[t] = left[t] - 1
      BY <2>4, <2>p DEF FullAnswered, SetIdleAndAt, captureDb
    <3>2. /\ left[t] + Len(shots[t]) = shotCount
          /\ left[t] = 1 /\ shots[t] = <<>> => cur[t] \in deliverable
      BY <1>c, <3>1 DEF OnLink, Shooting
    <3>3. Len(shots'[t]) = Len(shots[t]) + 1 /\ (shots[t] = <<>> => shots'[t][1] = cur[t])
      BY <1>t, <3>1
    <3>4. left'[t] + Len(shots'[t]) = shotCount'
      <4>1. /\ left[t] \in Nat /\ Len(shots[t]) \in Nat /\ shotCount' = shotCount
            /\ left'[t] = left[t] - 1 /\ Len(shots'[t]) = Len(shots[t]) + 1
            /\ left[t] + Len(shots[t]) = shotCount
        BY <1>t, <2>b, <3>1, <3>2, <3>3
      <4> QED BY <4>1
    <3>5. left'[t] = 0 /\ Len(shots'[t]) = 1 => shots'[t][1] \in deliverable'
      BY <1>t, <3>1, <3>2, <3>3
    <3> QED BY <3>1, <3>4, <3>5 DEF Shooting
  <2>5. CASE CameraFails(t)
    BY <2>5, <2>p DEF CameraFails, SetIdleAndAt, OnLink, Shooting
  <2>6. CASE \/ TriggerRefused(t) \/ FailureSettled(t) \/ StorageFails(t) \/ RenderFails(t)
             \/ \E c \in Captures : Publish(t, c)
    BY <2>6, <2>p DEF TriggerRefused, FailureSettled, StorageFails, RenderFails, Publish, At,
       SetIdleAndAt
  <2>7. CASE NextShot(t)
    BY <2>7, <1>c, <2>b, <2>p DEF NextShot, At, OnLink, Shooting
  <2>8. CASE StartRender(t)
    BY <2>8, <2>p DEF StartRender, At, OnLink, Shooting
  <2>9. ASSUME NEW c \in Captures, RenderAnswered(t, c)
        PROVE  Counted(t)'
    BY <2>9, <2>b, <2>p DEF RenderAnswered, At, OnLink, Shooting
  <2> QED
    BY <1>1, <2>1, <2>2, <2>3, <2>4, <2>5, <2>6, <2>7, <2>8, <2>9 DEF TaskStep
<1>2. CASE Request
  <2>1. \A t \in Tasks : pc[t] = "free"
    BY <1>2 DEF Request, Arm, ArmFails, Dismiss, StartCapture, Admitted
  <2>2. ASSUME NEW slots \in SlotCounts, Arm(slots)
        PROVE  CountOK'
    BY <1>g, <2>1, <2>2 DEF Arm, task
  <2>3. CASE ArmFails
    <3>1. rowState'[sid'] = "none"
      <4>1. sid' = sid + 1 /\ sid' \in SessionIds /\ rowState' = rowState
        BY <1>t, <2>3, FlowAssumption DEF ArmFails, SessionIds, FlowAssumption
      <4>2. sid' > sid
        BY <1>t, <4>1
      <4> QED BY <1>t, <4>1, <4>2 DEF RowsOK
    <3> QED BY <1>g, <2>1, <2>3, <3>1 DEF ArmFails, task
  <2>4. CASE Dismiss
    BY <1>c, <1>g, <1>t, <2>1, <2>4, RowsStay DEF Dismiss, task
  <2>5. ASSUME NEW t \in Tasks, StartCapture(t)
        PROVE  CountOK'
    <3>1. Row'
      BY <1>c, <1>t, <2>5, RowsStay DEF StartCapture
    <3>2. \A u \in Tasks \ {t} : pc'[u] = "free"
      BY <1>t, <2>1, <2>5 DEF StartCapture, At, TypeOK
    <3>3. Counted(t)'
      <4>1. /\ pc'[t] = "countdown" /\ left'[t] = shotCount /\ shotCount' = shotCount
            /\ shots'[t] = <<>> /\ shotCount \in Nat
        BY <1>t, <2>1, <2>5, FreeHolds DEF StartCapture, At, TypeOK
      <4>2. left'[t] + Len(shots'[t]) = shotCount'
        BY <4>1
      <4> QED BY <4>1, <4>2 DEF Shooting
    <3> QED BY <1>g, <3>1, <3>2, <3>3
  <2> QED BY <1>2, <2>2, <2>3, <2>4, <2>5 DEF Request
<1>3. CASE UNCHANGED vars
  BY <1>3 DEF vars, manager, task, captureDb, CountOK
<1> QED
  BY <1>1, <1>2, <1>3 DEF Next, Restart, PowerLossWhilePublishing, ProcessRestarts
(* While shots are to be taken, or several are rendered, the session has no  *)
(* deliverable yet.                                                          *)
LEMMA NoneYet ==
  ASSUME IInv, ShotsApart, DeliverableOK, NEW t \in Tasks, pc[t] \in {"trigger", "render"}
  PROVE  \A c \in deliverable : owner[c] # sid
<1>1. Held(t) = Taken(t) /\ Busy(t)
  BY DEF Held, Shooting, Busy
<1>2. left[t] > 0 \/ Len(shots[t]) > 1
  BY DEF IInv, LocalsOK, ShotsApart, HoldsOwn
<1>3. Taken(t) \cap deliverable = {}
  BY <1>2 DEF ShotsApart, HoldsOwn
<1> QED BY <1>1, <1>3 DEF DeliverableOK

(* Every step leaves the session's deliverable with its coroutine.           *)
LEMMA DeliverableStep ==
  ASSUME Orderly, IInv, ShotsApart, Alone, OwnOK, DeliverableOK, [Next]_vars
  PROVE  DeliverableOK'
<1> DEFINE Works(t, c) == \/ c \in Held(t)
                          \/ pc[t] = "composed" /\ c = cur[t]
                          \/ pc[t] = "failing"
<1>t. /\ TypeOK /\ ShotsSaved /\ sid \in SessionIds /\ sid \in Int
      /\ pc \in [Tasks -> PCs] /\ shots \in [Tasks -> Seq(Captures)]
      /\ cur \in [Tasks -> Captures \cup {NoCapture}]
      /\ owner \in [Captures -> SessionIds \cup {NoSession}] /\ deliverable \subseteq Captures
  BY DEF IInv, TypeOK, SessionIds
<1>1. ASSUME NEW t \in Tasks, TaskStep(t)
      PROVE  DeliverableOK'
  <2>b. Busy(t) /\ sid' = sid /\ state' # "armed"
    BY <1>1, <1>t, TaskMoves
  <2>u. \A u \in Tasks \ {t} : pc'[u] = "free"
    <3>1. PICK next \in PCs : pc' = At(t, next)
      BY <1>1, <1>t, TaskMoves
    <3>2. \A u \in Tasks \ {t} : pc[u] = "free"
      BY <1>t, <2>b, RunsAlone
    <3> QED BY <1>t, <3>1, <3>2 DEF At, TypeOK
  <2>g. ASSUME \A c \in deliverable' : owner'[c] = sid => Works(t, c)' \/ pc'[t] = "free"
        PROVE  DeliverableOK'
    BY <2>b, <2>g, <2>u DEF DeliverableOK, Busy
  <2>c. \A c \in deliverable : owner[c] = sid => Works(t, c)
    BY <2>b DEF DeliverableOK
  <2>1. ASSUME UNCHANGED <<shots, owner, deliverable>>, pc[t] \notin {"composed", "failing"},
               pc[t] \in Shooting => pc'[t] \in Shooting /\ cur'[t] = cur[t]
        PROVE  DeliverableOK'
    <3>1. Held(t) \subseteq Held(t)'
      BY <2>1 DEF Held, Taken
    <3> QED BY <2>1, <2>c, <2>g, <3>1
  <2>2. CASE HoldAtGate(t) \/ Trigger(t) \/ PreviewAnswered(t) \/ RequestFull(t) \/ StartRender(t)
    <3>1. UNCHANGED <<shots, cur, owner, deliverable>>
      BY <2>2 DEF HoldAtGate, Trigger, PreviewAnswered, RequestFull, StartRender, captureDb
    <3>2. CASE HoldAtGate(t) \/ Trigger(t) \/ StartRender(t)
      BY <2>1, <3>1, <3>2 DEF HoldAtGate, Trigger, StartRender, AllShot, Shooting
    <3>3. CASE PreviewAnswered(t) \/ RequestFull(t)
      BY <1>t, <2>1, <3>1, <3>3 DEF PreviewAnswered, RequestFull, At, Shooting
    <3> QED BY <2>2, <3>2, <3>3
  <2>3. ASSUME NEW c \in Captures, TriggerAnswered(t, c)
        PROVE  DeliverableOK'
    <3>1. /\ pc[t] = "trigger" /\ pc'[t] = "preview" /\ cur'[t] = c
          /\ deliverable' \subseteq deliverable \cup {c}
          /\ \A d \in Captures \ {c} : owner'[d] = owner[d]
      BY <1>t, <2>3 DEF TriggerAnswered, At
    <3>2. c \in Held(t)'
      BY <3>1 DEF Held, Shooting
    <3> QED BY <1>t, <2>g, <3>1, <3>2, NoneYet
  <2>4. CASE FullAnswered(t)
    <3>1. /\ UNCHANGED <<owner, deliverable>> /\ pc[t] = "full"
          /\ \A u \in Tasks : Held(u)' = Held(u)
      BY <2>4, ShotKept DEF IInv, FullAnswered, captureDb
    <3> QED BY <2>c, <2>g, <3>1
  <2>5. CASE CameraFails(t)
    <3>1. pc'[t] = "failing"
      BY <1>t, <2>5 DEF CameraFails, SetIdleAndAt
    <3> QED BY <2>g, <3>1
  <2>6. CASE \/ TriggerRefused(t) \/ FailureSettled(t) \/ StorageFails(t) \/ RenderFails(t)
             \/ \E c \in Captures : Publish(t, c)
    <3>1. pc'[t] = "free"
      BY <1>t, <2>6 DEF TriggerRefused, FailureSettled, StorageFails, RenderFails, Publish, At,
         SetIdleAndAt
    <3> QED BY <2>g, <3>1
  <2>7. CASE NextShot(t)
    <3>1. CASE pc'[t] = "free"
      BY <2>g, <3>1
    <3>2. CASE UNCHANGED shots
      BY <2>1, <2>7, <3>2 DEF NextShot, Shooting, captureDb
    <3> QED BY <1>t, <2>7, <3>1, <3>2 DEF NextShot, At
  <2>8. ASSUME NEW c \in Captures, RenderAnswered(t, c)
        PROVE  DeliverableOK'
    <3>1. /\ pc[t] = "render" /\ pc'[t] = "composed" /\ cur'[t] = c
          /\ deliverable' = deliverable \cup {c}
          /\ \A d \in Captures \ {c} : owner'[d] = owner[d]
      BY <1>t, <2>8 DEF RenderAnswered, At
    <3> QED BY <1>t, <2>g, <3>1, NoneYet
  <2> QED
    BY <1>1, <2>2, <2>3, <2>4, <2>5, <2>6, <2>7, <2>8 DEF TaskStep
<1>2. CASE Request
  <2>1. UNCHANGED <<owner, deliverable>> /\ \A t \in Tasks : pc[t] = "free"
    BY <1>2 DEF Request, Arm, ArmFails, Dismiss, StartCapture, Admitted, captureDb
  <2>2. CASE \/ \E slots \in SlotCounts : Arm(slots)
             \/ ArmFails
    <3>1. sid' = sid + 1
      BY <2>2 DEF Arm, ArmFails
    <3>2. \A c \in Captures : owner[c] # sid'
      BY <1>t, <3>1 DEF OwnOK, SessionIds, NoSession
    <3> QED BY <1>t, <2>1, <3>2 DEF DeliverableOK
  <2>3. CASE Dismiss
    BY <2>1, <2>3 DEF Dismiss, Transition, DeliverableOK, Busy, task
  <2>4. ASSUME NEW t \in Tasks, StartCapture(t)
        PROVE  DeliverableOK'
    <3>1. state = "armed" /\ UNCHANGED sid
      BY <2>4 DEF StartCapture
    <3> QED BY <2>1, <3>1 DEF DeliverableOK
  <2> QED BY <1>2, <2>2, <2>3, <2>4 DEF Request
<1>3. CASE ProcessRestarts
  BY <1>3 DEF ProcessRestarts, DeliverableOK, Busy, captureDb
<1>4. CASE UNCHANGED vars
  <2>1. UNCHANGED <<state, sid, pc, cur, shots, owner, deliverable>>
    BY <1>4 DEF vars, manager, task, captureDb
  <2>2. \A t \in Tasks : Held(t)' = Held(t)
    BY <2>1 DEF Held, Taken
  <2> QED BY <2>1, <2>2 DEF DeliverableOK, Busy
<1> QED
  BY <1>1, <1>2, <1>3, <1>4 DEF Next, Restart, PowerLossWhilePublishing

(* A picture that is published is the session's deliverable, if it has a row.*)
LEMMA PublishesOwn ==
  ASSUME IInv, OwnOK, CountOK, NEW t \in Tasks, NEW c \in Captures, Finalized(t, c),
         rowState[sid] # "none"
  PROVE  c \in deliverable /\ c \in saved /\ owner[c] = sid
<1>t. shots[t] \in Seq(Captures) /\ shotCount \in Nat /\ shotCount > 0 /\ template = shotCount
  BY DEF IInv, TypeOK, LocalsOK, CountOK
<1>1. c \in saved
  BY FinalizedSaved DEF IInv
<1>2. CASE ShotIsFinal(t) /\ c = shots[t][1]
  <2>1. pc[t] = "announced" /\ left[t] = 0 /\ (template = NoTemplate \/ Len(shots[t]) = 1)
    BY <1>2 DEF ShotIsFinal, AllShot
  <2>2. Len(shots[t]) = 1
    BY <1>t, <2>1 DEF NoTemplate
  <2>3. c \in deliverable
    BY <1>2, <2>1, <2>2 DEF CountOK
  <2>4. c \in Held(t)
    BY <1>2, <2>2 DEF Held, Taken
  <2> QED BY <1>1, <2>3, <2>4 DEF OwnOK
<1>3. CASE pc[t] = "composed" /\ c = cur[t]
  BY <1>1, <1>3 DEF CountOK
<1> QED BY <1>2, <1>3 DEF Finalized

(* Every step keeps what a share token promises.                             *)
LEMMA SharingStep ==
  ASSUME Orderly, "restart" \notin Faults, IInv, ShotsApart, OwnOK, CountOK, DeliverableOK,
         SharingSound, [Next]_vars
  PROVE  SharingSound'
<1>t. /\ TypeOK /\ uploads \subseteq saved /\ sid \in SessionIds
      /\ owner \in [Captures -> SessionIds \cup {NoSession}] /\ deliverable \subseteq Captures
      /\ saved \subseteq Captures /\ \A c \in deliverable : owner[c] # NoSession
  BY DEF IInv, TypeOK, UploadsOnDisk, ShotsApart
<1>1. ASSUME NEW t \in Tasks, NEW c \in Captures, TriggerAnswered(t, c) \/ RenderAnswered(t, c)
      PROVE  SharingSound'
  <2>1. /\ c \notin saved /\ owner[c] = NoSession /\ UNCHANGED <<shared, uploads>>
        /\ saved \subseteq saved' /\ owner' = [owner EXCEPT ![c] = sid]
        /\ deliverable \subseteq deliverable' /\ deliverable' \subseteq deliverable \cup {c}
        /\ pc[t] \in {"trigger", "render"}
    BY <1>1 DEF TriggerAnswered, RenderAnswered, Fresh, Unissued, disk
  <2>2. \A d \in deliverable : owner[d] # sid /\ d # c /\ owner'[d] = owner[d]
    BY <1>t, <2>1, NoneYet
  <2>3. \A d, e \in deliverable' : owner'[d] = owner'[e] => d = e
    BY <1>t, <2>1, <2>2 DEF SharingSound
  <2>4. \A d \in saved : owner'[d] = owner[d]
    BY <1>t, <2>1
  <2>5. \A s \in shared : /\ \E d \in deliverable' \cap saved' : owner'[d] = s
                          /\ \E d \in uploads : owner'[d] = s
    <3>1. TAKE s \in shared
    <3>2. PICK d \in deliverable \cap saved, e \in uploads : owner[d] = s /\ owner[e] = s
      BY DEF SharingSound
    <3>3. owner'[d] = s /\ owner'[e] = s
      BY <1>t, <2>4, <3>2
    <3> QED BY <2>1, <3>2, <3>3
  <2> QED BY <2>1, <2>3, <2>5 DEF SharingSound
<1>2. ASSUME ~\E t \in Tasks, c \in Captures : TriggerAnswered(t, c) \/ RenderAnswered(t, c)
      PROVE  UNCHANGED <<owner, deliverable>> /\ saved \subseteq saved'
  <2>1. CASE \E t \in Tasks : FullAnswered(t)
    BY <2>1 DEF FullAnswered, captureDb
  <2>2. CASE ~\E t \in Tasks : FullAnswered(t)
    BY <1>2, <2>2, OthersKeep DEF IInv
  <2> QED BY <2>1, <2>2
<1>3. ASSUME NEW t \in Tasks, NEW c \in Captures, Publish(t, c)
      PROVE  SharingSound'
  <2>1. /\ UNCHANGED <<owner, deliverable, saved>> /\ uploads' = uploads \cup {c} /\ Finalized(t, c)
        /\ shared' = IF rowState[sid] = "none" THEN shared ELSE shared \cup {sid}
    BY <1>3 DEF Publish, IssueToken, captureDb, disk
  <2>2. CASE rowState[sid] = "none"
    BY <2>1, <2>2 DEF SharingSound
  <2>3. CASE rowState[sid] # "none"
    <3>1. c \in deliverable \cap saved /\ owner[c] = sid
      BY <2>1, <2>3, PublishesOwn
    <3> QED BY <2>1, <3>1 DEF SharingSound
  <2> QED BY <2>2, <2>3
<1>4. ASSUME UNCHANGED <<owner, deliverable, shared, uploads>>, saved \subseteq saved'
      PROVE  SharingSound'
  BY <1>4 DEF SharingSound
<1>5. ASSUME ~\E t \in Tasks, c \in Captures : Publish(t, c)
      PROVE  UNCHANGED <<shared, uploads>>
  BY <1>5 DEF Next, Request, Arm, ArmFails, Dismiss, StartCapture, Restart, ProcessRestarts,
     PowerLossWhilePublishing, vars, TaskStep, HoldAtGate, Trigger, TriggerRefused, TriggerAnswered,
     PreviewAnswered, RequestFull, FullAnswered, CameraFails, FailureSettled, StorageFails,
     NextShot, StartRender, RenderAnswered, RenderFails
<1> QED BY <1>1, <1>2, <1>3, <1>4, <1>5
(* The invariant of an orderly client is inductive, with any failures and    *)
(* restarts.                                                                 *)
LEMMA OrderlyInductive ==
  ASSUME Orderly
  PROVE  Spec => [](IInv /\ OrderlyInv)
<1>1. Init => OrderlyInv
  <2> SUFFICES ASSUME Init PROVE OrderlyInv
    OBVIOUS
  <2>1. /\ \A t \in Tasks : Held(t) = {} /\ HoldsOwn(t)
        /\ \A c \in Captures : Used(c) = {} /\ MadeOf(c)
    BY DEF Init, Held, Taken, Used, HoldsOwn, MadeOf, Distinct, Shooting
  <2>2. ShotsApart
    BY <2>1 DEF Init, ShotsApart
  <2>3. Alone
    BY DEF Init, Alone, Busy, OnLink
  <2>4. OwnOK
    BY <2>1 DEF Init, OwnOK, NoSession
  <2> QED BY <2>2, <2>3, <2>4 DEF OrderlyInv
<1>2. IInv /\ OrderlyInv /\ [Next]_vars => OrderlyInv'
  BY ApartStep, AloneStep, OwnStep DEF OrderlyInv, IInv
<1> QED BY <1>1, <1>2, InductiveIInv, PTL DEF Spec

(* With a client that arms, captures and dismisses one at a time, whatever   *)
(* fails, every shot inside a composite was taken in the composite's own     *)
(* session: a share page shows its guest's pictures only (share.py:1-4,      *)
(* session.py:228, 293-309).                                                 *)
THEOREM OwnShots ==
  ASSUME Orderly
  PROVE  Spec => []OwnShotsOnly
<1>1. IInv /\ OrderlyInv => OwnShotsOnly
  BY DEF IInv, TypeOK, OrderlyInv, OwnOK, Used, OwnShotsOnly
<1> QED BY <1>1, OrderlyInductive, PTL

(* With such a client the camera has one user at a time, and in every state  *)
(* but CAPTURING none (session.py:213-217, debug.py:130-136).                *)
THEOREM HandleFree ==
  ASSUME Orderly
  PROVE  Spec => []HandleKeptFree
<1>1. OrderlyInv => HandleKeptFree
  <2> SUFFICES ASSUME OrderlyInv PROVE HandleKeptFree
    OBVIOUS
  <2>1. link = <<>> \/ \E t \in Tasks : link = <<t>>
    BY DEF OrderlyInv, Alone
  <2>2. \A i, j \in DOMAIN link : ~(i < j)
    BY <2>1
  <2>3. \A t \in Tasks : pc[t] \in OnLink => state = "capturing"
    BY DEF OrderlyInv, Alone, OnLink, Busy
  <2> QED BY <2>2, <2>3 DEF HandleKeptFree
<1> QED BY <1>1, OrderlyInductive, PTL

(* With such a client and no restart in the middle of a publication, a share *)
(* token leads to the session's one deliverable, whose file is there and     *)
(* queued for upload, whichever of its shots, renders, writes or event files *)
(* fail (share.py:118-127, session.py:112-114, 267-287).                     *)
THEOREM SharingKept ==
  ASSUME Orderly, "restart" \notin Faults
  PROVE  Spec => []SharingSound
<1>1. Init => SharingInv
  <2>1. 0 \in SessionIds
    BY FlowAssumption DEF FlowAssumption, SessionIds
  <2> QED
    BY <2>1 DEF Init, SharingInv, CountOK, DeliverableOK, SharingSound, OnLink, Shooting
<1>2. IInv /\ OrderlyInv /\ SharingInv /\ [Next]_vars => SharingInv'
  BY CountStep, DeliverableStep, SharingStep DEF OrderlyInv, SharingInv
<1>3. SharingInv => SharingSound
  BY DEF SharingInv
<1> QED BY <1>1, <1>2, <1>3, OrderlyInductive, PTL DEF Spec
=============================================================================
