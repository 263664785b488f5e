--------------------------- MODULE RetentionProofs ---------------------------
(* Proofs about Retention, for any number of pictures, requests, power       *)
(* losses and errors.                                                        *)
EXTENDS Retention, TLAPS

(* The coroutine of the picture writes no file of it any more.               *)
Settled(c) == stage[c] \in {"kept", "queued", "failed"}

(* Only a picture that was begun has a row, only a settled one grows old,    *)
(* and one in flight has its row, unless the operator deleted it.            *)
RowsOK ==
  /\ \A c \in rows : stage[c] # "none"
  /\ \A c \in old \cup todo : Settled(c)
  /\ \A c \in Pictures : InFlight(c) => c \in rows \cup excused

On(d, c) == at[d] \in {<<"jpg", c>>, <<"preview", c>>, <<"row", c>>}

(* A deletion is of a picture that was begun; it is settled, or something is *)
(* excused.  What the deletion has passed is gone, or excused.               *)
DeletionsOK ==
  \A d \in Deleters, c \in Pictures :
    /\ On(d, c) => Settled(c) \/ (InFlight(c) /\ c \in excused)
    /\ at[d] = <<"preview", c>> => c \notin full \/ c \in excused
    /\ at[d] = <<"row", c>> => c \notin full \cup preview \/ c \in excused

(* What the operator was told is deleted does not come back.                 *)
AnsweredGone ==
  \A c \in answered : c \in excused \/ (c \notin full /\ Settled(c))

IInv == TypeOK /\ RowsOK /\ DeletionsOK /\ OrphansExplained /\ AnsweredGone
-----------------------------------------------------------------------------
(* Every step preserves the type.                                            *)
LEMMA TypeStep ==
  ASSUME TypeOK, [Next]_vars
  PROVE  TypeOK'
<1> USE RetentionAssumption DEF TypeOK, Deleters, Idle, table, files, history
<1>1. ASSUME NEW c \in Pictures, NEW deliverable \in BOOLEAN, Triggered(c, deliverable)
      PROVE  TypeOK'
  BY <1>1 DEF Triggered, Goes
<1>2. ASSUME NEW c \in Pictures, PreviewTaken(c) PROVE TypeOK'
  BY <1>2 DEF PreviewTaken, Goes
<1>3. ASSUME NEW c \in Pictures, FullTaken(c) PROVE TypeOK'
  BY <1>3 DEF FullTaken, Goes
<1>4. ASSUME NEW c \in Pictures, Enqueued(c) PROVE TypeOK'
  BY <1>4 DEF Enqueued, Goes
<1>5. ASSUME NEW c \in Pictures, ShotFails(c) PROVE TypeOK'
  BY <1>5 DEF ShotFails, Goes, Underway, InFlight
<1>6. ASSUME NEW c \in Pictures, Composed(c) PROVE TypeOK'
  BY <1>6 DEF Composed, Goes
<1>7. ASSUME NEW c \in Pictures, RowRefused(c) PROVE TypeOK'
  BY <1>7 DEF RowRefused, Goes, Troubled
<1>8. ASSUME NEW c \in Pictures, TestShot(c) PROVE TypeOK'
  BY <1>8 DEF TestShot, Goes
<1>9. ASSUME NEW c \in Pictures, GrowsOld(c) PROVE TypeOK'
  BY <1>9 DEF GrowsOld, Underway, InFlight
<1>10. ASSUME NEW c \in Pictures, UploadStarts(c) PROVE TypeOK'
  BY <1>10 DEF UploadStarts
<1>11. ASSUME NEW c \in Pictures, UploadEnds(c) PROVE TypeOK'
  BY <1>11 DEF UploadEnds
<1>12. ASSUME NEW c \in Pictures, SweepNext(c) PROVE TypeOK'
  BY <1>12 DEF SweepNext
<1>13. ASSUME NEW c \in Pictures, PowerLossWhileComposing(c) PROVE TypeOK'
  BY <1>13 DEF PowerLossWhileComposing, ThreadsEnd, Troubled, Ended
<1>14. ASSUME NEW d \in Deleters, NEW c \in Pictures, UnlinkFull(d, c)
      PROVE  TypeOK'
  BY <1>14 DEF UnlinkFull
<1>15. ASSUME NEW d \in Deleters, NEW c \in Pictures, UnlinkPreview(d, c)
      PROVE  TypeOK'
  BY <1>15 DEF UnlinkPreview
<1>16. ASSUME NEW d \in Deleters, NEW c \in Pictures, RowDeleted(d, c)
      PROVE  TypeOK'
  BY <1>16 DEF RowDeleted
<1>17. ASSUME NEW d \in Deleters, NEW c \in Pictures, RowStays(d, c)
      PROVE  TypeOK'
  BY <1>17 DEF RowStays, Troubled
<1>18. ASSUME NEW d \in Requests, NEW c \in Pictures, OperatorDeletes(d, c)
      PROVE  TypeOK'
  BY <1>18 DEF OperatorDeletes, InFlight, Deleters
<1>19. CASE SweepLists
  BY <1>19 DEF SweepLists, Stale
<1>20. CASE PowerLoss
  BY <1>20 DEF PowerLoss, ThreadsEnd, Troubled, Ended
<1>21. CASE UNCHANGED vars
  BY <1>21 DEF vars
<1> HIDE DEF TypeOK
<1> QED
  BY <1>1, <1>2, <1>3, <1>4, <1>5, <1>6, <1>7, <1>8, <1>9, <1>10, <1>11, <1>12, <1>13,
     <1>14, <1>15, <1>16, <1>17, <1>18, <1>19, <1>20, <1>21
     DEF Next, Shooting, Finishing, Deleting

(* A row is there from the beginning, and ages and is listed after the end.  *)
LEMMA RowsStep ==
  ASSUME TypeOK, RowsOK, DeletionsOK, [Next]_vars
  PROVE  RowsOK'
<1> USE DEF TypeOK, RowsOK, DeletionsOK, On, Settled, InFlight, table, files,
    history
<1>1. ASSUME NEW c \in Pictures, NEW deliverable \in BOOLEAN, Triggered(c, deliverable)
      PROVE  RowsOK'
  BY <1>1 DEF Triggered, Goes
<1>2. ASSUME NEW c \in Pictures, PreviewTaken(c) PROVE RowsOK'
  BY <1>2 DEF PreviewTaken, Goes
<1>3. ASSUME NEW c \in Pictures, FullTaken(c) PROVE RowsOK'
  BY <1>3 DEF FullTaken, Goes
<1>4. ASSUME NEW c \in Pictures, Enqueued(c) PROVE RowsOK'
  BY <1>4 DEF Enqueued, Goes
<1>5. ASSUME NEW c \in Pictures, ShotFails(c) PROVE RowsOK'
  BY <1>5 DEF ShotFails, Goes, Underway, InFlight
<1>6. ASSUME NEW c \in Pictures, Composed(c) PROVE RowsOK'
  BY <1>6 DEF Composed, Goes
<1>7. ASSUME NEW c \in Pictures, RowRefused(c) PROVE RowsOK'
  BY <1>7 DEF RowRefused, Goes, Troubled
<1>8. ASSUME NEW c \in Pictures, TestShot(c) PROVE RowsOK'
  BY <1>8 DEF TestShot, Goes
<1>9. ASSUME NEW c \in Pictures, GrowsOld(c) PROVE RowsOK'
  BY <1>9 DEF GrowsOld, Underway, InFlight
<1>10. ASSUME NEW c \in Pictures, UploadStarts(c) PROVE RowsOK'
  BY <1>10 DEF UploadStarts
<1>11. ASSUME NEW c \in Pictures, UploadEnds(c) PROVE RowsOK'
  BY <1>11 DEF UploadEnds
<1>12. ASSUME NEW c \in Pictures, SweepNext(c) PROVE RowsOK'
  BY <1>12 DEF SweepNext
<1>13. ASSUME NEW c \in Pictures, PowerLossWhileComposing(c) PROVE RowsOK'
  BY <1>13 DEF PowerLossWhileComposing, ThreadsEnd, Troubled, Ended
<1>14. ASSUME NEW d \in Deleters, NEW c \in Pictures, UnlinkFull(d, c)
      PROVE  RowsOK'
  BY <1>14 DEF UnlinkFull
<1>15. ASSUME NEW d \in Deleters, NEW c \in Pictures, UnlinkPreview(d, c)
      PROVE  RowsOK'
  BY <1>15 DEF UnlinkPreview
<1>16. ASSUME NEW d \in Deleters, NEW c \in Pictures, RowDeleted(d, c)
      PROVE  RowsOK'
  BY <1>16 DEF RowDeleted
<1>17. ASSUME NEW d \in Deleters, NEW c \in Pictures, RowStays(d, c)
      PROVE  RowsOK'
  BY <1>17 DEF RowStays, Troubled
<1>18. ASSUME NEW d \in Requests, NEW c \in Pictures, OperatorDeletes(d, c)
      PROVE  RowsOK'
  BY <1>18 DEF OperatorDeletes, InFlight, Deleters
<1>19. CASE SweepLists
  BY <1>19 DEF SweepLists, Stale
<1>20. CASE PowerLoss
  BY <1>20 DEF PowerLoss, ThreadsEnd, Troubled, Ended
<1>21. CASE UNCHANGED vars
  BY <1>21 DEF vars
<1> HIDE DEF TypeOK, RowsOK, DeletionsOK
<1> QED
  BY <1>1, <1>2, <1>3, <1>4, <1>5, <1>6, <1>7, <1>8, <1>9, <1>10, <1>11, <1>12, <1>13,
     <1>14, <1>15, <1>16, <1>17, <1>18, <1>19, <1>20, <1>21
     DEF Next, Shooting, Finishing, Deleting

(* A deletion never takes a picture that is still to be written, and what it *)
(* has passed does not come back.                                            *)
LEMMA DeletionsStep ==
  ASSUME TypeOK, RowsOK, DeletionsOK, [Next]_vars
  PROVE  DeletionsOK'
<1> USE RetentionAssumption DEF TypeOK, RowsOK, DeletionsOK, On, Settled,
    InFlight, Idle, Deleters, table, files, history
<1>1. ASSUME NEW c \in Pictures, NEW deliverable \in BOOLEAN, Triggered(c, deliverable)
      PROVE  DeletionsOK'
  BY <1>1 DEF Triggered, Goes
<1>2. ASSUME NEW c \in Pictures, PreviewTaken(c) PROVE DeletionsOK'
  BY <1>2 DEF PreviewTaken, Goes
<1>3. ASSUME NEW c \in Pictures, FullTaken(c) PROVE DeletionsOK'
  BY <1>3 DEF FullTaken, Goes
<1>4. ASSUME NEW c \in Pictures, Enqueued(c) PROVE DeletionsOK'
  BY <1>4 DEF Enqueued, Goes
<1>5. ASSUME NEW c \in Pictures, ShotFails(c) PROVE DeletionsOK'
  BY <1>5 DEF ShotFails, Goes, Underway, InFlight
<1>6. ASSUME NEW c \in Pictures, Composed(c) PROVE DeletionsOK'
  BY <1>6 DEF Composed, Goes
<1>7. ASSUME NEW c \in Pictures, RowRefused(c) PROVE DeletionsOK'
  BY <1>7 DEF RowRefused, Goes, Troubled
<1>8. ASSUME NEW c \in Pictures, TestShot(c) PROVE DeletionsOK'
  BY <1>8 DEF TestShot, Goes
<1>9. ASSUME NEW c \in Pictures, GrowsOld(c) PROVE DeletionsOK'
  BY <1>9 DEF GrowsOld, Underway, InFlight
<1>10. ASSUME NEW c \in Pictures, UploadStarts(c) PROVE DeletionsOK'
  BY <1>10 DEF UploadStarts
<1>11. ASSUME NEW c \in Pictures, UploadEnds(c) PROVE DeletionsOK'
  BY <1>11 DEF UploadEnds
<1>12. ASSUME NEW c \in Pictures, SweepNext(c) PROVE DeletionsOK'
  BY <1>12 DEF SweepNext
<1>13. ASSUME NEW c \in Pictures, PowerLossWhileComposing(c) PROVE DeletionsOK'
  BY <1>13 DEF PowerLossWhileComposing, ThreadsEnd, Troubled, Ended
<1>14. ASSUME NEW d \in Deleters, NEW c \in Pictures, UnlinkFull(d, c)
      PROVE  DeletionsOK'
  BY <1>14 DEF UnlinkFull
<1>15. ASSUME NEW d \in Deleters, NEW c \in Pictures, UnlinkPreview(d, c)
      PROVE  DeletionsOK'
  BY <1>15 DEF UnlinkPreview
<1>16. ASSUME NEW d \in Deleters, NEW c \in Pictures, RowDeleted(d, c)
      PROVE  DeletionsOK'
  BY <1>16 DEF RowDeleted
<1>17. ASSUME NEW d \in Deleters, NEW c \in Pictures, RowStays(d, c)
      PROVE  DeletionsOK'
  BY <1>17 DEF RowStays, Troubled
<1>18. ASSUME NEW d \in Requests, NEW c \in Pictures, OperatorDeletes(d, c)
      PROVE  DeletionsOK'
  BY <1>18 DEF OperatorDeletes, InFlight, Deleters
<1>19. CASE SweepLists
  BY <1>19 DEF SweepLists, Stale
<1>20. CASE PowerLoss
  BY <1>20 DEF PowerLoss, ThreadsEnd, Troubled, Ended
<1>21. CASE UNCHANGED vars
  BY <1>21 DEF vars
<1> HIDE DEF TypeOK, RowsOK, DeletionsOK
<1> QED
  BY <1>1, <1>2, <1>3, <1>4, <1>5, <1>6, <1>7, <1>8, <1>9, <1>10, <1>11, <1>12, <1>13,
     <1>14, <1>15, <1>16, <1>17, <1>18, <1>19, <1>20, <1>21
     DEF Next, Shooting, Finishing, Deleting

(* No step leaves a file without a row.                                      *)
LEMMA OrphansStep ==
  ASSUME TypeOK, RowsOK, DeletionsOK, OrphansExplained, [Next]_vars
  PROVE  OrphansExplained'
<1> USE DEF TypeOK, RowsOK, DeletionsOK, InFlight, OrphansExplained, table,
    files, history
<1>1. ASSUME NEW c \in Pictures, NEW deliverable \in BOOLEAN, Triggered(c, deliverable)
      PROVE  OrphansExplained'
  BY <1>1 DEF Triggered, Goes
<1>2. ASSUME NEW c \in Pictures, PreviewTaken(c) PROVE OrphansExplained'
  BY <1>2 DEF PreviewTaken, Goes
<1>3. ASSUME NEW c \in Pictures, FullTaken(c) PROVE OrphansExplained'
  BY <1>3 DEF FullTaken, Goes
<1>4. ASSUME NEW c \in Pictures, Enqueued(c) PROVE OrphansExplained'
  BY <1>4 DEF Enqueued, Goes
<1>5. ASSUME NEW c \in Pictures, ShotFails(c) PROVE OrphansExplained'
  BY <1>5 DEF ShotFails, Goes, Underway, InFlight
<1>6. ASSUME NEW c \in Pictures, Composed(c) PROVE OrphansExplained'
  BY <1>6 DEF Composed, Goes
<1>7. ASSUME NEW c \in Pictures, RowRefused(c) PROVE OrphansExplained'
  BY <1>7 DEF RowRefused, Goes, Troubled
<1>8. ASSUME NEW c \in Pictures, TestShot(c) PROVE OrphansExplained'
  BY <1>8 DEF TestShot, Goes
<1>9. ASSUME NEW c \in Pictures, GrowsOld(c) PROVE OrphansExplained'
  BY <1>9 DEF GrowsOld, Underway, InFlight
<1>10. ASSUME NEW c \in Pictures, UploadStarts(c) PROVE OrphansExplained'
  BY <1>10 DEF UploadStarts
<1>11. ASSUME NEW c \in Pictures, UploadEnds(c) PROVE OrphansExplained'
  BY <1>11 DEF UploadEnds
<1>12. ASSUME NEW c \in Pictures, SweepNext(c) PROVE OrphansExplained'
  BY <1>12 DEF SweepNext
<1>13. ASSUME NEW c \in Pictures, PowerLossWhileComposing(c)
      PROVE  OrphansExplained'
  BY <1>13 DEF PowerLossWhileComposing, ThreadsEnd, Troubled, Ended
<1>14. ASSUME NEW d \in Deleters, NEW c \in Pictures, UnlinkFull(d, c)
      PROVE  OrphansExplained'
  BY <1>14 DEF UnlinkFull
<1>15. ASSUME NEW d \in Deleters, NEW c \in Pictures, UnlinkPreview(d, c)
      PROVE  OrphansExplained'
  BY <1>15 DEF UnlinkPreview
<1>16. ASSUME NEW d \in Deleters, NEW c \in Pictures, RowDeleted(d, c)
      PROVE  OrphansExplained'
  BY <1>16 DEF RowDeleted
<1>17. ASSUME NEW d \in Deleters, NEW c \in Pictures, RowStays(d, c)
      PROVE  OrphansExplained'
  BY <1>17 DEF RowStays, Troubled
<1>18. ASSUME NEW d \in Requests, NEW c \in Pictures, OperatorDeletes(d, c)
      PROVE  OrphansExplained'
  BY <1>18 DEF OperatorDeletes, InFlight, Deleters
<1>19. CASE SweepLists
  BY <1>19 DEF SweepLists, Stale
<1>20. CASE PowerLoss
  BY <1>20 DEF PowerLoss, ThreadsEnd, Troubled, Ended
<1>21. CASE UNCHANGED vars
  BY <1>21 DEF vars
<1> HIDE DEF TypeOK, RowsOK, DeletionsOK, OrphansExplained
<1> QED
  BY <1>1, <1>2, <1>3, <1>4, <1>5, <1>6, <1>7, <1>8, <1>9, <1>10, <1>11, <1>12, <1>13,
     <1>14, <1>15, <1>16, <1>17, <1>18, <1>19, <1>20, <1>21
     DEF Next, Shooting, Finishing, Deleting

(* A picture whose deletion was confirmed gets no file again.                *)
LEMMA AnsweredStep ==
  ASSUME TypeOK, RowsOK, DeletionsOK, AnsweredGone, [Next]_vars
  PROVE  AnsweredGone'
<1> USE DEF TypeOK, RowsOK, DeletionsOK, On, Settled, InFlight, AnsweredGone,
    table, files, history
<1>1. ASSUME NEW c \in Pictures, NEW deliverable \in BOOLEAN, Triggered(c, deliverable)
      PROVE  AnsweredGone'
  BY <1>1 DEF Triggered, Goes
<1>2. ASSUME NEW c \in Pictures, PreviewTaken(c) PROVE AnsweredGone'
  BY <1>2 DEF PreviewTaken, Goes
<1>3. ASSUME NEW c \in Pictures, FullTaken(c) PROVE AnsweredGone'
  BY <1>3 DEF FullTaken, Goes
<1>4. ASSUME NEW c \in Pictures, Enqueued(c) PROVE AnsweredGone'
  BY <1>4 DEF Enqueued, Goes
<1>5. ASSUME NEW c \in Pictures, ShotFails(c) PROVE AnsweredGone'
  BY <1>5 DEF ShotFails, Goes, Underway, InFlight
<1>6. ASSUME NEW c \in Pictures, Composed(c) PROVE AnsweredGone'
  BY <1>6 DEF Composed, Goes
<1>7. ASSUME NEW c \in Pictures, RowRefused(c) PROVE AnsweredGone'
  BY <1>7 DEF RowRefused, Goes, Troubled
<1>8. ASSUME NEW c \in Pictures, TestShot(c) PROVE AnsweredGone'
  BY <1>8 DEF TestShot, Goes
<1>9. ASSUME NEW c \in Pictures, GrowsOld(c) PROVE AnsweredGone'
  BY <1>9 DEF GrowsOld, Underway, InFlight
<1>10. ASSUME NEW c \in Pictures, UploadStarts(c) PROVE AnsweredGone'
  BY <1>10 DEF UploadStarts
<1>11. ASSUME NEW c \in Pictures, UploadEnds(c) PROVE AnsweredGone'
  BY <1>11 DEF UploadEnds
<1>12. ASSUME NEW c \in Pictures, SweepNext(c) PROVE AnsweredGone'
  BY <1>12 DEF SweepNext
<1>13. ASSUME NEW c \in Pictures, PowerLossWhileComposing(c)
      PROVE  AnsweredGone'
  BY <1>13 DEF PowerLossWhileComposing, ThreadsEnd, Troubled, Ended
<1>14. ASSUME NEW d \in Deleters, NEW c \in Pictures, UnlinkFull(d, c)
      PROVE  AnsweredGone'
  BY <1>14 DEF UnlinkFull
<1>15. ASSUME NEW d \in Deleters, NEW c \in Pictures, UnlinkPreview(d, c)
      PROVE  AnsweredGone'
  BY <1>15 DEF UnlinkPreview
<1>16. ASSUME NEW d \in Deleters, NEW c \in Pictures, RowDeleted(d, c)
      PROVE  AnsweredGone'
  BY <1>16 DEF RowDeleted
<1>17. ASSUME NEW d \in Deleters, NEW c \in Pictures, RowStays(d, c)
      PROVE  AnsweredGone'
  BY <1>17 DEF RowStays, Troubled
<1>18. ASSUME NEW d \in Requests, NEW c \in Pictures, OperatorDeletes(d, c)
      PROVE  AnsweredGone'
  BY <1>18 DEF OperatorDeletes, InFlight, Deleters
<1>19. CASE SweepLists
  BY <1>19 DEF SweepLists, Stale
<1>20. CASE PowerLoss
  BY <1>20 DEF PowerLoss, ThreadsEnd, Troubled, Ended
<1>21. CASE UNCHANGED vars
  BY <1>21 DEF vars
<1> HIDE DEF TypeOK, RowsOK, DeletionsOK, AnsweredGone
<1> QED
  BY <1>1, <1>2, <1>3, <1>4, <1>5, <1>6, <1>7, <1>8, <1>9, <1>10, <1>11, <1>12, <1>13,
     <1>14, <1>15, <1>16, <1>17, <1>18, <1>19, <1>20, <1>21
     DEF Next, Shooting, Finishing, Deleting

(* The invariant holds in every reachable state.                             *)
LEMMA Invariance == Spec => []IInv
<1>1. Init => IInv
  BY RetentionAssumption DEF Init, IInv, TypeOK, RowsOK, DeletionsOK, On, Settled, InFlight,
     OrphansExplained, AnsweredGone, Idle, Deleters
<1>2. IInv /\ [Next]_vars => IInv'
  BY TypeStep, RowsStep, DeletionsStep, OrphansStep, AnsweredStep DEF IInv
<1> QED
  BY <1>1, <1>2, PTL DEF Spec
-----------------------------------------------------------------------------
(* Type correctness (retention.py:53-132).                                   *)
THEOREM TypeCorrect == Spec => []TypeOK
  BY Invariance, PTL DEF IInv

(* Row and files go as a unit, for any number of pictures and of operators   *)
(* who delete at once, but for the named causes (retention.py:53-74).        *)
THEOREM FilesKeepTheirRows == Spec => []OrphansExplained
  BY Invariance, PTL DEF IInv

(* A picture is not sent after its deletion was confirmed, whatever becomes  *)
(* of its upload job (admin.py:493-507).                                     *)
THEOREM NothingDeletedIsSent == Spec => DeletedIsNotSent
<1> DEFINE NoneSent ==
             \A c \in answered \ excused : job'[c] = "sending" => job[c] = "sending"
<1>1. ASSUME IInv, [Next]_vars PROVE NoneSent
  <2> USE <1>1 DEF IInv, TypeOK, AnsweredGone
  <2>1. ASSUME NEW c \in Pictures, UploadStarts(c) PROVE NoneSent
    BY <2>1 DEF UploadStarts
  <2>2. ASSUME NEW c \in Pictures, UploadEnds(c) \/ Enqueued(c) PROVE NoneSent
    BY <2>2 DEF UploadEnds, Enqueued
  <2>3. CASE PowerLoss \/ \E c \in Pictures : PowerLossWhileComposing(c)
    BY <2>3 DEF PowerLoss, PowerLossWhileComposing, ThreadsEnd
  <2>4. CASE UNCHANGED job
    BY <2>4
  <2> QED
    BY <2>1, <2>2, <2>3, <2>4 DEF Next, Shooting, Finishing, Deleting, Triggered, PreviewTaken,
       FullTaken, ShotFails, Composed, RowRefused, TestShot, GrowsOld, SweepLists, SweepNext,
       OperatorDeletes, UnlinkFull, UnlinkPreview, RowDeleted, RowStays, vars
<1> QED
  BY <1>1, Invariance, PTL DEF Spec, DeletedIsNotSent
=============================================================================
