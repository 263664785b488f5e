----------------------------- MODULE Retention -----------------------------
(* The life of a picture: the shot or the composite that writes its row and  *)
(* files, its upload, and the two threads that delete it, the retention      *)
(* sweep and the operator's request (storage/retention.py).  A step is one   *)
(* file or one commit: other threads and power losses come between.          *)
EXTENDS Naturals

CONSTANTS
  Pictures,   \* capture ids
  Requests,   \* threads of the operator's DELETE requests
  MaxTrouble  \* bound: power losses and database errors

Sweep == "sweep"
Idle == <<>>

ASSUME RetentionAssumption == Sweep \notin Requests /\ MaxTrouble \in Nat

Deleters == Requests \cup {Sweep}

VARIABLES
  stage,    \* where the coroutine that takes the picture is
  rows,     \* ids in table captures
  listed,   \* pictures that are deliverables: the pages list their rows
  old,      \* their created_at is before now - max_age_days
  full,     \* {id}.jpg in CAPTURES_DIR
  preview,  \* {id}-preview.jpg
  job,      \* the upload job of the picture
  at,       \* a deleting thread's place in delete_capture, and its picture
  todo,     \* the sweep's stale_ids that are still to come
  trouble,
  excused,  \* history: pictures of which something may leave a file behind
  answered  \* history: pictures the operator was told are deleted

table == <<rows, listed, old>>
files == <<full, preview>>
history == <<excused, answered>>
vars == <<stage, table, files, job, at, todo, trouble, history>>

TypeOK ==
  /\ stage \in [Pictures -> {"none", "row", "download", "kept", "queued", "failed"}]
  /\ rows \subseteq Pictures /\ listed \subseteq Pictures /\ old \subseteq rows
  /\ full \subseteq Pictures /\ preview \subseteq Pictures
  /\ job \in [Pictures -> {"none", "pending", "sending", "ended"}]
  /\ at \in [Deleters -> {Idle} \cup ({"jpg", "preview", "row"} \X Pictures)]
  /\ todo \subseteq Pictures /\ trouble \in 0 .. MaxTrouble
  /\ excused \subseteq Pictures /\ answered \subseteq Pictures

Init ==
  /\ stage = [c \in Pictures |-> "none"]
  /\ rows = {} /\ listed = {} /\ old = {} /\ full = {} /\ preview = {}
  /\ job = [c \in Pictures |-> "none"]
  /\ at = [d \in Deleters |-> Idle] /\ todo = {}
  /\ trouble = 0 /\ excused = {} /\ answered = {}

InFlight(c) == stage[c] \in {"row", "download"}
Underway(c) == InFlight(c) \/ (stage[c] = "kept" /\ c \in listed)
Goes(c, from, to) == stage[c] = from /\ stage' = [stage EXCEPT ![c] = to]
-----------------------------------------------------------------------------
(* The trigger is answered: the row first, deliverable for a one-slot        *)
(* template (session.py:222-228, CaptureRepo.create).                        *)
Triggered(c, deliverable) ==
  /\ Goes(c, "none", "row")
  /\ rows' = rows \cup {c}
  /\ listed' = IF deliverable THEN listed \cup {c} ELSE listed
  /\ UNCHANGED <<old, files, job, at, todo, trouble, history>>

(* The preview is written, unless the camera has none ...                    *)
PreviewTaken(c) ==
  /\ Goes(c, "row", "download")
  /\ preview' \in {preview, preview \cup {c}}
  /\ UNCHANGED <<table, full, job, at, todo, trouble, history>>

(* ... then the full image.                                                  *)
FullTaken(c) ==
  /\ Goes(c, "download", "kept")
  /\ full' = full \cup {c}
  /\ UNCHANGED <<table, preview, job, at, todo, trouble, history>>

(* A deliverable is broadcast, and its upload enqueued, whatever has become  *)
(* of its row and file meanwhile.                                            *)
Enqueued(c) ==
  /\ Goes(c, "kept", "queued") /\ c \in listed
  /\ job' = [job EXCEPT ![c] = "pending"]
  /\ UNCHANGED <<table, files, at, todo, trouble, history>>

(* A camera or file error, a broadcast that is cut short: the row stays.     *)
ShotFails(c) ==
  /\ Goes(c, stage[c], "failed") /\ Underway(c)
  /\ UNCHANGED <<table, files, job, at, todo, trouble, history>>

SourceOf(c) == \E raw \in Pictures \ listed : stage[raw] = "kept"

(* The composite of raw shots: its file, then its row, without an await.     *)
Composed(c) ==
  /\ Goes(c, "none", "kept") /\ SourceOf(c)
  /\ full' = full \cup {c}
  /\ rows' = rows \cup {c} /\ listed' = listed \cup {c}
  /\ UNCHANGED <<old, preview, job, at, todo, trouble, history>>

Troubled == trouble < MaxTrouble /\ trouble' = trouble + 1

(* The composite's INSERT raises when its file is there.                     *)
RowRefused(c) ==
  /\ Troubled
  /\ Goes(c, "none", "failed") /\ SourceOf(c)
  /\ full' = full \cup {c} /\ excused' = excused \cup {c}
  /\ UNCHANGED <<table, preview, job, at, todo, answered>>

(* POST /admin/actions/test-shot writes a file and no row.                   *)
TestShot(c) ==
  /\ Goes(c, "none", "failed")
  /\ full' = full \cup {c} /\ excused' = excused \cup {c}
  /\ UNCHANGED <<table, preview, job, at, todo, trouble, answered>>

(* Mutation: the age is read from the file and not from the row.             *)
FileGrowsOld(c) ==
  /\ c \in full \ old /\ ~Underway(c)
  /\ old' = old \cup {c}
  /\ UNCHANGED <<stage, rows, listed, files, job, at, todo, trouble, history>>

(* max_age_days, at least one, go by; a shot takes seconds.                  *)
GrowsOld(c) ==
  /\ c \in rows \ old /\ ~Underway(c)
  /\ old' = old \cup {c}
  /\ UNCHANGED <<stage, rows, listed, files, job, at, todo, trouble, history>>
-----------------------------------------------------------------------------
(* Mutation: as in the pages' queries, the raw shots are left out.           *)
StaleListed == old \cap listed

(* CaptureRepo.list_older_than: created_at < now - max_age_days.             *)
Stale == old

(* run_retention_sweep_once: the stale ids are listed once, and each is      *)
(* deleted in turn.                                                          *)
SweepLists ==
  /\ at[Sweep] = Idle /\ todo = {}
  /\ Stale # {} /\ todo' = Stale
  /\ UNCHANGED <<stage, table, files, job, at, trouble, history>>

SweepNext(c) ==
  /\ at[Sweep] = Idle /\ c \in todo
  /\ todo' = todo \ {c} /\ at' = [at EXCEPT ![Sweep] = <<"jpg", c>>]
  /\ UNCHANGED <<stage, table, files, job, trouble, history>>

(* Mutation: the request deletes the row and leaves the files to the sweep.  *)
OperatorDeletesRow(d, c) ==
  /\ at[d] = Idle /\ c \in rows
  /\ at' = [at EXCEPT ![d] = <<"row", c>>]
  /\ excused' = IF InFlight(c) THEN excused \cup {c} ELSE excused
  /\ UNCHANGED <<stage, table, files, job, todo, trouble, answered>>

(* DELETE /admin/captures/{id}: 404 without a row.  The gallery lists a      *)
(* one-slot picture as soon as its row is there, so the operator may delete  *)
(* it while its download is still in flight.                                 *)
OperatorDeletes(d, c) ==
  /\ at[d] = Idle /\ c \in rows
  /\ at' = [at EXCEPT ![d] = <<"jpg", c>>]
  /\ excused' = IF InFlight(c) THEN excused \cup {c} ELSE excused
  /\ UNCHANGED <<stage, table, files, job, todo, trouble, answered>>

(* delete_capture: the full image, then the preview.  A missing file is      *)
(* passed over; any other OSError is logged, and the deletion goes on.       *)
UnlinkFull(d, c) ==
  /\ at[d] = <<"jpg", c>> /\ at' = [at EXCEPT ![d] = <<"preview", c>>]
  /\ \/ full' = full \ {c} /\ UNCHANGED excused
     \/ c \in full /\ excused' = excused \cup {c} /\ UNCHANGED full
  /\ UNCHANGED <<stage, table, preview, job, todo, trouble, answered>>

(* Mutation: the preview is forgotten.                                       *)
UnlinkNoPreview(d, c) ==
  /\ at[d] = <<"preview", c>> /\ at' = [at EXCEPT ![d] = <<"row", c>>]
  /\ UNCHANGED <<stage, table, files, job, todo, trouble, history>>

UnlinkPreview(d, c) ==
  /\ at[d] = <<"preview", c>> /\ at' = [at EXCEPT ![d] = <<"row", c>>]
  /\ \/ preview' = preview \ {c} /\ UNCHANGED excused
     \/ c \in preview /\ excused' = excused \cup {c} /\ UNCHANGED preview
  /\ UNCHANGED <<stage, table, full, job, todo, trouble, answered>>

(* CaptureRepo.delete: the row goes last.                                    *)
RowDeleted(d, c) ==
  /\ at[d] = <<"row", c>> /\ at' = [at EXCEPT ![d] = Idle]
  /\ rows' = rows \ {c} /\ old' = old \ {c}
  /\ answered' = IF d \in Requests THEN answered \cup {c} ELSE answered
  /\ UNCHANGED <<stage, listed, files, job, todo, trouble, excused>>

(* The DELETE raises: the sweep gives up until the next hour, the operator   *)
(* gets a 500.                                                               *)
RowStays(d, c) ==
  /\ Troubled
  /\ at[d] = <<"row", c>> /\ at' = [at EXCEPT ![d] = Idle]
  /\ todo' = IF d = Sweep THEN {} ELSE todo
  /\ UNCHANGED <<stage, table, files, job, history>>
-----------------------------------------------------------------------------
(* The upload worker's attempt opens the local file ...                      *)
UploadStarts(c) ==
  /\ job[c] = "pending" /\ c \in full
  /\ job' = [job EXCEPT ![c] = "sending"]
  /\ UNCHANGED <<stage, table, files, at, todo, trouble, history>>

(* ... which it goes on reading when it is unlinked meanwhile.  The job is   *)
(* done, tried again or dead; without the file an attempt fails.             *)
UploadEnds(c) ==
  /\ job[c] = "sending" \/ (job[c] = "pending" /\ c \notin full)
  /\ \E verdict \in {"pending", "ended"} : job' = [job EXCEPT ![c] = verdict]
  /\ UNCHANGED <<stage, table, files, at, todo, trouble, history>>
-----------------------------------------------------------------------------
(* The coroutines of pictures that are not queued yet end where they are.    *)
Ended(c) == IF stage[c] \in {"none", "queued"} THEN stage[c] ELSE "failed"

(* The power fails and the booth boots again: threads end as well, and a job *)
(* that was being sent stays so for good ...                                 *)
ThreadsEnd ==
  /\ Troubled
  /\ at' = [d \in Deleters |-> Idle] /\ todo' = {}
  /\ job' = [c \in Pictures |-> IF job[c] = "sending" THEN "ended" ELSE job[c]]
  /\ UNCHANGED <<table, preview, answered>>

PowerLoss ==
  /\ ThreadsEnd
  /\ stage' = [c \in Pictures |-> Ended(c)]
  /\ UNCHANGED <<full, excused>>

(* ... also between a composite's file and its row.                          *)
PowerLossWhileComposing(c) ==
  /\ ThreadsEnd /\ stage[c] = "none" /\ SourceOf(c)
  /\ full' = full \cup {c} /\ excused' = excused \cup {c}
  /\ stage' = [b \in Pictures |-> IF b = c THEN "failed" ELSE Ended(b)]
-----------------------------------------------------------------------------
Finishing(c) ==
  PreviewTaken(c) \/ FullTaken(c) \/ Enqueued(c) \/ ShotFails(c)

Shooting(c) ==
  \/ \E deliverable \in BOOLEAN : Triggered(c, deliverable)
  \/ Finishing(c) \/ Composed(c) \/ RowRefused(c) \/ TestShot(c) \/ GrowsOld(c)

Deleting(d) ==
  \E c \in Pictures :
    UnlinkFull(d, c) \/ UnlinkPreview(d, c) \/ RowDeleted(d, c) \/ RowStays(d, c)

Next ==
  \/ \E c \in Pictures : Shooting(c) \/ UploadStarts(c) \/ UploadEnds(c)
                         \/ SweepNext(c) \/ PowerLossWhileComposing(c)
  \/ \E d \in Deleters : Deleting(d)
  \/ \E d \in Requests, c \in Pictures : OperatorDeletes(d, c)
  \/ SweepLists \/ PowerLoss

Spec == Init /\ [][Next]_vars

(* The sweep's thread runs every hour and goes on after an exception; shots  *)
(* end, and pictures grow old.                                               *)
FairSpec ==
  /\ Spec
  /\ WF_vars(SweepLists) /\ WF_vars(\E c \in Pictures : SweepNext(c))
  /\ WF_vars(Deleting(Sweep))
  /\ \A c \in Pictures : WF_vars(GrowsOld(c)) /\ WF_vars(Finishing(c))
-----------------------------------------------------------------------------
(* Row and files go as a unit: a file without a row, which no sweep will     *)
(* ever find, is left only by an unlink that failed, by deleting a picture   *)
(* that is still being taken, by a power loss or an error between a          *)
(* composite's file and its row, or by the operator's test shot              *)
(* (retention.py:53-74, 87-91).                                              *)
OrphansExplained == \A c \in full \cup preview : c \in rows \cup excused

(* A picture that the operator was told is deleted is not sent afterwards,   *)
(* although its upload job stays in the queue (admin.py:493-510).            *)
DeletedIsNotSent ==
  [][\A c \in answered \ excused : job'[c] = "sending" => job[c] = "sending"]_vars

(* Automatic deletion after a defined window, enforced in code: every        *)
(* picture loses its row and its files in the end, through errors, power     *)
(* losses and deletions that were cut short (retention.py:1-20).             *)
WindowEnforced ==
  \A c \in Pictures : (c \in rows) ~> (c \notin rows \cup full \cup preview \/ c \in excused)
=============================================================================
