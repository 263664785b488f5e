----------------------------- MODULE CaptureFlow -----------------------------
(* The live capture flow of web/session.py: one SessionManager shared by     *)
(* every HTTP request.  POST /session/capture runs the coroutine capture();  *)
(* each of its awaits (broadcasts, the countdown's sleep, the camera gate,   *)
(* the camera requests, the render thread) is a point at which any other     *)
(* request may run, and the manager's attributes (session id, template,      *)
(* state) are read again afterwards.  An action is the code one coroutine    *)
(* runs between two awaits.                                                  *)
EXTENDS SessionMachine, Integers, Sequences, FiniteSets

CONSTANTS
  Tasks,        \* concurrently running capture() coroutines
  Captures,     \* capture ids, as numbers in the order they are issued
  MaxSessions,  \* bound: session ids are numbered 0 .. MaxSessions
  SlotCounts,   \* slot counts of the templates an event's modes name
  Orderly,      \* TRUE: clients arm, capture and dismiss one at a time
  Faults,       \* the kinds of failure that happen
  MaxBoots      \* bound: process restarts

FaultKinds == {"camera", "storage", "render", "config", "restart"}

ASSUME FlowAssumption ==
  /\ Captures \subseteq Nat
  /\ MaxSessions \in Nat
  /\ SlotCounts \subseteq Nat \ {0}
  /\ Orderly \in BOOLEAN
  /\ Faults \subseteq FaultKinds
  /\ MaxBoots \in Nat

NoTemplate == 0
NoCapture  == -1
NoSession  == -1
SessionIds == 0 .. MaxSessions

VARIABLES
  \* SessionManager
  state,            \* _machine.state
  sid,              \* _session_id; ids are issued in order
  shotCount,        \* _shot_count
  template,         \* _armed_template_path, as its number of slots
  sessionCaptures,  \* _session_capture_ids
  cameraIdle,       \* the asyncio.Event _camera_idle
  \* CameraWorkerClient
  link,             \* tasks whose request holds, or waits for, the client's lock
  \* the capture() coroutines
  pc, left, shots, cur,
  \* the database
  rowState,         \* sessions.state, "none" while there is no row
  shared,           \* sessions with a share_token
  owner,            \* captures.session_id, NoSession while there is no row
  deliverable,      \* captures with is_deliverable
  uploads,          \* captures with an upload job
  \* captures_dir
  saved,            \* captures whose full-size file is on disk
  sources,          \* the shots a composite was rendered from
  \* the process
  boots, bootSid    \* restarts so far; the session id the last one began with

manager  == <<state, sid, shotCount, template, sessionCaptures>>
task     == <<pc, left, shots, cur>>
captureDb == <<owner, deliverable>>
disk     == <<saved, sources>>
process  == <<boots, bootSid>>
vars == <<manager, cameraIdle, link, task, rowState, shared, captureDb,
          uploads, disk, process>>

(* Where a coroutine is suspended.  "free": no coroutine.                    *)
OnLink == {"trigger", "preview", "full"}
PCs == OnLink \cup {"free", "countdown", "gate", "woken", "previewed",
                    "announced", "render", "composed", "failing"}
-----------------------------------------------------------------------------
TypeOK ==
  /\ state \in States
  /\ sid \in SessionIds
  /\ shotCount \in Nat
  /\ template \in Nat
  /\ sessionCaptures \subseteq Captures
  /\ cameraIdle \in BOOLEAN
  /\ link \in Seq(Tasks)
  /\ pc \in [Tasks -> PCs]
  /\ left \in [Tasks -> Nat]
  /\ shots \in [Tasks -> Seq(Captures)]
  /\ cur \in [Tasks -> Captures \cup {NoCapture}]
  /\ rowState \in [SessionIds -> States \cup {"none"}]
  /\ shared \subseteq SessionIds
  /\ owner \in [Captures -> SessionIds \cup {NoSession}]
  /\ deliverable \subseteq Captures
  /\ uploads \subseteq Captures
  /\ saved \subseteq Captures
  /\ sources \in [Captures -> Seq(Captures)]
  /\ boots \in Nat
  /\ bootSid \in SessionIds

Init ==
  /\ state = "idle" /\ sid = 0
  /\ shotCount = 1 /\ template = NoTemplate
  /\ sessionCaptures = {}
  /\ cameraIdle = TRUE
  /\ link = <<>>
  /\ pc = [t \in Tasks |-> "free"]
  /\ left = [t \in Tasks |-> 0]
  /\ shots = [t \in Tasks |-> <<>>]
  /\ cur = [t \in Tasks |-> NoCapture]
  /\ rowState = [s \in SessionIds |-> "none"]
  /\ shared = {}
  /\ owner = [c \in Captures |-> NoSession]
  /\ deliverable = {} /\ uploads = {} /\ saved = {}
  /\ sources = [c \in Captures |-> <<>>]
  /\ boots = 0 /\ bootSid = 0
-----------------------------------------------------------------------------
(* Mutation: the machine moves, but the session's row is not updated.        *)
TransitionInMemory(target) ==
  CanGo(state, target) /\ state' = target /\ UNCHANGED rowState

(* _transition: move the machine, UPDATE the current session's row (no row,  *)
(* no effect), broadcast.  A refused move raises before anything is written. *)
Transition(target) ==
  /\ CanGo(state, target)
  /\ state' = target
  /\ rowState' = [s \in SessionIds |->
                    IF s = sid /\ rowState[s] # "none" THEN target ELSE rowState[s]]

(* The move, or the InvalidTransitionError that ends the coroutine.          *)
TryTransition(target) ==
  \/ Transition(target)
  \/ ~CanGo(state, target) /\ UNCHANGED <<state, rowState>>

(* uuid4(): the next id nobody has.                                          *)
Unissued(c) == owner[c] = NoSession /\ c \notin saved
Fresh(c) == Unissued(c) /\ \A d \in Captures : d < c => ~Unissued(d)

At(t, next) == [pc EXCEPT ![t] = next]

(* Mutation: the download's finally, which opens the gate, is missing.       *)
GateStaysClosed(t, next) == pc' = At(t, next) /\ UNCHANGED cameraIdle

(* asyncio.Event.set() resolves every waiter's future; a waiter resumes      *)
(* later and does not look at the event again.                               *)
SetIdleAndAt(t, next) ==
  /\ cameraIdle' = TRUE
  /\ pc' = [u \in Tasks |-> IF u = t THEN next
                            ELSE IF pc[u] = "gate" THEN "woken" ELSE pc[u]]

(* The coroutine of t is over: its locals go away.                           *)
DropLocals(t) ==
  /\ left' = [left EXCEPT ![t] = 0]
  /\ shots' = [shots EXCEPT ![t] = <<>>]
  /\ cur' = [cur EXCEPT ![t] = NoCapture]

(* The client's asyncio.Lock is fair: requests are served in the order they  *)
(* were issued, and only the first one can be answered.                      *)
Issue(t)   == link' = Append(link, t)
Answered(t) == link # <<>> /\ Head(link) = t
-----------------------------------------------------------------------------
(* Mutation: a guest's touches are not ignored while a capture is running.   *)
TouchAnytime == TRUE

(* An orderly client sends a request only when no capture() is running.      *)
Admitted == Orderly => \A t \in Tasks : pc[t] = "free"

(* arm(): the machine moves first, then the id changes, then the event and   *)
(* the template are loaded, and only then the session's row is created.      *)
Arm(slots) ==
  /\ Admitted
  /\ CanGo(state, "armed") /\ sid < MaxSessions
  /\ state' = "armed" /\ sid' = sid + 1
  /\ sessionCaptures' = {}
  /\ template' = slots /\ shotCount' = slots
  /\ rowState' = [rowState EXCEPT ![sid + 1] = "armed"]
  /\ UNCHANGED <<cameraIdle, link, task, shared, captureDb, uploads, disk, process>>

(* arm() when load_event or load_template raises: the manager is armed with  *)
(* the shot count of the session before, without a template or a row.        *)
ArmFails ==
  /\ "config" \in Faults /\ Admitted
  /\ CanGo(state, "armed") /\ sid < MaxSessions
  /\ state' = "armed" /\ sid' = sid + 1
  /\ sessionCaptures' = {}
  /\ template' = NoTemplate
  /\ UNCHANGED <<shotCount, cameraIdle, link, task, rowState, shared,
                 captureDb, uploads, disk, process>>

(* dismiss(), and the admin's reset-session.                                 *)
Dismiss ==
  /\ Admitted
  /\ Transition("idle")
  /\ UNCHANGED <<sid, shotCount, template, sessionCaptures, cameraIdle, link,
                 task, shared, captureDb, uploads, disk, process>>

(* capture() up to its first await.  An orderly client captures right after  *)
(* it armed, as Kiosk.svelte's startSession does.                            *)
StartCapture(t) ==
  /\ Admitted /\ (Orderly => state = "armed")
  /\ pc[t] = "free"
  /\ Transition("countdown")
  /\ left' = [left EXCEPT ![t] = shotCount]
  /\ pc' = At(t, "countdown")
  /\ UNCHANGED <<sid, shotCount, template, sessionCaptures, cameraIdle, link,
                 shots, cur, shared, captureDb, uploads, disk, process>>
-----------------------------------------------------------------------------
(* The sleep is over; _camera_idle.wait() suspends when the event is clear.  *)
HoldAtGate(t) ==
  /\ pc[t] = "countdown" /\ ~cameraIdle
  /\ pc' = At(t, "gate")
  /\ UNCHANGED <<manager, cameraIdle, link, left, shots, cur, rowState, shared,
                 captureDb, uploads, disk, process>>

(* Past the gate: CAPTURING, and the trigger request is issued.              *)
Trigger(t) ==
  /\ \/ pc[t] = "countdown" /\ cameraIdle
     \/ pc[t] = "woken"
  /\ Transition("capturing")
  /\ pc' = At(t, "trigger") /\ Issue(t)
  /\ UNCHANGED <<sid, shotCount, template, sessionCaptures, cameraIdle, left,
                 shots, cur, shared, captureDb, uploads, disk, process>>

(* Past the gate, but someone dismissed the session meanwhile: the machine   *)
(* refuses CAPTURING and the coroutine dies of InvalidTransitionError.       *)
TriggerRefused(t) ==
  /\ \/ pc[t] = "countdown" /\ cameraIdle
     \/ pc[t] = "woken"
  /\ ~CanGo(state, "capturing")
  /\ pc' = At(t, "free") /\ DropLocals(t)
  /\ UNCHANGED <<manager, cameraIdle, link, rowState, shared, captureDb,
                 uploads, disk, process>>

(* Mutation: the first shot of a strip is marked as the deliverable, too.    *)
FirstShotDeliverable(t, c) ==
  /\ pc[t] = "trigger" /\ Answered(t) /\ Fresh(c)
  /\ owner' = [owner EXCEPT ![c] = sid]
  /\ deliverable' = IF shots[t] = <<>> THEN deliverable \cup {c} ELSE deliverable
  /\ cur' = [cur EXCEPT ![t] = c]
  /\ pc' = At(t, "preview") /\ link' = Append(Tail(link), t)
  /\ UNCHANGED <<manager, cameraIdle, left, shots, rowState, shared, uploads,
                 disk, process>>

(* The shutter fired: the row is written under the session that is current   *)
(* now, deliverable when the coroutine shoots a single slot.                 *)
TriggerAnswered(t, c) ==
  /\ pc[t] = "trigger" /\ Answered(t) /\ Fresh(c)
  /\ owner' = [owner EXCEPT ![c] = sid]
  /\ deliverable' = IF left[t] = 1 /\ shots[t] = <<>>
                    THEN deliverable \cup {c} ELSE deliverable
  /\ cur' = [cur EXCEPT ![t] = c]
  /\ pc' = At(t, "preview") /\ link' = Append(Tail(link), t)
  /\ UNCHANGED <<manager, cameraIdle, left, shots, rowState, shared, uploads,
                 disk, process>>

(* A preview arrived: PreviewReady is broadcast before the download begins.  *)
PreviewAnswered(t) ==
  /\ pc[t] = "preview" /\ Answered(t)
  /\ pc' = At(t, "previewed") /\ link' = Tail(link)
  /\ UNCHANGED <<manager, cameraIdle, left, shots, cur, rowState, shared,
                 captureDb, uploads, disk, process>>

(* No preview from this camera, or its broadcast is done: clear the gate and *)
(* ask for the full image.                                                   *)
RequestFull(t) ==
  /\ \/ pc[t] = "previewed" /\ Issue(t)
     \/ pc[t] = "preview" /\ Answered(t) /\ link' = Append(Tail(link), t)
  /\ cameraIdle' = FALSE
  /\ pc' = At(t, "full")
  /\ UNCHANGED <<manager, left, shots, cur, rowState, shared, captureDb,
                 uploads, disk, process>>

(* Mutation: every slot gets the bytes of the first shot.                    *)
FirstShotRepeated(t) ==
  /\ pc[t] = "full" /\ Answered(t)
  /\ SetIdleAndAt(t, "announced") /\ link' = Tail(link)
  /\ saved' = saved \cup {cur[t]}
  /\ shots' = [shots EXCEPT ![t] = Append(@, IF @ = <<>> THEN cur[t] ELSE @[1])]
  /\ left' = [left EXCEPT ![t] = @ - 1]
  /\ cur' = [cur EXCEPT ![t] = NoCapture]
  /\ UNCHANGED <<manager, rowState, shared, captureDb, uploads, sources, process>>

(* The bytes arrived: the gate opens, the file is written, the shot is kept. *)
FullAnswered(t) ==
  /\ pc[t] = "full" /\ Answered(t)
  /\ SetIdleAndAt(t, "announced") /\ link' = Tail(link)
  /\ saved' = saved \cup {cur[t]}
  /\ shots' = [shots EXCEPT ![t] = Append(@, cur[t])]
  /\ left' = [left EXCEPT ![t] = @ - 1]
  /\ cur' = [cur EXCEPT ![t] = NoCapture]
  /\ UNCHANGED <<manager, rowState, shared, captureDb, uploads, sources, process>>

(* Any of the three requests ends in a CameraError: the handler opens the    *)
(* gate and broadcasts CaptureFailed.                                        *)
CameraFails(t) ==
  /\ "camera" \in Faults
  /\ pc[t] \in OnLink /\ Answered(t)
  /\ SetIdleAndAt(t, "failing") /\ link' = Tail(link)
  /\ UNCHANGED <<manager, left, shots, cur, rowState, shared, captureDb,
                 uploads, disk, process>>

(* Mutation: CaptureFailed is broadcast, but the state stays.                *)
FailureOnlyTold(t) ==
  /\ pc[t] = "failing"
  /\ pc' = At(t, "free") /\ DropLocals(t)
  /\ UNCHANGED <<manager, cameraIdle, link, rowState, shared, captureDb, uploads,
                 disk, process>>

(* ... and then sends the session that is current now to IDLE.               *)
FailureSettled(t) ==
  /\ pc[t] = "failing"
  /\ TryTransition("idle")
  /\ pc' = At(t, "free") /\ DropLocals(t)
  /\ UNCHANGED <<sid, shotCount, template, sessionCaptures, cameraIdle, link,
                 shared, captureDb, uploads, disk, process>>

(* Writing the preview or the full image to captures_dir raises OSError: not *)
(* a CameraError, so only the inner finally runs and the state stays.        *)
StorageFails(t) ==
  /\ "storage" \in Faults /\ Answered(t)
  /\ \/ pc[t] = "preview" /\ pc' = At(t, "free") /\ UNCHANGED cameraIdle
     \/ pc[t] = "full" /\ SetIdleAndAt(t, "free")
  /\ link' = Tail(link) /\ DropLocals(t)
  /\ UNCHANGED <<manager, rowState, shared, captureDb, uploads, disk, process>>

(* Mutation: the loop runs once more than there are slots.                   *)
OneShotTooMany(t) ==
  /\ pc[t] = "announced"
  /\ \/ Transition("countdown") /\ pc' = At(t, "countdown")
        /\ UNCHANGED <<left, shots, cur>>
     \/ ~CanGo(state, "countdown") /\ pc' = At(t, "free") /\ DropLocals(t)
        /\ UNCHANGED <<state, rowState>>
  /\ UNCHANGED <<sid, shotCount, template, sessionCaptures, cameraIdle, link,
                 shared, captureDb, uploads, disk, process>>

(* The loop goes on: COUNTDOWN for the next slot ...                         *)
NextShot(t) ==
  /\ pc[t] = "announced" /\ left[t] > 0
  /\ \/ Transition("countdown") /\ pc' = At(t, "countdown")
        /\ UNCHANGED <<left, shots, cur>>
     \/ ~CanGo(state, "countdown") /\ pc' = At(t, "free") /\ DropLocals(t)
        /\ UNCHANGED <<state, rowState>>
  /\ UNCHANGED <<sid, shotCount, template, sessionCaptures, cameraIdle, link,
                 shared, captureDb, uploads, disk, process>>

(* ... or every slot is shot.  One shot, or no template: the first shot is   *)
(* the deliverable.                                                          *)
AllShot(t)   == pc[t] = "announced" /\ left[t] = 0
ShotIsFinal(t) == AllShot(t) /\ (template = NoTemplate \/ Len(shots[t]) = 1)

(* Otherwise the shots are rendered into the template armed now.             *)
StartRender(t) ==
  /\ AllShot(t) /\ ~ShotIsFinal(t)
  /\ pc' = At(t, "render")
  /\ left' = [left EXCEPT ![t] = template]
  /\ UNCHANGED <<manager, cameraIdle, link, shots, cur, rowState, shared,
                 captureDb, uploads, disk, process>>

(* The thread returned an image (one source per slot): save it, record it as *)
(* the deliverable of the session current now, broadcast it.                 *)
RenderAnswered(t, c) ==
  /\ pc[t] = "render" /\ left[t] = Len(shots[t]) /\ Fresh(c)
  /\ saved' = saved \cup {c}
  /\ sources' = [sources EXCEPT ![c] = shots[t]]
  /\ owner' = [owner EXCEPT ![c] = sid]
  /\ deliverable' = deliverable \cup {c}
  /\ cur' = [cur EXCEPT ![t] = c]
  /\ pc' = At(t, "composed")
  /\ UNCHANGED <<manager, cameraIdle, link, left, shots, rowState, shared,
                 uploads, process>>

(* The render raises: a source count that is not the template's slot count   *)
(* always does, a bad asset, event file or full disk may.  Nothing catches   *)
(* it; the machine stays where it is.                                        *)
RenderFails(t) ==
  /\ pc[t] = "render"
  /\ left[t] # Len(shots[t]) \/ "render" \in Faults
  /\ pc' = At(t, "free") /\ DropLocals(t)
  /\ UNCHANGED <<manager, cameraIdle, link, rowState, shared, captureDb,
                 uploads, disk, process>>

(* Mutation: the picture is published while its download is in flight.       *)
PublishedEarly(t, c) == pc[t] = "full" /\ c = cur[t]

(* The picture a coroutine has finished: its only shot, or its composite.    *)
Finalized(t, c) ==
  \/ ShotIsFinal(t) /\ c = shots[t][1]
  \/ pc[t] = "composed" /\ c = cur[t]

(* UPDATE sessions SET share_token: a session without a row gets none.       *)
IssueToken == shared' = IF rowState[sid] = "none" THEN shared ELSE shared \cup {sid}

(* The end of capture(), without an await: remember the deliverable, issue   *)
(* the share token, enqueue the upload, and only then try to enter REVIEW.   *)
Publish(t, c) ==
  /\ Finalized(t, c)
  /\ sessionCaptures' = {c}
  /\ IssueToken
  /\ uploads' = uploads \cup {c}
  /\ TryTransition("review")
  /\ pc' = At(t, "free") /\ DropLocals(t)
  /\ UNCHANGED <<sid, shotCount, template, cameraIdle, link, captureDb, disk, process>>
-----------------------------------------------------------------------------
(* The process is gone: memory, coroutines and requests with it.  The new    *)
(* one starts IDLE under a new session id and reads nothing back.            *)
ProcessRestarts ==
  /\ "restart" \in Faults /\ boots < MaxBoots /\ sid < MaxSessions
  /\ boots' = boots + 1 /\ bootSid' = sid + 1
  /\ state' = "idle" /\ sid' = sid + 1
  /\ shotCount' = 1 /\ template' = NoTemplate
  /\ sessionCaptures' = {}
  /\ cameraIdle' = TRUE /\ link' = <<>>
  /\ pc' = [t \in Tasks |-> "free"]
  /\ left' = [t \in Tasks |-> 0]
  /\ shots' = [t \in Tasks |-> <<>>]
  /\ cur' = [t \in Tasks |-> NoCapture]
  /\ UNCHANGED <<rowState, captureDb, disk>>

Restart == ProcessRestarts /\ UNCHANGED <<shared, uploads>>

(* Power loss inside Publish: set_share_token commits, enqueue has not run.  *)
PowerLossWhilePublishing(t) ==
  /\ \E c \in Captures : Finalized(t, c)
  /\ ProcessRestarts
  /\ IssueToken
  /\ UNCHANGED uploads
-----------------------------------------------------------------------------
(* What the event loop, the camera and the render thread do for one task.    *)
TaskStep(t) ==
  \/ HoldAtGate(t) \/ Trigger(t) \/ TriggerRefused(t)
  \/ \E c \in Captures : TriggerAnswered(t, c)
  \/ PreviewAnswered(t) \/ RequestFull(t) \/ FullAnswered(t)
  \/ CameraFails(t) \/ FailureSettled(t) \/ StorageFails(t)
  \/ NextShot(t) \/ StartRender(t)
  \/ \E c \in Captures : RenderAnswered(t, c)
  \/ RenderFails(t)
  \/ \E c \in Captures : Publish(t, c)

Request ==
  \/ \E slots \in SlotCounts : Arm(slots)
  \/ ArmFails \/ Dismiss
  \/ \E t \in Tasks : StartCapture(t)

Next ==
  \/ Request
  \/ \E t \in Tasks : TaskStep(t)
  \/ Restart
  \/ \E t \in Tasks : PowerLossWhilePublishing(t)

Spec == Init /\ [][Next]_vars

(* The event loop runs every coroutine that can go on, and the camera and    *)
(* the render thread answer; nothing makes a client send a request.          *)
FairSpec == Spec /\ \A t \in Tasks : WF_vars(TaskStep(t))
-----------------------------------------------------------------------------
Busy(t) == pc[t] # "free"

(* The camera gate never loses a wakeup: it is closed only while some        *)
(* coroutine is inside its full-size download, and coroutines wait at it     *)
(* only while it is closed, so a CameraError, an OSError or a crash of one   *)
(* session cannot strand the shots of another (session.py:245-262).          *)
GateConsistent ==
  /\ ~cameraIdle => \E t \in Tasks : pc[t] = "full"
  /\ (\E t \in Tasks : pc[t] = "gate") => ~cameraIdle

(* Of the sessions armed since the process started, only the current one may *)
(* be live in the database, and its row shows the machine's state, however   *)
(* arm, dismiss and late coroutines interleave (session.py:4, 139-144).      *)
OneActiveSession ==
  \A s \in SessionIds :
    s > bootSid /\ rowState[s] \notin {"none", "idle"} => s = sid /\ rowState[s] = state

(* Every upload job names a file that is already complete on disk, although  *)
(* the row of a shot is written before its download (session.py:228, 251).   *)
UploadsOnDisk == uploads \subseteq saved

(* The machine is in REVIEW only with one finished picture to show, print    *)
(* and share, whichever coroutine brought it there (session.py:267-270).     *)
ReviewComplete ==
  state = "review" => \E c \in saved \cap uploads : sessionCaptures = {c}

(* A picture is never promised before its file is complete: neither to the   *)
(* upload worker nor to the guest in front of the review.                    *)
PromisedOnDisk == UploadsOnDisk /\ ReviewComplete

(* A composite is made of distinct downloaded shots that are no deliverables *)
(* themselves, and no shot is used by two composites: coroutines never mix   *)
(* up their local shots (session.py:198, 253, 293).                          *)
CompositesDisjoint ==
  \A c \in Captures :
    LET used == {sources[c][i] : i \in DOMAIN sources[c]} IN
    /\ used \subseteq saved \ deliverable
    /\ Cardinality(used) = Len(sources[c])
    /\ \A d \in Captures \ {c} :
         \A i \in DOMAIN sources[d] : sources[d][i] \notin used

(* A guest's share page shows their own pictures only: every shot inside a   *)
(* composite was taken in the composite's session (share.py:1-4).            *)
OwnShotsOnly ==
  \A c \in Captures :
    \A i \in DOMAIN sources[c] : owner[sources[c][i]] = owner[c]

(* What a share token promises: the QR code of a session leads to its one    *)
(* deliverable, whose file is there, so that the 404 is unreachable          *)
(* (share.py:118-127, session.py:112-114), and which is queued for upload,   *)
(* so that no power loss loses pending work (db.py:3-5).                     *)
SharingSound ==
  /\ \A c, d \in deliverable : owner[c] = owner[d] => c = d
  /\ \A s \in shared : /\ \E c \in deliverable \cap saved : owner[c] = s
                       /\ \E c \in uploads : owner[c] = s

(* One user of the PTP handle: no trigger queues up behind a download that   *)
(* is in flight (session.py:213-217), and in every state but CAPTURING,      *)
(* where the preflight page calls the camera idle, no coroutine has a        *)
(* request on it (debug.py:130-136).                                         *)
HandleKeptFree ==
  /\ \A i, j \in DOMAIN link : i < j => ~(pc[link[i]] = "full" /\ pc[link[j]] = "trigger")
  /\ state # "capturing" => \A t \in Tasks : pc[t] \notin OnLink

(* Every coroutine ends: nobody waits for ever at the gate or for the lock.  *)
CapturesEnd == \A t \in Tasks : Busy(t) ~> ~Busy(t)

(* With an orderly client whose templates and disk are sound, a countdown    *)
(* always ends in the review or, after a camera error, in the attract loop.  *)
SessionSettles ==
  state \in {"countdown", "capturing"} ~> state \in {"review", "idle"}
=============================================================================
