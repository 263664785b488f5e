----------------------------- MODULE CameraLink -----------------------------
(* The way from a coroutine to the camera: CameraWorkerClient, one TCP       *)
(* connection, the single-threaded camera worker, its GphotoBackend, and a   *)
(* camera that can be unplugged and has a shutter button of its own.         *)
(* Callers are the routes that use the client: a guest's shot, the           *)
(* operator's test shot, reconnect and shutdown, the status page.            *)
EXTENDS Integers, Sequences, FiniteSets

CONSTANTS
  Callers,     \* coroutines that use the client
  Programs,    \* the routes they run
  Faults,      \* the kinds of failure that happen
  MaxPresses,  \* bound: exposures the camera makes
  MaxUnplugs,  \* bound: times the camera is unplugged
  MaxBoots     \* bound: restarts of the app

(* "nofile": an exposure is never filed, e.g. because the card is full.      *)
FaultKinds == {"unplug", "nofile", "button", "corrupt", "config"}

(* The requests each route sends, one after the other's answer.              *)
Requests == [ shot      |-> <<"trigger", "preview", "full">>,
              test_shot |-> <<"trigger", "full">>,
              reconnect |-> <<"reconnect">>,
              shutdown  |-> <<"disconnect">>,
              status    |-> <<"status">> ]

ASSUME LinkAssumption ==
  /\ IsFiniteSet(Callers)
  /\ Programs \subseteq DOMAIN Requests
  /\ Faults \subseteq FaultKinds
  /\ MaxPresses \in Nat /\ MaxUnplugs \in Nat /\ MaxBoots \in Nat

(* A capture_id is named after the exposure its trigger made, and a file     *)
(* after the exposure it holds.                                              *)
Exposures == 1 .. MaxPresses
NoId      == 0
NoFile    == 0
Ops       == {"trigger", "preview", "full", "reconnect", "disconnect", "status"}

VARIABLES
  \* the callers
  todo,      \* the requests each still has to send; the first is under way
  shot,      \* the capture_id its trigger returned
  sent,      \* its request is on the wire
  \* CameraWorkerClient
  lock,      \* the asyncio.Lock: its holder, then those who wait for it
  conn,      \* the client has a connection
  wire,      \* requests the worker has not answered
  replies,   \* responses the client has not read, with the caller each is for
  \* the worker process and its backend
  worker,    \* "ready", "waiting" for a file-added event, or "dead"
  handle,    \* self._camera: "none", "live", or "stale" after an unplug
  pending,   \* self._pending: the file of each capture_id
  own,       \* the exposure the trigger being served made
  \* the camera
  plugged, unplugs,
  presses,   \* exposures so far
  exposed,   \* exposures whose file is still being written
  events,    \* queued GP_EVENT_FILE_ADDED events
  boots      \* restarts of the app

callers == <<todo, shot, sent>>
client  == <<lock, conn, wire, replies>>
backend == <<worker, handle, pending, own>>
camera  == <<plugged, unplugs, presses, exposed, events>>
vars    == <<callers, client, backend, camera, boots>>

TypeOK ==
  /\ todo \in [Callers -> Seq(Ops)]
  /\ shot \in [Callers -> Exposures \cup {NoId}]
  /\ sent \in [Callers -> BOOLEAN]
  /\ lock \in Seq(Callers)
  /\ conn \in BOOLEAN
  /\ wire \in Seq([by : Callers, op : Ops, id : Exposures \cup {NoId}])
  /\ replies \in Seq([by : Callers, ok : BOOLEAN, id : Exposures \cup {NoId}])
  /\ worker \in {"ready", "waiting", "dead"}
  /\ handle \in {"none", "live", "stale"}
  /\ pending \in [Exposures -> Exposures \cup {NoFile}]
  /\ own \in Exposures \cup {NoId}
  /\ plugged \in BOOLEAN /\ unplugs \in 0 .. MaxUnplugs
  /\ presses \in 0 .. MaxPresses
  /\ exposed \in Seq(Exposures)
  /\ events \in Seq(Exposures)
  /\ boots \in 0 .. MaxBoots

Forgotten == [i \in Exposures |-> NoFile]

(* lifespan: spawn the worker, have it connect, and go on whether or not the *)
(* camera answered.  _apply_image_size may raise a GPhoto2Error, which       *)
(* nothing in the worker catches.                                            *)
Startups ==
  {[worker |-> "ready", conn |-> TRUE,
    handle |-> IF plugged THEN "live" ELSE "none"]}
  \cup (IF plugged /\ "config" \in Faults
        THEN {[worker |-> "dead", conn |-> FALSE, handle |-> "none"]}
        ELSE {})

Init ==
  /\ plugged \in BOOLEAN /\ unplugs = 0
  /\ \E s \in Startups :
       worker = s.worker /\ handle = s.handle /\ conn = s.conn
  /\ todo = [c \in Callers |-> <<>>]
  /\ shot = [c \in Callers |-> NoId]
  /\ sent = [c \in Callers |-> FALSE]
  /\ lock = <<>> /\ wire = <<>> /\ replies = <<>>
  /\ pending = Forgotten /\ own = NoId
  /\ presses = 0 /\ exposed = <<>> /\ events = <<>>
  /\ boots = 0
-----------------------------------------------------------------------------
(* The callers.                                                              *)

(* Exposures that callers under way may still ask for, within the bound.     *)
AtTrigger(c) == todo[c] # <<>> /\ Head(todo[c]) = "trigger"
Asked == presses + Cardinality({c \in Callers : AtTrigger(c)})

(* A request comes in and its handler queues for the client's lock.          *)
Start(c, p) ==
  /\ todo[c] = <<>>
  /\ Head(Requests[p]) = "trigger" => Asked < MaxPresses
  /\ todo' = [todo EXCEPT ![c] = Requests[p]]
  /\ lock' = Append(lock, c)
  /\ UNCHANGED <<shot, sent, conn, wire, replies, backend, camera, boots>>

(* Mutation: whoever wants the connection uses it.                           *)
GrantedToAll(c) == c \in {lock[i] : i \in 1 .. Len(lock)}

Granted(c) == lock # <<>> /\ Head(lock) = c

(* Its holder lets the lock go, to the first of those who wait.              *)
Released == Tail(lock)

(* Mutation: an error leaves the lock held.                                  *)
FailsHoldingLock(c) ==
  /\ todo' = [todo EXCEPT ![c] = <<>>]
  /\ shot' = [shot EXCEPT ![c] = NoId]
  /\ sent' = [sent EXCEPT ![c] = FALSE]
  /\ UNCHANGED lock

(* A CameraError leaves the lock's block and ends the route.                 *)
CallFails(c) ==
  /\ todo' = [todo EXCEPT ![c] = <<>>]
  /\ shot' = [shot EXCEPT ![c] = NoId]
  /\ sent' = [sent EXCEPT ![c] = FALSE]
  /\ lock' = Released

(* _request: open the connection if there is none, write one frame.          *)
Send(c) ==
  /\ Granted(c) /\ todo[c] # <<>> /\ ~sent[c]
  /\ conn \/ worker # "dead"
  /\ conn' = TRUE
  /\ wire' = Append(wire, [by |-> c, op |-> Head(todo[c]), id |-> shot[c]])
  /\ sent' = [sent EXCEPT ![c] = TRUE]
  /\ UNCHANGED <<todo, shot, lock, replies, backend, camera, boots>>

CannotReach(c) ==
  /\ Granted(c) /\ todo[c] # <<>> /\ ~sent[c]
  /\ ~conn /\ worker = "dead"
  /\ CallFails(c)
  /\ UNCHANGED <<conn, wire, replies, backend, camera, boots>>

(* The frame read is taken for the answer; the next request of this caller   *)
(* queues behind everyone who waits for the lock by now.                     *)
ReadReply(c) ==
  /\ sent[c] /\ replies # <<>>
  /\ replies' = Tail(replies)
  /\ LET r    == Head(replies)
         last == Len(todo[c]) = 1
     IN  \/ ~r.ok /\ CallFails(c)
         \/ /\ r.ok
            /\ todo' = [todo EXCEPT ![c] = Tail(@)]
            /\ shot' = [shot EXCEPT ![c] =
                          IF last THEN NoId ELSE IF AtTrigger(c) THEN r.id ELSE @]
            /\ sent' = [sent EXCEPT ![c] = FALSE]
            /\ lock' = IF last THEN Released ELSE Append(Released, c)
  /\ UNCHANGED <<conn, wire, backend, camera, boots>>

(* End of stream: close() drops the connection, the next request reopens it. *)
ConnectionLost(c) ==
  /\ sent[c] /\ replies = <<>> /\ worker = "dead"
  /\ conn' = FALSE
  /\ wire' = <<>>
  /\ CallFails(c)
  /\ UNCHANGED <<replies, backend, camera, boots>>

ClientStep(c) == Send(c) \/ CannotReach(c) \/ ReadReply(c) \/ ConnectionLost(c)
-----------------------------------------------------------------------------
(* The worker: one request at a time; what _handle_request does not catch    *)
(* ends the process.                                                         *)
Asks(op) == worker = "ready" /\ wire # <<>> /\ Head(wire).op = op
Id == Head(wire).id

Reply(ok, id) ==
  /\ replies' = Append(replies, [by |-> Head(wire).by, ok |-> ok, id |-> id])
  /\ wire' = Tail(wire)
  /\ worker' = "ready"

Crash == worker' = "dead" /\ wire' = <<>> /\ UNCHANGED replies

ServeStatus ==
  /\ Asks("status")
  /\ Reply(TRUE, NoId)
  /\ UNCHANGED <<handle, pending, own, events, exposed, presses>>

ServeDisconnect ==
  /\ Asks("disconnect")
  /\ Reply(TRUE, NoId)
  /\ handle' = "none"
  /\ pending' = Forgotten
  /\ events' = <<>>
  /\ UNCHANGED <<own, exposed, presses>>

(* disconnect(), a second's sleep, connect().                                *)
ServeReconnect ==
  /\ Asks("reconnect")
  /\ pending' = Forgotten
  /\ events' = <<>>
  /\ \/ ~plugged /\ handle' = "none" /\ Reply(FALSE, NoId)
     \/ plugged /\ handle' = "live" /\ Reply(TRUE, NoId)
     \/ plugged /\ "config" \in Faults /\ handle' = "live" /\ Crash
  /\ UNCHANGED <<own, exposed, presses>>

(* self._pending[capture_id] is a KeyError for a forgotten id; a camera that *)
(* is gone counts as a body without previews.                                *)
ServePreview ==
  /\ Asks("preview")
  /\ \/ handle = "none" /\ Reply(FALSE, NoId)
     \/ handle # "none" /\ pending[Id] = NoFile /\ Crash
     \/ handle # "none" /\ pending[Id] # NoFile /\ Reply(TRUE, NoId)
     \/ /\ handle = "live" /\ pending[Id] # NoFile
        /\ "corrupt" \in Faults /\ Crash
  /\ UNCHANGED <<handle, pending, own, events, exposed, presses>>

ServeFull ==
  /\ Asks("full")
  /\ \/ handle = "none" /\ Reply(FALSE, NoId) /\ UNCHANGED pending
     \/ handle # "none" /\ pending[Id] = NoFile /\ Crash /\ UNCHANGED pending
     \/ /\ handle # "none" /\ pending[Id] # NoFile
        /\ pending' = [pending EXCEPT ![Id] = NoFile]
        /\ \/ Reply(handle = "live", NoId)
           \/ handle = "live" /\ "corrupt" \in Faults /\ Crash
  /\ UNCHANGED <<handle, own, events, exposed, presses>>

(* Mutation: events left in the queue are not drained.                       *)
KeepEvents == UNCHANGED events

(* Mutation: the timeout that ends the drain is taken for one more event.    *)
DrainKeepsTimeout == events' = <<NoFile>>

DrainStaleEvents == events' = <<>>

(* trigger_capture: drain the queue, fire, wait for a file.  The camera      *)
(* files one exposure before it takes the next.                              *)
ServeTrigger ==
  /\ Asks("trigger") /\ handle = "live"
  /\ exposed = <<>>
  /\ DrainStaleEvents
  /\ presses' = presses + 1
  /\ own' = presses'
  /\ exposed' = Append(exposed, presses')
  /\ worker' = "waiting"
  /\ UNCHANGED <<handle, pending, wire, replies>>

TriggerRefused ==
  /\ Asks("trigger") /\ handle # "live"
  /\ Reply(FALSE, NoId)
  /\ UNCHANGED <<handle, pending, own, events, exposed, presses>>

(* The first file-added event is taken for the trigger's own.                *)
TakeFile ==
  /\ worker = "waiting" /\ handle = "live" /\ events # <<>>
  /\ pending' = [pending EXCEPT ![own] = Head(events)]
  /\ events' = Tail(events)
  /\ Reply(TRUE, own)
  /\ own' = NoId
  /\ UNCHANGED <<handle, exposed, presses>>

(* The camera goes away during the wait, or the budget runs out, which is    *)
(* longer than the camera takes to file an exposure.                         *)
NoFileComes ==
  /\ worker = "waiting"
  /\ handle = "stale" \/ (events = <<>> /\ exposed = <<>>)
  /\ Reply(FALSE, NoId)
  /\ own' = NoId
  /\ UNCHANGED <<handle, pending, events, exposed, presses>>

WorkerStep ==
  /\ \/ ServeStatus \/ ServeDisconnect \/ ServeReconnect
     \/ ServePreview \/ ServeFull
     \/ ServeTrigger \/ TriggerRefused \/ TakeFile \/ NoFileComes
  /\ UNCHANGED <<callers, lock, conn, plugged, unplugs, boots>>
-----------------------------------------------------------------------------
(* The camera, and the process.                                              *)

(* A file is complete; its event is queued in the session that is open.      *)
FileAdded ==
  /\ exposed # <<>>
  /\ exposed' = Tail(exposed)
  /\ events' = IF handle = "live"
               THEN Append(events, Head(exposed)) ELSE events
  /\ UNCHANGED <<callers, client, backend, plugged, unplugs, presses, boots>>

FileLost ==
  /\ "nofile" \in Faults /\ exposed # <<>>
  /\ exposed' = Tail(exposed)
  /\ UNCHANGED <<callers, client, backend, plugged, unplugs, presses, events,
                 boots>>

Button ==
  /\ "button" \in Faults /\ plugged /\ Asked < MaxPresses
  /\ presses' = presses + 1
  /\ exposed' = Append(exposed, presses')
  /\ UNCHANGED <<callers, client, backend, plugged, unplugs, events, boots>>

Unplug ==
  /\ "unplug" \in Faults /\ plugged /\ unplugs < MaxUnplugs
  /\ plugged' = FALSE /\ unplugs' = unplugs + 1
  /\ handle' = IF handle = "live" THEN "stale" ELSE handle
  /\ exposed' = <<>> /\ events' = <<>>
  /\ UNCHANGED <<callers, client, worker, pending, own, presses, boots>>

Plug ==
  /\ ~plugged
  /\ plugged' = TRUE
  /\ UNCHANGED <<callers, client, backend, unplugs, presses, exposed, events,
                 boots>>

(* The app goes down, its worker with it, and systemd starts it again.       *)
AppRestarts ==
  /\ boots < MaxBoots
  /\ boots' = boots + 1
  /\ \E s \in Startups :
       worker' = s.worker /\ handle' = s.handle /\ conn' = s.conn
  /\ todo' = [c \in Callers |-> <<>>]
  /\ shot' = [c \in Callers |-> NoId]
  /\ sent' = [c \in Callers |-> FALSE]
  /\ lock' = <<>> /\ wire' = <<>> /\ replies' = <<>>
  /\ pending' = Forgotten /\ own' = NoId
  /\ events' = <<>>
  /\ UNCHANGED <<plugged, unplugs, presses, exposed>>

Next ==
  \/ \E c \in Callers : ClientStep(c) \/ \E p \in Programs : Start(c, p)
  \/ WorkerStep
  \/ FileAdded \/ FileLost \/ Button \/ Unplug \/ Plug
  \/ AppRestarts

Spec == Init /\ [][Next]_vars

(* The client and the worker run, and the camera files what it exposed.      *)
(* Nobody has to send a request, plug the camera in or restart the app.      *)
FairSpec ==
  /\ Spec
  /\ \A c \in Callers : WF_vars(ClientStep(c))
  /\ WF_vars(WorkerStep) /\ WF_vars(FileAdded)
-----------------------------------------------------------------------------
(* A capture_id never stands for a picture older than its own trigger, even  *)
(* when someone uses the camera's own shutter button in between or the       *)
(* camera was unplugged or the app restarted (gphoto.py:133-147).            *)
FreshPicture == \A i \in Exposures : pending[i] # NoFile => pending[i] >= i

(* A caller only ever reads the answer to its own request, whoever else uses *)
(* the one connection, and after every lost connection (client.py:8-12).     *)
OwnAnswers ==
  [][\A c \in Callers :
       sent[c] /\ ~sent'[c] /\ replies # <<>> /\ replies' = Tail(replies)
         /\ boots' = boots
       => Head(replies).by = c]_vars

(* Every request that is sent gets an answer or an error, in its turn.       *)
EveryCallEnds == \A c \in Callers : todo[c] # <<>> ~> todo[c] = <<>>
=============================================================================
