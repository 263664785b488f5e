------------------------------- MODULE Kiosk -------------------------------
(* The kiosk: pages that run Kiosk.svelte, the websockets they listen on,    *)
(* and the server's coroutines that broadcast every change of the session to *)
(* them, one await per socket.  A page shows what the events told it (its    *)
(* mirror of the session's state); taps and the idle timer send requests.    *)
EXTENDS SessionMachine, Integers, Sequences, FiniteSets

CONSTANTS
  Pages,       \* browser tabs that show the kiosk
  Touched,     \* the pages guests touch
  Hands,       \* names of the tap scripts one page may run at a time
  Restless,    \* pages that are loaded anew
  Patient,     \* TRUE: messages are faster than guests, countdown and
               \* camera, and requests faster than the idle timeout
  Faults,      \* "camera": CameraError; "render": an error nothing catches
  SlotCounts,  \* slot counts of the event's templates
  MaxSessions, \* bound: sessions armed
  MaxSockets   \* bound: connections a page makes

ASSUME KioskAssumption ==
  /\ IsFiniteSet(Pages)
  /\ Touched \subseteq Pages /\ Restless \subseteq Pages
  /\ "timer" \notin Hands
  /\ Patient \in BOOLEAN
  /\ Faults \subseteq {"camera", "render"}
  /\ SlotCounts \subseteq Nat \ {0}
  /\ MaxSessions \in Nat /\ MaxSockets \in Nat \ {0}

(* One request at a time of each tap script and of each idle timer.          *)
Slots    == Pages \X (Hands \cup {"timer"})
PageOf(q) == q[1]
IsTap(q) == q[2] # "timer"
Sockets  == Pages \X (1 .. MaxSockets)
Sessions == 0 .. MaxSessions

VARIABLES
  \* SessionManager
  state, sid,
  slots,       \* _shot_count
  websockets,  \* _websockets
  cut,         \* a broadcast ended before every page was told
  \* the request handlers, with capture() among them
  co,
  bus,         \* the coroutines inside broadcast(), in the order they entered
  \* the pages
  sock,        \* its open connection, 0 for none
  used,        \* connections it has made so far
  inbox,       \* events on their way to it
  mirror,      \* sessionState, with the session the event was about
  image,       \* the picture it shows
  timer        \* idleTimer is set

server == <<state, sid, slots, cut>>
wires  == <<sock, used, inbox>>
screen == <<mirror, image, timer>>
vars   == <<server, websockets, co, bus, wires, screen>>

Jobs   == {"none", "dismiss", "arm", "capture"}
Labels == {"free", "sent", "sending", "sleeping", "shooting",
           "downloading", "shot", "composed", "failed", "over"}
Kinds  == {"state", "preview", "shot", "final", "failed"}
Events == [kind : Kinds, sid : Sessions, state : States]
NoEvent == [kind |-> "failed", sid |-> 0, state |-> "idle"]
NoImage == [sid |-> 0, kind |-> "none"]

(* A handler: the request, where it is suspended, where it goes on after the *)
(* broadcast it is in, that event, the sockets it was not yet sent to, the   *)
(* size the set had when the loop over it began, the shots capture() still   *)
(* has to take and all it takes, and whether the page still listens.         *)
Free == [job |-> "none", at |-> "free", next |-> "free", unsent |-> {},
         size |-> 0, event |-> NoEvent,
         left |-> 0, total |-> 0, heard |-> FALSE]

TypeOK ==
  /\ state \in States /\ sid \in Sessions /\ slots \in Nat
  /\ websockets \subseteq Sockets /\ cut \in BOOLEAN
  /\ co \in [Slots -> [job : Jobs, at : Labels, next : Labels,
                       unsent : SUBSET Sockets, size : Nat, event : Events,
                       left : Nat, total : Nat, heard : BOOLEAN]]
  /\ bus \in Seq(Slots)
  /\ sock \in [Pages -> 0 .. MaxSockets]
  /\ used \in [Pages -> 0 .. MaxSockets]
  /\ inbox \in [Pages -> Seq(Events)]
  /\ mirror \in [Pages -> [state : States, sid : Sessions]]
  /\ image \in [Pages -> [sid : Sessions,
                          kind : {"none", "preview", "shot", "final"}]]
  /\ timer \in [Pages -> BOOLEAN]

Blank == [state |-> "idle", sid |-> 0]

Init ==
  /\ state = "idle" /\ sid = 0 /\ slots = 1
  /\ websockets = Pages \X {1} /\ cut = FALSE
  /\ co = [q \in Slots |-> Free] /\ bus = <<>>
  /\ sock = [p \in Pages |-> 1] /\ used = [p \in Pages |-> 1]
  /\ inbox = [p \in Pages |-> <<>>]
  /\ mirror = [p \in Pages |-> Blank]
  /\ image = [p \in Pages |-> NoImage]
  /\ timer = [p \in Pages |-> FALSE]
-----------------------------------------------------------------------------
(* Where handler q is.                                                       *)
At(q, label) == co[q].at = label
Request(q, job) ==
  co' = [co EXCEPT ![q] = [Free EXCEPT !.job = job, !.at = "sent",
                                       !.heard = TRUE]]

(* The response, and what the page does with it: startSession goes on to     *)
(* capture when arm succeeded; handleStart goes on to arm whatever became of *)
(* the dismissal.                                                            *)
Respond(q, ok) ==
  LET follow == CASE co[q].job = "dismiss" /\ IsTap(q) -> "arm"
                  [] co[q].job = "arm" /\ ok -> "capture"
                  [] OTHER -> "none"
  IN  IF co[q].heard /\ follow # "none"
      THEN Request(q, follow) ELSE co' = [co EXCEPT ![q] = Free]

(* broadcast(): loop over the set of sockets, awaiting each send.            *)
Event(kind, id, target) == [kind |-> kind, sid |-> id, state |-> target]

Broadcast(q, handler, event, next) ==
  /\ co' = [co EXCEPT ![q] = [handler EXCEPT
                 !.at = "sending", !.next = next, !.event = event,
                 !.unsent = websockets, !.size = Cardinality(websockets)]]
  /\ bus' = Append(bus, q)

OffBus(q) ==
  LET i == CHOOSE i \in DOMAIN bus : bus[i] = q
  IN  [j \in 1 .. Len(bus) - 1 |-> IF j < i THEN bus[j] ELSE bus[j + 1]]

(* _transition(): move, then broadcast; or InvalidTransitionError.           *)
Transition(q, handler, target, next) ==
  \/ /\ CanGo(state, target)
     /\ state' = target
     /\ Broadcast(q, handler, Event("state", sid, target), next)
  \/ /\ ~CanGo(state, target)
     /\ Respond(q, FALSE)
     /\ UNCHANGED <<state, bus>>
-----------------------------------------------------------------------------
(* What takes seconds happens after everything broadcast has arrived.        *)
Prompt == Patient => \A p \in Pages : inbox[p] = <<>>

(* The loop over _websockets.                                                *)
SameSize(q) == Cardinality(websockets) = co[q].size

(* Sends to one socket finish in the order they were begun.                  *)
Turn(q, w) ==
  \A i \in DOMAIN bus :
    (\E j \in DOMAIN bus : i < j /\ bus[j] = q) => w \notin co[bus[i]].unsent

Deliver(w, event) ==
  inbox' = IF sock[w[1]] = w[2]
           THEN [inbox EXCEPT ![w[1]] = Append(@, event)] ELSE inbox

(* Mutation: the loop over the sockets ends with the first one.              *)
SendToOne(q, w) ==
  /\ At(q, "sending") /\ w \in co[q].unsent \cap websockets
  /\ SameSize(q) /\ Turn(q, w)
  /\ Deliver(w, co[q].event)
  /\ co' = [co EXCEPT ![q].unsent = {}]
  /\ UNCHANGED <<server, websockets, bus, sock, used, screen>>

(* One send_text.                                                            *)
Send(q, w) ==
  /\ At(q, "sending") /\ w \in co[q].unsent \cap websockets
  /\ SameSize(q) /\ Turn(q, w)
  /\ Deliver(w, co[q].event)
  /\ co' = [co EXCEPT ![q].unsent = @ \ {w}]
  /\ UNCHANGED <<server, websockets, bus, sock, used, screen>>

(* The loop is over; sockets a send failed on are discarded.                 *)
AllSent(q) ==
  /\ At(q, "sending") /\ co[q].unsent \cap websockets = {}
  /\ SameSize(q)
  /\ websockets' = {w \in websockets : sock[w[1]] = w[2]}
  /\ co' = [co EXCEPT ![q] = [@ EXCEPT !.at = co[q].next, !.next = "free",
                                !.unsent = {}, !.size = 0, !.event = NoEvent]]
  /\ bus' = OffBus(q)
  /\ UNCHANGED <<server, wires, screen>>

(* "Set changed size during iteration": nothing catches the RuntimeError.    *)
SetChanged(q) ==
  /\ At(q, "sending") /\ ~SameSize(q)
  /\ Respond(q, FALSE)
  /\ bus' = OffBus(q)
  /\ cut' = TRUE
  /\ UNCHANGED <<state, sid, slots, websockets, wires, screen>>
-----------------------------------------------------------------------------
(* The handlers.                                                             *)
Serves(q, job) == At(q, "sent") /\ co[q].job = job

ServeDismiss(q) ==
  /\ Serves(q, "dismiss")
  /\ Transition(q, co[q], "idle", "over")
  /\ UNCHANGED <<sid, slots, cut, websockets, wires, screen>>

ServeArm(q) ==
  /\ Serves(q, "arm") /\ CanGo(state, "armed")
  /\ sid < MaxSessions
  /\ state' = "armed" /\ sid' = sid + 1
  /\ slots' \in SlotCounts
  /\ Broadcast(q, co[q], Event("state", sid + 1, "armed"), "over")
  /\ UNCHANGED <<cut, websockets, wires, screen>>

RefuseArm(q) ==
  /\ Serves(q, "arm") /\ ~CanGo(state, "armed")
  /\ Respond(q, FALSE)
  /\ UNCHANGED <<server, websockets, bus, wires, screen>>

Over(q) ==
  /\ At(q, "over")
  /\ Respond(q, TRUE)
  /\ UNCHANGED <<server, websockets, bus, wires, screen>>

(* capture(): a countdown, then the shot, for every slot.  CountdownStarted, *)
(* which changes nothing a page keeps, is left out.                          *)
StartCapture(q) ==
  /\ Serves(q, "capture")
  /\ Transition(q, [co[q] EXCEPT !.left = slots, !.total = slots],
                "countdown", "sleeping")
  /\ UNCHANGED <<sid, slots, cut, websockets, wires, screen>>

(* Mutation: the loop runs once more than there are slots.                   *)
OneMoreShot(q) ==
  /\ At(q, "shot")
  /\ Transition(q, co[q], "countdown", "sleeping")
  /\ UNCHANGED <<sid, slots, cut, websockets, wires, screen>>

NextShot(q) ==
  /\ At(q, "shot") /\ co[q].left > 0
  /\ Transition(q, co[q], "countdown", "sleeping")
  /\ UNCHANGED <<sid, slots, cut, websockets, wires, screen>>

Shoot(q) ==
  /\ At(q, "sleeping")
  /\ Prompt
  /\ Transition(q, co[q], "capturing", "shooting")
  /\ UNCHANGED <<sid, slots, cut, websockets, wires, screen>>

PreviewArrives(q) ==
  /\ At(q, "shooting")
  /\ Prompt
  /\ Broadcast(q, co[q], Event("preview", sid, "capturing"), "downloading")
  /\ UNCHANGED <<server, websockets, wires, screen>>

(* The full image; with one slot it is the picture the guest gets.           *)
PictureArrives(q) ==
  /\ At(q, "shooting") \/ At(q, "downloading")
  /\ Prompt
  /\ LET kind == IF co[q].total = 1 THEN "final" ELSE "shot"
     IN  Broadcast(q, [co[q] EXCEPT !.left = @ - 1],
                   Event(kind, sid, "capturing"), "shot")
  /\ UNCHANGED <<server, websockets, wires, screen>>

CameraFails(q) ==
  /\ "camera" \in Faults
  /\ At(q, "shooting") \/ At(q, "downloading")
  /\ Prompt
  /\ Broadcast(q, co[q], Event("failed", sid, "capturing"), "failed")
  /\ UNCHANGED <<server, websockets, wires, screen>>

GiveUp(q) ==
  /\ At(q, "failed")
  /\ Transition(q, co[q], "idle", "over")
  /\ UNCHANGED <<sid, slots, cut, websockets, wires, screen>>

(* An error that is not a CameraError ends the handler where it is.          *)
Dies(q) ==
  /\ "render" \in Faults
  /\ At(q, "downloading") \/ (At(q, "shot") /\ co[q].left = 0)
  /\ Prompt
  /\ Respond(q, FALSE)
  /\ UNCHANGED <<server, websockets, bus, wires, screen>>

Compose(q) ==
  /\ At(q, "shot") /\ co[q].left = 0 /\ co[q].total > 1
  /\ Prompt
  /\ Broadcast(q, co[q], Event("final", sid, "capturing"), "composed")
  /\ UNCHANGED <<server, websockets, wires, screen>>

Review(q) ==
  /\ \/ At(q, "composed")
     \/ At(q, "shot") /\ co[q].left = 0 /\ co[q].total = 1
  /\ Transition(q, co[q], "review", "over")
  /\ UNCHANGED <<sid, slots, cut, websockets, wires, screen>>

HandlerStep(q) ==
  \/ \E w \in Sockets : Send(q, w)
  \/ AllSent(q) \/ SetChanged(q)
  \/ ServeDismiss(q) \/ ServeArm(q) \/ RefuseArm(q) \/ Over(q)
  \/ StartCapture(q) \/ NextShot(q) \/ Shoot(q)
  \/ PreviewArrives(q) \/ PictureArrives(q) \/ CameraFails(q) \/ GiveUp(q)
  \/ Dies(q) \/ Compose(q) \/ Review(q)
-----------------------------------------------------------------------------
(* The pages.                                                                *)

(* The $effect runs when sessionState takes another value.                   *)
SetTimer(p, target) ==
  timer' = [timer EXCEPT ![p] = IF target = mirror[p].state THEN @
                                ELSE target # "idle"]

(* handleEvent().                                                            *)
Show(p, event) ==
  IF event.kind = "state"
  THEN /\ mirror' = [mirror EXCEPT ![p] = [state |-> event.state,
                                           sid |-> event.sid]]
       /\ image' = IF event.state = "armed"
                   THEN [image EXCEPT ![p] = NoImage] ELSE image
       /\ SetTimer(p, event.state)
  ELSE /\ image' =
            IF \/ event.kind \in {"shot", "final"}
               \/ event.kind = "preview" /\ image[p] = NoImage
            THEN [image EXCEPT ![p] = [sid |-> event.sid, kind |-> event.kind]]
            ELSE image
       /\ UNCHANGED <<mirror, timer>>

Receive(p) ==
  /\ inbox[p] # <<>>
  /\ Show(p, Head(inbox[p]))
  /\ inbox' = [inbox EXCEPT ![p] = Tail(@)]
  /\ UNCHANGED <<server, websockets, co, bus, sock, used>>

(* A mode button, which is there in the attract loop and in the review.      *)
Tap(p, q) ==
  /\ p \in Touched /\ PageOf(q) = p /\ IsTap(q) /\ At(q, "free")
  /\ mirror[p].state \in {"idle", "review"}
  /\ Prompt
  /\ Request(q, IF mirror[p].state = "review" THEN "dismiss" ELSE "arm")
  /\ timer' = [timer EXCEPT ![p] = mirror[p].state # "idle"]
  /\ UNCHANGED <<server, websockets, bus, wires, mirror, image>>

(* Any other touch sets the timer anew.                                      *)
Touch(p) ==
  /\ p \in Touched /\ ~timer[p] /\ mirror[p].state # "idle"
  /\ timer' = [timer EXCEPT ![p] = TRUE]
  /\ UNCHANGED <<server, websockets, co, bus, wires, mirror, image>>

Quiet == \A q \in Slots : At(q, "free")

(* Mutation: only the review times out.                                      *)
ReviewTimesOut(p) ==
  LET q == <<p, "timer">> IN
  /\ timer[p] /\ At(q, "free") /\ mirror[p].state = "review"
  /\ Prompt /\ (Patient => Quiet)
  /\ timer' = [timer EXCEPT ![p] = FALSE]
  /\ Request(q, "dismiss")
  /\ UNCHANGED <<server, websockets, bus, wires, mirror, image>>

TimerFires(p) ==
  LET q == <<p, "timer">> IN
  /\ timer[p] /\ At(q, "free")
  /\ Prompt /\ (Patient => Quiet)
  /\ timer' = [timer EXCEPT ![p] = FALSE]
  /\ Request(q, "dismiss")
  /\ UNCHANGED <<server, websockets, bus, wires, mirror, image>>

(* The page is loaded anew, by a guest who went to the gallery and back or   *)
(* by its browser: it starts from the attract loop, whatever the server is   *)
(* doing, and nobody waits for its requests any more.                        *)
Reload(p) ==
  /\ p \in Restless /\ used[p] < MaxSockets /\ inbox[p] = <<>>
  /\ sock' = [sock EXCEPT ![p] = 0]
  /\ mirror' = [mirror EXCEPT ![p] = Blank]
  /\ image' = [image EXCEPT ![p] = NoImage]
  /\ timer' = [timer EXCEPT ![p] = FALSE]
  /\ co' = [q \in Slots |-> IF PageOf(q) = p /\ co[q] # Free
                            THEN [co[q] EXCEPT !.heard = FALSE] ELSE co[q]]
  /\ UNCHANGED <<server, websockets, bus, used, inbox>>

(* connect(), a second later at most: accept and register().                 *)
Connect(p) ==
  /\ sock[p] = 0 /\ used[p] < MaxSockets
  /\ used' = [used EXCEPT ![p] = @ + 1]
  /\ sock' = [sock EXCEPT ![p] = used[p] + 1]
  /\ websockets' = websockets \cup {<<p, used[p] + 1>>}
  /\ UNCHANGED <<server, co, bus, inbox, screen>>

(* The endpoint notices that the page is gone: unregister().                 *)
Unregister(w) ==
  /\ w \in websockets /\ sock[w[1]] # w[2]
  /\ websockets' = websockets \ {w}
  /\ UNCHANGED <<server, co, bus, wires, screen>>

PageStep(p) ==
  \/ Receive(p) \/ TimerFires(p) \/ Connect(p)
  \/ \E w \in Sockets : PageOf(w) = p /\ Unregister(w)

Next ==
  \/ \E q \in Slots : HandlerStep(q)
  \/ \E p \in Pages :
       \/ PageStep(p) \/ Reload(p) \/ Touch(p)
       \/ \E q \in Slots : Tap(p, q)

Spec == Init /\ [][Next]_vars

(* The server serves, pages receive and connect, and a guest who touches     *)
(* nothing lets the timer run out.  Nobody has to touch anything.            *)
FairSpec ==
  /\ Spec
  /\ \A q \in Slots : WF_vars(HandlerStep(q))
  /\ \A p \in Pages :
       WF_vars(Receive(p)) /\ WF_vars(TimerFires(p)) /\ WF_vars(Connect(p))
-----------------------------------------------------------------------------
(* A page whose connection never broke shows the server's state as soon as   *)
(* everything broadcast has arrived, unless a broadcast was cut short: "the  *)
(* state below just mirrors whatever StateChanged last said"                 *)
(* (Kiosk.svelte:4-6, session.py:125-144).                                   *)
Settled(p) ==
  inbox[p] = <<>> /\ \A q \in Slots : ~At(q, "sending")
MirrorsServer ==
  \A p \in Pages \ Restless :
    Settled(p) /\ ~cut => mirror[p] = [state |-> state, sid |-> sid]

(* In the review a page shows the finished picture of the session it         *)
(* reviews, never a raw shot, a preview or the picture of the guest before   *)
(* (session.py:282-287, Kiosk.svelte:82-97).                                 *)
ReviewShowsFinal ==
  \A p \in Pages \ Restless :
    mirror[p].state = "review" =>
      image[p] = [sid |-> mirror[p].sid, kind |-> "final"]

(* A page that is told everything shows the truth: the server's state, and   *)
(* the finished picture of the session it reviews.                           *)
PageFollowsServer == MirrorsServer /\ ReviewShowsFinal

(* From any screen the booth returns to the attract loop when nobody touches *)
(* it (Kiosk.svelte:17-19, 233-236) ...                                      *)
AlwaysReturns == state # "idle" ~> state = "idle"

(* ... as long as every page was told what was broadcast, whatever other     *)
(* screens come and go (session.py:131-137, Kiosk.svelte:239-252).           *)
ReturnsToIdle == <>cut \/ AlwaysReturns
=============================================================================
