----------------------------- MODULE KioskProofs -----------------------------
(* Proofs about the kiosk, for any pages, tap scripts, sessions, slots and   *)
(* reloads, patient or not, whatever fails.  What a page shows in the review *)
(* is proved for guests who tap once at a time.                              *)
EXTENDS Kiosk, FiniteSetTheorems, SequenceTheorems, TLAPS

(* Pages whose connection never breaks, and the one they have.               *)
Steady  == Pages \ Restless
Wire(p) == <<p, 1>>

(* One tap script at a time, on one page.                                    *)
Taps(q)   == IsTap(q) /\ PageOf(q) \in Touched
SingleTap == \A q, r \in Slots : Taps(q) /\ Taps(r) => q = r

(* A capture() that is to take another shot has one left to take.            *)
Shooting == {"sleeping", "shooting", "downloading"}
CountsOK ==
  /\ slots > 0
  /\ \A q \in Slots : co[q].at \in Shooting \/ co[q].next \in Shooting => co[q].left > 0

(* The bus has the handlers that are inside broadcast(), each once, and on   *)
(* their way to somewhere else.                                              *)
BusOK ==
  /\ \A q \in Slots : co[q].next # "sending"
  /\ \A i, j \in 1 .. Len(bus) : bus[i] = bus[j] => i = j
  /\ \A q \in Slots : At(q, "sending") <=> \E i \in 1 .. Len(bus) : bus[i] = q

(* A steady page stays connected and registered.                             *)
WiresOK == \A p \in Steady : sock[p] = 1 /\ Wire(p) \in websockets

TInv == TypeOK /\ CountsOK /\ BusOK /\ WiresOK

(* The news a page has not heard yet: of the changes of the state that are   *)
(* still to be sent to it, or if there are none of those on their way, or if *)
(* there are none of the one it heard last, the last one is true.            *)
Unsent(p, i) ==
  Wire(p) \in co[bus[i]].unsent /\ co[bus[i]].event.kind = "state"
Unread(p, i) == inbox[p][i].kind = "state"

Told(news) == news.state = state /\ news.sid = sid

News(p) ==
  /\ \A i \in 1 .. Len(bus) :
       Unsent(p, i) /\ (\A j \in i + 1 .. Len(bus) : ~Unsent(p, j))
         => Told(co[bus[i]].event)
  /\ (\A i \in 1 .. Len(bus) : ~Unsent(p, i)) =>
       /\ \A i \in 1 .. Len(inbox[p]) :
            Unread(p, i) /\ (\A j \in i + 1 .. Len(inbox[p]) : ~Unread(p, j))
              => Told(inbox[p][i])
       /\ (\A i \in 1 .. Len(inbox[p]) : ~Unread(p, i)) => Told(mirror[p])

NewsOK == ~cut => \A p \in Steady : News(p)
-----------------------------------------------------------------------------
(* Who sends what: idle timers only dismiss, arm() announces ARMED, and      *)
(* capture() before each of its awaits what it has just done.                *)
Arms(e)    == e.kind = "state" /\ e.state = "armed"
Reviews(e) == e.kind = "state" /\ e.state = "review"

(* Where the last event capture() broadcast is the finished picture.         *)
Finished(h, label) == label = "composed" \/ (label = "shot" /\ h.total = 1)

Announces(h) ==
  /\ h.job # "none"
  /\ h.job = "dismiss" => h.event.kind = "state" /\ h.event.state = "idle"
  /\ h.job = "arm" => Arms(h.event)
  /\ Arms(h.event) => h.job = "arm"
  /\ Reviews(h.event) => h.next = "over"
  /\ h.event.kind \in {"shot", "final"} => h.next \in {"shot", "composed"}
  /\ Finished(h, h.next) => h.event.kind = "final"
  /\ h.next \in {"over", "shot", "composed", "failed"} \cup Shooting
  /\ h.next # "over" => h.job = "capture"

Rounds == {"arm", "capture"}
Role(q, h) ==
  /\ h.job \in Rounds => Taps(q)
  /\ IsTap(q) /\ h.job # "none" => Taps(q)
  /\ h.at \in {"shot", "composed", "failed"} \cup Shooting => h.job = "capture"
  /\ h.at = "sending" => /\ Announces(h)
                         /\ h.job \in Rounds => h.event.sid = sid

RolesOK == \A q \in Slots : Role(q, co[q])

(* What a page's picture will be after the first n events of its inbox: the  *)
(* finished one of session s, ...                                            *)
Draws(e) == e.kind \in {"shot", "final"} \/ Arms(e)
Final(s) == [sid |-> s, kind |-> "final"]
FinalAfter(p, s, n) ==
  \/ /\ image[p] = Final(s)
     /\ \A z \in 1 .. n : ~Draws(inbox[p][z])
  \/ \E y \in 1 .. n : /\ inbox[p][y].kind = "final" /\ inbox[p][y].sid = s
                       /\ \A z \in y + 1 .. n : ~Draws(inbox[p][z])

(* ... or one that may still change: a review it was told of is over.        *)
ArmedSince(p, n) ==
  /\ mirror[p].state = "review" => \E a \in 1 .. n : Arms(inbox[p][a])
  /\ \A r \in 1 .. n :
       Reviews(inbox[p][r]) => \E a \in r + 1 .. n : Arms(inbox[p][a])

(* A review is told after the picture, and a picture after the arming.       *)
Mail(p) ==
  /\ mirror[p].state = "review" => image[p] = Final(mirror[p].sid)
  /\ \A x \in 1 .. Len(inbox[p]) :
       /\ Reviews(inbox[p][x]) => FinalAfter(p, inbox[p][x].sid, x - 1)
       /\ inbox[p][x].kind \in {"shot", "final"} => ArmedSince(p, x - 1)

MailOK == \A p \in Steady : Mail(p)

(* Where a round of arm() and capture() is, the pages are: armed once the    *)
(* broadcast of arm() is through, with the finished picture before Review.   *)
Untold(p, h)  == h.at = "sending" /\ Wire(p) \in h.unsent
Through(p, h) == h.at = "sending" /\ Wire(p) \notin h.unsent

PastArm(p, h) ==
  \/ h.job = "arm" /\ (h.at = "over" \/ Through(p, h))
  \/ h.job = "capture" /\ \/ h.at \in {"sent", "shot"} \cup Shooting
                          \/ h.at = "sending" /\ h.next # "over"
PastPicture(p, h) ==
  \/ Finished(h, h.at)
  \/ Through(p, h) /\ Finished(h, h.next)
  \/ Untold(p, h) /\ Reviews(h.event)

Round(p, h) ==
  /\ PastArm(p, h) => ArmedSince(p, Len(inbox[p]))
  /\ PastPicture(p, h) => FinalAfter(p, sid, Len(inbox[p]))

RoundOK == \A q \in Slots, p \in Steady : Round(p, co[q])

ReviewInv == RolesOK /\ MailOK /\ RoundOK
-----------------------------------------------------------------------------
(* The types.                                                                *)
Handlers == [job : Jobs, at : Labels, next : Labels, unsent : SUBSET Sockets,
             size : Nat, event : Events, left : Nat, total : Nat, heard : BOOLEAN]

(* A handler whose request has just been sent.                               *)
Asked(job) == [Free EXCEPT !.job = job, !.at = "sent", !.heard = TRUE]

(* A handler inside broadcast().                                             *)
Sending(h, e, next) ==
  [h EXCEPT !.at = "sending", !.next = next, !.event = e,
            !.unsent = websockets, !.size = Cardinality(websockets)]

LEMMA HandlerTypes ==
  /\ Free \in Handlers
  /\ \A job \in Jobs : Asked(job) \in Handlers
<1>1. NoEvent \in Events
  BY KioskAssumption DEF Events, NoEvent, Kinds, Sessions, States
<1>2. Free \in Handlers
  BY <1>1 DEF Free, Handlers, Jobs, Labels
<1> QED BY <1>2 DEF Asked, Handlers, Labels

LEMMA ResponseTypes ==
  \A h \in {Free, Asked("arm"), Asked("capture")} :
    h \in Handlers /\ h.at \in {"free", "sent"} /\ h.next = "free" /\ h.unsent = {}
<1>1. Asked("arm") \in Handlers /\ Asked("capture") \in Handlers
  BY HandlerTypes DEF Jobs
<1>2. /\ Free.at = "free" /\ Free.next = "free" /\ Free.unsent = {}
      /\ \A job : /\ Asked(job).at = "sent" /\ Asked(job).next = "free"
                  /\ Asked(job).unsent = {}
  BY DEF Free, Asked
<1> QED BY <1>1, <1>2, HandlerTypes

LEMMA SendingType ==
  ASSUME TypeOK, NEW h \in Handlers, NEW e \in Events, NEW next \in Labels
  PROVE  Sending(h, e, next) \in Handlers
<1>1. IsFiniteSet(Sockets)
  <2>1. IsFiniteSet(1 .. MaxSockets) /\ IsFiniteSet(Pages)
    BY KioskAssumption, FS_Interval
  <2> QED BY <2>1, FS_Product DEF Sockets
<1>2. Cardinality(websockets) \in Nat
  BY <1>1, FS_Subset, FS_CardinalityType DEF TypeOK
<1> QED BY <1>2 DEF TypeOK, Sending, Handlers, Labels

(* What the response does to the handler: the tap script may go on.          *)
LEMMA Responds ==
  ASSUME TypeOK, NEW q \in Slots, NEW ok \in BOOLEAN, Respond(q, ok)
  PROVE  \E h \in {Free, Asked("arm"), Asked("capture")} :
           /\ co' = [co EXCEPT ![q] = h]
           /\ h = Asked("arm") => co[q].job = "dismiss" /\ IsTap(q)
           /\ h = Asked("capture") => co[q].job = "arm" /\ ok
<1>1. Asked("arm").job = "arm" /\ Asked("capture").job = "capture" /\ Free.job = "none"
  BY DEF Asked, Free
<1>2. CASE co' = [co EXCEPT ![q] = Free]
  BY <1>1, <1>2
<1>3. CASE co[q].job = "dismiss" /\ IsTap(q) /\ co' = [co EXCEPT ![q] = Asked("arm")]
  BY <1>1, <1>3
<1>4. CASE co[q].job = "arm" /\ ok /\ co' = [co EXCEPT ![q] = Asked("capture")]
  BY <1>1, <1>4
<1> QED BY <1>2, <1>3, <1>4 DEF Respond, Request, Asked

(* What is left on the bus when a handler leaves it.                         *)
LEMMA Leaves ==
  ASSUME TypeOK, BusOK, NEW k \in 1 .. Len(bus)
  PROVE  /\ OffBus(bus[k]) \in Seq(Slots)
         /\ Len(OffBus(bus[k])) = Len(bus) - 1
         /\ \A i \in 1 .. Len(bus) - 1 :
              OffBus(bus[k])[i] = IF i < k THEN bus[i] ELSE bus[i + 1]
<1> DEFINE c == CHOOSE i \in DOMAIN bus : bus[i] = bus[k]
<1>1. bus \in Seq(Slots) /\ DOMAIN bus = 1 .. Len(bus) /\ Len(bus) \in Nat
  BY DEF TypeOK
<1>2. c = k
  BY <1>1 DEF BusOK
<1>3. OffBus(bus[k]) = [i \in 1 .. Len(bus) - 1 |-> IF i < k THEN bus[i] ELSE bus[i + 1]]
  BY <1>2 DEF OffBus
<1>4. \A i \in 1 .. Len(bus) - 1 : (IF i < k THEN bus[i] ELSE bus[i + 1]) \in Slots
  BY <1>1
<1> QED BY <1>1, <1>3, <1>4, LenProperties

(* Every step of a handler is one of five: a send, the end of a broadcast,   *)
(* its failure, a response, or the beginning of a broadcast, of a change of  *)
(* the state or of something else.                                           *)
Responding(q) ==
  /\ ~At(q, "sending")
  /\ \E ok \in BOOLEAN : Respond(q, ok) /\ (ok => At(q, "over"))
  /\ UNCHANGED <<server, websockets, bus, wires, screen>>

Announcing(q) ==
  /\ ~At(q, "sending")
  /\ \E h \in Handlers, e \in Events, next \in Labels \ {"sending"} :
       /\ Broadcast(q, h, e, next)
       /\ next \in Shooting => h.left > 0
       /\ e.kind = "state" => Told(e)'
       /\ e.kind # "state" => state' = state /\ sid' = sid
  /\ state' \in States /\ sid' \in Sessions /\ slots' \in Nat \ {0}
  /\ UNCHANGED <<cut, websockets, wires, screen>>

LEMMA HandlerKinds ==
  ASSUME TInv, NEW q \in Slots, HandlerStep(q)
  PROVE  \/ \E w \in Sockets : Send(q, w)
         \/ AllSent(q) \/ SetChanged(q) \/ Responding(q) \/ Announcing(q)
<1> DEFINE Goal == \/ \E w \in Sockets : Send(q, w)
                   \/ AllSent(q) \/ SetChanged(q) \/ Responding(q) \/ Announcing(q)
<1>h. /\ co[q] \in Handlers /\ slots \in Nat \ {0} /\ state \in States /\ sid \in Sessions
      /\ co[q].left \in Nat /\ co[q].at \in Labels
      /\ co[q].at \in Shooting => co[q].left > 0
  BY DEF TInv, TypeOK, CountsOK, Handlers
<1>e. \A kind \in Kinds, i \in Sessions, s \in States :
        /\ Event(kind, i, s) \in Events /\ Event(kind, i, s).kind = kind
        /\ Event(kind, i, s).sid = i /\ Event(kind, i, s).state = s
  BY DEF Event, Events
<1>s. /\ \A s \in {"idle", "armed", "countdown", "capturing", "review"} : s \in States
      /\ \A kind \in {"state", "preview", "shot", "final", "failed"} : kind \in Kinds
      /\ \A l \in {"sleeping", "shooting", "downloading", "shot", "composed", "failed", "over"} :
           l \in Labels \ {"sending"}
  BY DEF States, Kinds, Labels
<1>r. ASSUME ~At(q, "sending"), NEW ok \in BOOLEAN, Respond(q, ok), ok => At(q, "over"),
             UNCHANGED <<server, websockets, bus, wires, screen>>
      PROVE  Goal
  BY <1>r DEF Responding
<1>t. ASSUME ~At(q, "sending"), NEW h \in Handlers, NEW next \in Labels \ {"sending"},
             NEW target \in {"idle", "countdown", "capturing", "review"},
             Transition(q, h, target, next), next \in Shooting => h.left > 0,
             UNCHANGED <<sid, slots, cut, websockets, wires, screen>>
      PROVE  Goal
  <2>1. CASE state' = target /\ Broadcast(q, h, Event("state", sid, target), next)
    <3> DEFINE e == Event("state", sid, target)
    <3>1. e \in Events /\ e.kind = "state" /\ Told(e)' /\ state' \in States
      BY <1>t, <1>e, <1>s, <1>h, <2>1 DEF Told
    <3> QED BY <1>t, <1>h, <2>1, <3>1 DEF Announcing
  <2>2. CASE Respond(q, FALSE) /\ UNCHANGED <<state, bus>>
    BY <1>t, <1>r, <2>2 DEF server
  <2> QED BY <1>t, <2>1, <2>2 DEF Transition
<1>b. ASSUME ~At(q, "sending"), NEW h \in Handlers, NEW next \in Labels \ {"sending"},
             NEW kind \in {"preview", "shot", "final", "failed"},
             Broadcast(q, h, Event(kind, sid, "capturing"), next),
             next \in Shooting => h.left > 0,
             UNCHANGED <<server, websockets, wires, screen>>
      PROVE  Goal
  <2>1. Event(kind, sid, "capturing") \in Events /\ Event(kind, sid, "capturing").kind = kind
    BY <1>e, <1>s, <1>h
  <2> QED BY <1>b, <1>h, <2>1 DEF Announcing, server
<1>1. CASE \E w \in Sockets : Send(q, w)
  BY <1>1
<1>2. CASE AllSent(q) \/ SetChanged(q)
  BY <1>2
<1>3. CASE ServeDismiss(q)
  BY <1>3, <1>t, <1>h, <1>s DEF ServeDismiss, Serves, At, Shooting
<1>4. CASE ServeArm(q)
  <2>1. sid + 1 \in Sessions /\ slots' \in Nat \ {0}
    BY <1>4, <1>h, KioskAssumption DEF ServeArm, Sessions
  <2>2. ASSUME NEW e \in Events, e = Event("state", sid + 1, "armed")
        PROVE  Announcing(q)
    <3>1. e.kind = "state" /\ e.sid = sid + 1 /\ e.state = "armed"
      BY <1>e, <1>s, <2>1, <2>2
    <3>2. Told(e)'
      BY <1>4, <3>1 DEF Told, ServeArm
    <3>3. Broadcast(q, co[q], e, "over") /\ "over" \in Labels \ {"sending"} /\ "over" \notin Shooting
      BY <1>4, <1>s, <2>2 DEF ServeArm, Shooting
    <3>4. /\ ~At(q, "sending") /\ state' \in States /\ sid' \in Sessions
          /\ UNCHANGED <<cut, websockets, wires, screen>>
      BY <1>4, <1>s, <2>1 DEF ServeArm, Serves, At
    <3> QED BY <1>h, <2>1, <3>1, <3>2, <3>3, <3>4 DEF Announcing
  <2> QED BY <1>e, <1>s, <2>1, <2>2
<1>5. CASE RefuseArm(q)
  BY <1>5, <1>r DEF RefuseArm, Serves, At
<1>6. CASE Over(q)
  BY <1>6, <1>r DEF Over, At
<1>7. CASE StartCapture(q)
  <2> DEFINE h == [co[q] EXCEPT !.left = slots, !.total = slots]
  <2>1. slots \in Nat /\ slots > 0
    BY <1>h
  <2>2. h \in Handlers
    BY <1>h, <2>1 DEF Handlers
  <2>3. h.left = slots
    BY <1>h DEF Handlers
  <2> QED BY <2>2, <2>3, <1>7, <1>t, <1>s, <2>1 DEF StartCapture, Serves, At
<1>8. CASE NextShot(q)
  BY <1>8, <1>t, <1>h, <1>s DEF NextShot, At
<1>9. CASE Shoot(q)
  BY <1>9, <1>t, <1>h, <1>s DEF Shoot, At, Shooting
<1>10. CASE PreviewArrives(q)
  BY <1>10, <1>b, <1>h, <1>s DEF PreviewArrives, At, Shooting
<1>11. CASE PictureArrives(q)
  <2> DEFINE h == [co[q] EXCEPT !.left = @ - 1]
             kind == IF co[q].total = 1 THEN "final" ELSE "shot"
  <2>1. co[q].at \in Shooting /\ ~At(q, "sending")
    BY <1>11 DEF PictureArrives, At, Shooting
  <2>2. co[q].left - 1 \in Nat
    BY <1>h, <2>1
  <2>3. h \in Handlers
    BY <1>h, <2>2 DEF Handlers
  <2>4. kind \in {"preview", "shot", "final", "failed"} /\ "shot" \notin Shooting
    BY DEF Shooting
  <2>5. /\ Broadcast(q, h, Event(kind, sid, "capturing"), "shot")
        /\ UNCHANGED <<server, websockets, wires, screen>>
    BY <1>11 DEF PictureArrives
  <2> HIDE DEF h, kind
  <2> QED BY <1>b, <1>s, <2>1, <2>3, <2>4, <2>5
<1>12. CASE CameraFails(q)
  BY <1>12, <1>b, <1>h, <1>s DEF CameraFails, At, Shooting
<1>13. CASE GiveUp(q)
  BY <1>13, <1>t, <1>h, <1>s DEF GiveUp, At, Shooting
<1>14. CASE Dies(q)
  BY <1>14, <1>r DEF Dies, At
<1>15. CASE Compose(q)
  BY <1>15, <1>b, <1>h, <1>s DEF Compose, At, Shooting
<1>16. CASE Review(q)
  BY <1>16, <1>t, <1>h, <1>s DEF Review, At, Shooting
<1> QED BY <1>1, <1>2, <1>3, <1>4, <1>5, <1>6, <1>7, <1>8, <1>9, <1>10, <1>11, <1>12,
            <1>13, <1>14, <1>15, <1>16 DEF HandlerStep

LEMMA TypeInit == Init => TInv
<1> SUFFICES ASSUME Init PROVE TInv
  OBVIOUS
<1>1. "idle" \in States /\ 0 \in Sessions /\ 1 \in 1 .. MaxSockets /\ 0 \in 0 .. MaxSockets
  BY KioskAssumption DEF States, Sessions
<1>2. bus \in Seq(Slots) /\ Len(bus) = 0
  BY DEF Init
<1>3. co \in [Slots -> Handlers]
  BY HandlerTypes DEF Init
<1>4. inbox \in [Pages -> Seq(Events)]
  BY DEF Init
<1>5. TypeOK
  <2>1. websockets \subseteq Sockets
    BY <1>1 DEF Init, Sockets
  <2>2. sock \in [Pages -> 0 .. MaxSockets] /\ used \in [Pages -> 0 .. MaxSockets]
    BY KioskAssumption DEF Init
  <2>3. /\ mirror \in [Pages -> [state : States, sid : Sessions]]
        /\ image \in [Pages -> [sid : Sessions, kind : {"none", "preview", "shot", "final"}]]
        /\ timer \in [Pages -> BOOLEAN]
    BY <1>1 DEF Init, Blank, NoImage
  <2>4. state \in States /\ sid \in Sessions /\ slots \in Nat /\ cut \in BOOLEAN
    BY <1>1 DEF Init
  <2> QED BY <1>2, <1>3, <1>4, <2>1, <2>2, <2>3, <2>4 DEF TypeOK, Handlers
<1>6. CountsOK
  BY DEF Init, CountsOK, Free, Shooting
<1>7. BusOK
  BY <1>2 DEF Init, BusOK, At, Free
<1>8. WiresOK
  BY DEF Init, WiresOK, Steady, Wire
<1> QED BY <1>5, <1>6, <1>7, <1>8 DEF TInv

(* A handler that changes where it is not sending.                           *)
LEMMA StaysOffBus ==
  ASSUME TInv, NEW q \in Slots, ~At(q, "sending"), NEW h \in Handlers,
         co' = [co EXCEPT ![q] = h], bus' = bus, h.at \notin {"sending"} \cup Shooting,
         h.next \notin {"sending"} \cup Shooting, slots' = slots
  PROVE  co' \in [Slots -> Handlers] /\ CountsOK' /\ BusOK'
<1>1. co \in [Slots -> Handlers]
  BY DEF TInv, TypeOK, Handlers
<1>2. co' \in [Slots -> Handlers] /\ co'[q] = h /\ \A r \in Slots : r # q => co'[r] = co[r]
  BY <1>1
<1>3. CountsOK'
  BY <1>2 DEF TInv, CountsOK
<1>4. BusOK'
  BY <1>2 DEF TInv, BusOK, At
<1> QED BY <1>2, <1>3, <1>4

(* A handler that leaves the bus.                                            *)
LEMMA LeavesBus ==
  ASSUME TInv, NEW q \in Slots, At(q, "sending"), NEW h \in Handlers,
         co' = [co EXCEPT ![q] = h], bus' = OffBus(q), h.at # "sending", h.next # "sending",
         h.at \in Shooting \/ h.next \in Shooting => h.left > 0, slots' = slots
  PROVE  co' \in [Slots -> Handlers] /\ bus' \in Seq(Slots) /\ CountsOK' /\ BusOK'
<1>1. co \in [Slots -> Handlers] /\ bus \in Seq(Slots) /\ Len(bus) \in Nat
  BY DEF TInv, TypeOK, Handlers
<1>2. co' \in [Slots -> Handlers] /\ co'[q] = h /\ \A r \in Slots : r # q => co'[r] = co[r]
  BY <1>1
<1>3. PICK k \in 1 .. Len(bus) : bus[k] = q
  BY DEF TInv, BusOK
<1>4. /\ bus' \in Seq(Slots) /\ Len(bus') = Len(bus) - 1
      /\ \A i \in 1 .. Len(bus) - 1 : bus'[i] = IF i < k THEN bus[i] ELSE bus[i + 1]
  BY <1>3, Leaves DEF TInv
<1>5. CountsOK'
  BY <1>2 DEF TInv, CountsOK
<1>u. \A i, j \in 1 .. Len(bus) : bus[i] = bus[j] => i = j
  BY DEF TInv, BusOK
<1>6. ASSUME NEW i \in 1 .. Len(bus'), NEW j \in 1 .. Len(bus'), bus'[i] = bus'[j]
      PROVE  i = j
  <2>1. /\ i \in 1 .. Len(bus) - 1 /\ i \in 1 .. Len(bus) /\ i + 1 \in 1 .. Len(bus)
        /\ j \in 1 .. Len(bus) - 1 /\ j \in 1 .. Len(bus) /\ j + 1 \in 1 .. Len(bus)
    BY <1>1, <1>4
  <2>2. PICK a \in 1 .. Len(bus) :
          /\ a = IF i < k THEN i ELSE i + 1
          /\ bus[a] = bus'[i]
    BY <1>4, <2>1
  <2>3. PICK b \in 1 .. Len(bus) :
          /\ b = IF j < k THEN j ELSE j + 1
          /\ bus[b] = bus'[j]
    BY <1>4, <2>1
  <2>4. a = b
    BY <1>6, <1>u, <2>2, <2>3
  <2> QED BY <1>3, <2>1, <2>2, <2>3, <2>4
<1>7. \A i \in 1 .. Len(bus') : bus'[i] # q
  BY <1>1, <1>3, <1>4 DEF TInv, BusOK
<1>8. ASSUME NEW r \in Slots, r # q
      PROVE  At(r, "sending")' <=> \E i \in 1 .. Len(bus') : bus'[i] = r
  <2>1. At(r, "sending")' <=> At(r, "sending")
    BY <1>2, <1>8 DEF At
  <2>2. ASSUME NEW j \in 1 .. Len(bus), bus[j] = r
        PROVE  \E i \in 1 .. Len(bus') : bus'[i] = r
    <3>1. CASE j < k
      BY <1>1, <1>3, <1>4, <2>2, <3>1
    <3>2. CASE j > k
      <4>1. j - 1 \in 1 .. Len(bus') /\ ~(j - 1 < k) /\ (j - 1) + 1 = j
        BY <1>1, <1>4, <3>2
      <4> QED BY <1>4, <2>2, <4>1
    <3> QED BY <1>3, <1>8, <2>2, <3>1, <3>2
  <2>3. ASSUME NEW i \in 1 .. Len(bus'), bus'[i] = r
        PROVE  \E j \in 1 .. Len(bus) : bus[j] = r
    <3>1. i \in 1 .. Len(bus) - 1 /\ i \in 1 .. Len(bus) /\ i + 1 \in 1 .. Len(bus)
      BY <1>1, <1>4
    <3> QED BY <1>4, <2>3, <3>1
  <2> QED BY <2>1, <2>2, <2>3 DEF TInv, BusOK
<1>9. BusOK'
  BY <1>2, <1>6, <1>7, <1>8 DEF TInv, BusOK, At
<1> QED BY <1>2, <1>4, <1>5, <1>9

(* A handler that enters the bus.                                            *)
LEMMA EntersBus ==
  ASSUME TInv, NEW q \in Slots, Announcing(q)
  PROVE  co' \in [Slots -> Handlers] /\ bus' \in Seq(Slots) /\ CountsOK' /\ BusOK'
<1>1. co \in [Slots -> Handlers] /\ bus \in Seq(Slots) /\ Len(bus) \in Nat
  BY DEF TInv, TypeOK, Handlers
<1>2. PICK h \in Handlers, e \in Events, next \in Labels \ {"sending"} :
        Broadcast(q, h, e, next) /\ (next \in Shooting => h.left > 0)
  BY DEF Announcing
<1>3. Sending(h, e, next) \in Handlers
  BY SendingType DEF TInv
<1>4. co' = [co EXCEPT ![q] = Sending(h, e, next)] /\ bus' = Append(bus, q)
  BY <1>2 DEF Broadcast, Sending
<1>5. /\ co' \in [Slots -> Handlers] /\ co'[q] = Sending(h, e, next)
      /\ \A r \in Slots : r # q => co'[r] = co[r]
  BY <1>1, <1>3, <1>4
<1>6. /\ Sending(h, e, next).at = "sending" /\ Sending(h, e, next).next = next
      /\ Sending(h, e, next).left = h.left
  BY DEF Sending, Handlers
<1>7. /\ bus' \in Seq(Slots) /\ Len(bus') = Len(bus) + 1
      /\ \A i \in 1 .. Len(bus) : bus'[i] = bus[i]
      /\ bus'[Len(bus) + 1] = q
  BY <1>1, <1>4, AppendProperties
<1>8. CountsOK'
  BY <1>2, <1>5, <1>6 DEF TInv, CountsOK, Announcing, Shooting
<1>9. \A i \in 1 .. Len(bus) : bus[i] # q
  BY DEF TInv, BusOK, Announcing
<1>10. BusOK'
  <2>1. \A r \in Slots : co'[r].next # "sending"
    BY <1>2, <1>5, <1>6 DEF TInv, BusOK
  <2>2. \A i, j \in 1 .. Len(bus') : bus'[i] = bus'[j] => i = j
    BY <1>1, <1>7, <1>9 DEF TInv, BusOK
  <2>3. \A r \in Slots : At(r, "sending")' <=> \E i \in 1 .. Len(bus') : bus'[i] = r
    <3>1. At(q, "sending")' /\ \A r \in Slots : r # q => (At(r, "sending")' <=> At(r, "sending"))
      BY <1>5, <1>6 DEF At
    <3>2. \A r \in Slots : r # q => /\ At(r, "sending") <=> \E i \in 1 .. Len(bus) : bus[i] = r
      BY DEF TInv, BusOK
    <3> QED BY <1>1, <1>7, <3>1, <3>2
  <2> QED BY <2>1, <2>2, <2>3 DEF BusOK
<1> QED BY <1>5, <1>7, <1>8, <1>10

(* What a send appends to a steady page's inbox.                             *)
LEMMA Delivers ==
  ASSUME TypeOK, NEW w \in Sockets, NEW e \in Events, Deliver(w, e)
  PROVE  /\ inbox' \in [Pages -> Seq(Events)]
         /\ \A p \in Pages : \/ inbox'[p] = inbox[p]
                             \/ inbox'[p] = Append(inbox[p], e) /\ p = w[1]
         /\ sock[w[1]] = w[2] => inbox'[w[1]] = Append(inbox[w[1]], e)
<1>1. w[1] \in Pages
  BY DEF Sockets
<1>2. inbox \in [Pages -> Seq(Events)] /\ Append(inbox[w[1]], e) \in Seq(Events)
  BY <1>1, AppendProperties DEF TypeOK
<1> QED BY <1>1, <1>2 DEF Deliver

LEMMA TypeStep == TInv /\ [Next]_vars => TInv'
<1> SUFFICES ASSUME TInv, [Next]_vars PROVE TInv'
  OBVIOUS
<1>t. /\ TypeOK /\ CountsOK /\ BusOK /\ WiresOK
      /\ co \in [Slots -> Handlers] /\ bus \in Seq(Slots) /\ websockets \subseteq Sockets
  BY DEF TInv, TypeOK, Handlers
<1>w. ASSUME UNCHANGED sock, websockets \subseteq websockets'
      PROVE  WiresOK'
  BY <1>t, <1>w DEF WiresOK
<1>s. ASSUME NEW q \in Slots, co[q].at = "sending" PROVE At(q, "sending")
  BY <1>s DEF At
<1>1. ASSUME NEW q \in Slots, HandlerStep(q)
      PROVE  TInv'
  <2>1. CASE \E w \in Sockets : Send(q, w)
    <3>1. PICK w \in Sockets : Send(q, w)
      BY <2>1
    <3> DEFINE h == [co[q] EXCEPT !.unsent = @ \ {w}]
    <3>2. h \in Handlers /\ h.at = co[q].at /\ h.next = co[q].next /\ h.left = co[q].left
      BY <1>t DEF Handlers
    <3>3. co' = [co EXCEPT ![q] = h] /\ bus' = bus /\ slots' = slots
      BY <3>1 DEF Send, server
    <3> HIDE DEF h
    <3>4. co' \in [Slots -> Handlers] /\ co'[q] = h /\ \A r \in Slots : r # q => co'[r] = co[r]
      BY <1>t, <3>2, <3>3
    <3>5. CountsOK'
      BY <1>t, <3>2, <3>3, <3>4 DEF CountsOK
    <3>6. BusOK'
      BY <1>t, <3>2, <3>3, <3>4 DEF BusOK, At
    <3>7. co[q].event \in Events /\ Deliver(w, co[q].event)
      BY <1>t, <3>1 DEF Handlers, Send
    <3>8. inbox' \in [Pages -> Seq(Events)]
      BY <1>t, <3>7, Delivers
    <3>9. TypeOK'
      BY <1>t, <3>1, <3>4, <3>8 DEF TypeOK, Send, server, screen, Handlers
    <3> QED BY <1>w, <3>1, <3>5, <3>6, <3>9 DEF TInv, Send
  <2>2. CASE AllSent(q)
    <3> DEFINE h == [co[q] EXCEPT !.at = co[q].next, !.next = "free",
                                  !.unsent = {}, !.size = 0, !.event = NoEvent]
    <3>1. NoEvent \in Events
      BY HandlerTypes DEF Free, Handlers
    <3>2. /\ h \in Handlers /\ h.at = co[q].next /\ h.next = "free" /\ h.left = co[q].left
      BY <1>t, <3>1 DEF Handlers, Labels
    <3>3. co' = [co EXCEPT ![q] = h] /\ bus' = OffBus(q) /\ slots' = slots
      BY <2>2 DEF AllSent, server
    <3>4. h.at \in Shooting => h.left > 0
      BY <1>t, <3>2 DEF CountsOK
    <3> HIDE DEF h
    <3>5. At(q, "sending") /\ h.next \notin Shooting
      BY <2>2, <3>2 DEF AllSent, Shooting
    <3>6. h.at # "sending" /\ h.next # "sending"
      BY <1>t, <3>2 DEF BusOK
    <3>7. co' \in [Slots -> Handlers] /\ bus' \in Seq(Slots) /\ CountsOK' /\ BusOK'
      BY <3>2, <3>3, <3>4, <3>5, <3>6, LeavesBus
    <3>8. WiresOK'
      BY <1>t, <2>2 DEF WiresOK, AllSent, wires, Steady, Wire
    <3>9. TypeOK'
      BY <1>t, <2>2, <3>7 DEF TypeOK, AllSent, server, wires, screen, Handlers
    <3> QED BY <3>7, <3>8, <3>9 DEF TInv
  <2>3. CASE SetChanged(q)
    <3>1. PICK h \in {Free, Asked("arm"), Asked("capture")} : co' = [co EXCEPT ![q] = h]
      BY <1>t, <2>3, Responds DEF SetChanged
    <3>2. h \in Handlers /\ h.at \notin {"sending"} \cup Shooting /\ h.next = "free"
      BY ResponseTypes DEF Shooting
    <3>3. At(q, "sending") /\ bus' = OffBus(q) /\ slots' = slots
      BY <2>3 DEF SetChanged
    <3>4. co' \in [Slots -> Handlers] /\ bus' \in Seq(Slots) /\ CountsOK' /\ BusOK'
      BY <3>1, <3>2, <3>3, LeavesBus DEF Shooting
    <3>5. WiresOK'
      BY <1>w, <2>3 DEF SetChanged, wires
    <3>6. TypeOK'
      BY <1>t, <2>3, <3>4 DEF TypeOK, SetChanged, wires, screen, Handlers
    <3> QED BY <3>4, <3>5, <3>6 DEF TInv
  <2>4. CASE Responding(q)
    <3>1. PICK ok \in BOOLEAN : Respond(q, ok)
      BY <2>4 DEF Responding
    <3>2. PICK h \in {Free, Asked("arm"), Asked("capture")} : co' = [co EXCEPT ![q] = h]
      BY <1>t, <3>1, Responds
    <3>3. h \in Handlers /\ h.at \notin {"sending"} \cup Shooting /\ h.next = "free"
      BY ResponseTypes DEF Shooting
    <3>4. co' \in [Slots -> Handlers] /\ CountsOK' /\ BusOK'
      BY <2>4, <3>2, <3>3, StaysOffBus DEF Responding, server, Shooting
    <3>5. WiresOK'
      BY <1>w, <2>4 DEF Responding, wires
    <3>6. TypeOK'
      BY <1>t, <2>4, <3>4 DEF TypeOK, Responding, server, wires, screen, Handlers
    <3> QED BY <3>4, <3>5, <3>6 DEF TInv
  <2>5. CASE Announcing(q)
    <3>1. co' \in [Slots -> Handlers] /\ bus' \in Seq(Slots) /\ CountsOK' /\ BusOK'
      BY <2>5, EntersBus
    <3>2. WiresOK'
      BY <1>w, <2>5 DEF Announcing, wires
    <3>3. TypeOK'
      BY <1>t, <2>5, <3>1 DEF TypeOK, Announcing, wires, screen, Handlers
    <3> QED BY <3>1, <3>2, <3>3 DEF TInv
  <2> QED BY <1>1, <2>1, <2>2, <2>3, <2>4, <2>5, HandlerKinds
<1>2. ASSUME NEW p \in Pages, Receive(p)
      PROVE  TInv'
  <2>1. Head(inbox[p]) \in Events /\ Tail(inbox[p]) \in Seq(Events)
    BY <1>t, <1>2, HeadTailProperties DEF TypeOK, Receive
  <2>2. inbox' \in [Pages -> Seq(Events)]
    BY <1>t, <1>2, <2>1 DEF TypeOK, Receive
  <2>3. /\ mirror' \in [Pages -> [state : States, sid : Sessions]]
        /\ image' \in [Pages -> [sid : Sessions, kind : {"none", "preview", "shot", "final"}]]
        /\ timer' \in [Pages -> BOOLEAN]
    <3>1. NoImage \in [sid : Sessions, kind : {"none", "preview", "shot", "final"}]
      BY KioskAssumption DEF NoImage, Sessions
    <3> DEFINE e == Head(inbox[p])
    <3>2. CASE e.kind = "state"
      <4>1. [state |-> e.state, sid |-> e.sid] \in [state : States, sid : Sessions]
        BY <2>1 DEF Events
      <4>2. Show(p, e)
        BY <1>2 DEF Receive
      <4> HIDE DEF e
      <4>3. /\ mirror' = [mirror EXCEPT ![p] = [state |-> e.state, sid |-> e.sid]]
            /\ image' = IF e.state = "armed" THEN [image EXCEPT ![p] = NoImage] ELSE image
            /\ SetTimer(p, e.state)
        BY <3>2, <4>2 DEF Show
      <4>4. timer' \in [Pages -> BOOLEAN]
        BY <1>t, <4>3 DEF TypeOK, SetTimer
      <4>5. mirror' \in [Pages -> [state : States, sid : Sessions]]
        BY <1>t, <4>1, <4>3 DEF TypeOK
      <4>6. image' \in [Pages -> [sid : Sessions, kind : {"none", "preview", "shot", "final"}]]
        BY <1>t, <3>1, <4>3 DEF TypeOK
      <4> QED BY <4>4, <4>5, <4>6
    <3>3. CASE e.kind # "state"
      <4>1. e.kind \in {"preview", "shot", "final"} =>
              [sid |-> e.sid, kind |-> e.kind]
                \in [sid : Sessions, kind : {"none", "preview", "shot", "final"}]
        BY <2>1 DEF Events
      <4>2. Show(p, e)
        BY <1>2 DEF Receive
      <4> HIDE DEF e
      <4> QED BY <1>t, <3>3, <4>1, <4>2 DEF TypeOK, Show
    <3> QED BY <3>2, <3>3
  <2>4. TypeOK'
    BY <1>t, <1>2, <2>2, <2>3 DEF TypeOK, Receive, server
  <2>5. CountsOK' /\ BusOK'
    BY <1>t, <1>2 DEF CountsOK, BusOK, At, Receive, server
  <2>6. WiresOK'
    BY <1>w, <1>2 DEF Receive
  <2> QED BY <2>4, <2>5, <2>6 DEF TInv
<1>3. ASSUME NEW p \in Pages, NEW q \in Slots, At(q, "free"), NEW job \in Jobs,
             Request(q, job), timer' \in [Pages -> BOOLEAN],
             UNCHANGED <<server, websockets, bus, wires, mirror, image>>
      PROVE  TInv'
  <2>1. Asked(job) \in Handlers /\ co' = [co EXCEPT ![q] = Asked(job)]
    BY <1>3, HandlerTypes DEF Request, Asked
  <2>2. Asked(job).at = "sent" /\ Asked(job).next = "free" /\ ~At(q, "sending")
    BY <1>3 DEF Asked, Free, At
  <2>3. co' \in [Slots -> Handlers] /\ CountsOK' /\ BusOK'
    BY <1>3, <2>1, <2>2, StaysOffBus DEF server, Shooting
  <2>4. WiresOK'
    BY <1>w, <1>3 DEF wires
  <2>5. TypeOK'
    BY <1>t, <1>3, <2>3 DEF TypeOK, server, wires, Handlers
  <2> QED BY <2>3, <2>4, <2>5 DEF TInv
<1>4. ASSUME NEW p \in Pages, TimerFires(p)
      PROVE  TInv'
  <2>1. <<p, "timer">> \in Slots /\ "dismiss" \in Jobs
    BY DEF Slots, Jobs
  <2>2. timer' \in [Pages -> BOOLEAN]
    BY <1>t, <1>4 DEF TypeOK, TimerFires
  <2> QED BY <1>3, <1>4, <2>1, <2>2 DEF TimerFires
<1>5. ASSUME NEW p \in Pages, NEW q \in Slots, Tap(p, q)
      PROVE  TInv'
  <2>1. timer' \in [Pages -> BOOLEAN]
    BY <1>t, <1>5 DEF TypeOK, Tap
  <2> QED BY <1>3, <1>5, <2>1 DEF Tap, Jobs
<1>6. ASSUME NEW p \in Pages, Touch(p)
      PROVE  TInv'
  <2>1. TypeOK'
    BY <1>t, <1>6 DEF TypeOK, Touch, server, wires
  <2>2. CountsOK' /\ BusOK' /\ WiresOK'
    BY <1>t, <1>6 DEF CountsOK, BusOK, At, WiresOK, Touch, server, wires
  <2> QED BY <2>1, <2>2 DEF TInv
<1>7. ASSUME NEW p \in Pages, Reload(p)
      PROVE  TInv'
  <2>1. /\ co' \in [Slots -> Handlers]
        /\ \A q \in Slots : /\ co'[q].at = co[q].at /\ co'[q].next = co[q].next
                            /\ co'[q].left = co[q].left
    <3>1. \A h \in Handlers : /\ [h EXCEPT !.heard = FALSE] \in Handlers
                              /\ [h EXCEPT !.heard = FALSE].at = h.at
                              /\ [h EXCEPT !.heard = FALSE].next = h.next
                              /\ [h EXCEPT !.heard = FALSE].left = h.left
      BY DEF Handlers
    <3> QED BY <1>t, <1>7, <3>1 DEF Reload
  <2>2. CountsOK' /\ BusOK'
    BY <1>t, <1>7, <2>1 DEF CountsOK, BusOK, At, Reload, server
  <2>3. WiresOK'
    BY <1>t, <1>7 DEF WiresOK, Reload, Steady, TypeOK
  <2>4. /\ sock' \in [Pages -> 0 .. MaxSockets] /\ timer' \in [Pages -> BOOLEAN]
        /\ mirror' \in [Pages -> [state : States, sid : Sessions]]
        /\ image' \in [Pages -> [sid : Sessions, kind : {"none", "preview", "shot", "final"}]]
    <3>1. Blank \in [state : States, sid : Sessions] /\ 0 \in 0 .. MaxSockets
      BY KioskAssumption DEF Blank, Sessions, States
    <3>2. NoImage \in [sid : Sessions, kind : {"none", "preview", "shot", "final"}]
      BY KioskAssumption DEF NoImage, Sessions
    <3> QED BY <1>t, <1>7, <3>1, <3>2 DEF TypeOK, Reload
  <2>5. TypeOK'
    BY <1>t, <1>7, <2>1, <2>4 DEF TypeOK, Reload, server, Handlers
  <2> QED BY <2>2, <2>3, <2>5 DEF TInv
<1>8. ASSUME NEW p \in Pages, Connect(p)
      PROVE  TInv'
  <2>1. used[p] \in 0 .. MaxSockets /\ used[p] + 1 \in 1 .. MaxSockets
    BY <1>t, <1>8, KioskAssumption DEF TypeOK, Connect
  <2>2. /\ sock' \in [Pages -> 0 .. MaxSockets] /\ used' \in [Pages -> 0 .. MaxSockets]
        /\ websockets' \subseteq Sockets
    BY <1>t, <1>8, <2>1 DEF TypeOK, Connect, Sockets
  <2>3. TypeOK'
    BY <1>t, <1>8, <2>2 DEF TypeOK, Connect, server, screen
  <2>4. CountsOK' /\ BusOK'
    BY <1>t, <1>8 DEF CountsOK, BusOK, At, Connect, server
  <2>5. WiresOK'
    BY <1>t, <1>8 DEF WiresOK, Connect, Steady, TypeOK
  <2> QED BY <2>3, <2>4, <2>5 DEF TInv
<1>9. ASSUME NEW w \in Sockets, Unregister(w)
      PROVE  TInv'
  <2>1. TypeOK'
    BY <1>t, <1>9 DEF TypeOK, Unregister, server, wires, screen
  <2>2. CountsOK' /\ BusOK'
    BY <1>t, <1>9 DEF CountsOK, BusOK, At, Unregister, server
  <2>3. ASSUME NEW p \in Steady
        PROVE  sock'[p] = 1 /\ Wire(p) \in websockets'
    <3>1. sock[p] = 1 /\ Wire(p) \in websockets
      BY <1>t DEF WiresOK
    <3>2. w # Wire(p)
      BY <1>9, <3>1 DEF Unregister, Wire
    <3> QED BY <1>9, <3>1, <3>2 DEF Unregister, wires
  <2>4. WiresOK'
    BY <2>3 DEF WiresOK
  <2> QED BY <2>1, <2>2, <2>4 DEF TInv
<1>10. CASE UNCHANGED vars
  BY <1>t, <1>10
     DEF vars, server, wires, screen, TInv, TypeOK, CountsOK, BusOK, At, WiresOK
<1> QED BY <1>1, <1>2, <1>4, <1>5, <1>6, <1>7, <1>8, <1>9, <1>10 DEF Next, PageStep

LEMMA NewsInit == Init => NewsOK
<1>1. ASSUME Init, NEW p \in Steady
      PROVE  News(p)
  <2>1. Len(bus) = 0 /\ Len(inbox[p]) = 0 /\ Told(mirror[p])
    BY <1>1 DEF Init, Steady, Told, Blank
  <2> QED BY <2>1 DEF News
<1> QED BY <1>1 DEF NewsOK

(* Nothing that concerns the page's news changes.                            *)
LEMMA NoNews ==
  ASSUME TInv, NEW p \in Steady, News(p),
         inbox'[p] = inbox[p], mirror'[p] = mirror[p], state' = state, sid' = sid,
         bus' = bus,
         \A i \in 1 .. Len(bus) :
           /\ Wire(p) \in co'[bus[i]].unsent <=> Wire(p) \in co[bus[i]].unsent
           /\ co'[bus[i]].event = co[bus[i]].event
  PROVE  News(p)'
<1>1. \A i \in 1 .. Len(bus) : Unsent(p, i)' <=> Unsent(p, i)
  BY DEF Unsent
<1>2. \A i \in 1 .. Len(inbox[p]) : Unread(p, i)' <=> Unread(p, i)
  BY DEF Unread
<1>3. Len(bus) \in Nat /\ Len(inbox[p]) \in Nat
  BY DEF TInv, TypeOK, Steady
<1>4. \A i \in 1 .. Len(bus) : Told(co[bus[i]].event) => Told(co[bus[i]].event)'
  BY DEF Told
<1>5. \A i \in 1 .. Len(inbox[p]) : Told(inbox[p][i]) => Told(inbox[p][i])'
  BY DEF Told
<1>6. Told(mirror[p]) => Told(mirror[p])'
  BY DEF Told
<1>8. ASSUME NEW i \in 1 .. Len(bus), Unsent(p, i)', \A j \in i + 1 .. Len(bus) : ~Unsent(p, j)'
      PROVE  Told(co[bus[i]].event)'
  <2>1. \A j \in i + 1 .. Len(bus) : ~Unsent(p, j)
    BY <1>1, <1>3, <1>8
  <2> QED BY <1>1, <1>4, <1>8, <2>1 DEF News
<1>9. ASSUME \A i \in 1 .. Len(bus) : ~Unsent(p, i)'
      PROVE  /\ \A i \in 1 .. Len(inbox[p]) :
                  Unread(p, i)' /\ (\A j \in i + 1 .. Len(inbox[p]) : ~Unread(p, j)')
                    => Told(inbox[p][i])'
             /\ (\A i \in 1 .. Len(inbox[p]) : ~Unread(p, i)') => Told(mirror[p])'
  <2>1. \A i \in 1 .. Len(bus) : ~Unsent(p, i)
    BY <1>1, <1>9
  <2>2. ASSUME NEW i \in 1 .. Len(inbox[p]), Unread(p, i)',
               \A j \in i + 1 .. Len(inbox[p]) : ~Unread(p, j)'
        PROVE  Told(inbox[p][i])'
    <3>1. \A j \in i + 1 .. Len(inbox[p]) : ~Unread(p, j)
      BY <1>2, <1>3, <2>2
    <3> QED BY <1>2, <1>5, <2>1, <2>2, <3>1 DEF News
  <2>3. (\A i \in 1 .. Len(inbox[p]) : ~Unread(p, i)') => Told(mirror[p])'
    BY <1>2, <1>6, <2>1 DEF News
  <2> QED BY <2>2, <2>3
<1> QED BY <1>8, <1>9 DEF News

(* A steady page is sent what was broadcast before it, and in that order.    *)
LEMMA SendNews ==
  ASSUME TInv, NEW p \in Steady, News(p),
         NEW q \in Slots, NEW w \in Sockets, Send(q, w)
  PROVE  News(p)'
<1>t. /\ co \in [Slots -> Handlers] /\ bus \in Seq(Slots) /\ Len(bus) \in Nat
      /\ p \in Pages /\ inbox[p] \in Seq(Events) /\ Len(inbox[p]) \in Nat
      /\ sock[p] = 1 /\ co[q].event \in Events
  BY DEF TInv, TypeOK, WiresOK, Steady, Handlers
<1>c. /\ \A r \in Slots : r # q => co'[r] = co[r]
      /\ co'[q].unsent = co[q].unsent \ {w} /\ co'[q].event = co[q].event
  BY <1>t DEF Send, Handlers
<1>b. \A i \in 1 .. Len(bus) : bus[i] \in Slots
  BY <1>t
<1>u. UNCHANGED <<state, sid, bus, mirror>>
  BY DEF Send, server, screen
<1>1. CASE w # Wire(p)
  <2>1. inbox'[p] = inbox[p]
    <3>1. CASE w[1] = p
      <4>1. w[2] # 1
        BY <1>1, <3>1 DEF Wire, Sockets
      <4> QED BY <1>t, <3>1, <4>1 DEF Send, Deliver
    <3>2. CASE w[1] # p
      BY <1>t, <3>2, Delivers DEF Send, TInv, Sockets
    <3> QED BY <3>1, <3>2
  <2>2. \A i \in 1 .. Len(bus) :
          /\ Wire(p) \in co'[bus[i]].unsent <=> Wire(p) \in co[bus[i]].unsent
          /\ co'[bus[i]].event = co[bus[i]].event
    BY <1>1, <1>b, <1>c
  <2> QED BY <1>u, <2>1, <2>2, NoNews
<1>2. CASE w = Wire(p)
  <2>n. PICK n \in Nat : n = Len(inbox[p])
    BY <1>t
  <2>k. PICK k \in 1 .. Len(bus) : bus[k] = q
    BY DEF TInv, BusOK, Send
  <2>i. \A i \in 1 .. Len(bus) : i # k => bus[i] # q
    BY <2>k DEF TInv, BusOK
  <2>1. /\ inbox'[p] = Append(inbox[p], co[q].event)
        /\ Len(inbox'[p]) = n + 1
        /\ \A i \in 1 .. n : inbox'[p][i] = inbox[p][i]
        /\ inbox'[p][n + 1] = co[q].event
    <3>1. w[1] = p /\ w[2] = 1
      BY <1>2 DEF Wire
    <3>2. inbox'[p] = Append(inbox[p], co[q].event)
      BY <1>t, <3>1, Delivers DEF Send, TInv
    <3> QED BY <1>t, <2>n, <3>2, AppendProperties
  <2>2. \A i \in 1 .. Len(bus) : i < k => ~Unsent(p, i)
    <3>1. \A i \in DOMAIN bus :
            (\E j \in DOMAIN bus : i < j /\ bus[j] = q) => w \notin co[bus[i]].unsent
      BY DEF Send, Turn
    <3>2. DOMAIN bus = 1 .. Len(bus)
      BY <1>t
    <3> QED BY <1>2, <2>k, <3>1, <3>2 DEF Unsent
  <2>3. /\ ~Unsent(p, k)'
        /\ \A i \in 1 .. Len(bus) :
             i # k => /\ Unsent(p, i)' <=> Unsent(p, i)
                      /\ co'[bus[i]].event = co[bus[i]].event
    BY <1>2, <1>b, <1>c, <1>u, <2>k, <2>i DEF Unsent
  <2>4. Wire(p) \in co[q].unsent
    BY <1>2 DEF Send
  <2>5. Unsent(p, k) <=> co[q].event.kind = "state"
    BY <2>k, <2>4 DEF Unsent
  <2>6. ASSUME NEW i \in 1 .. Len(bus), Unsent(p, i)',
               \A j \in i + 1 .. Len(bus) : ~Unsent(p, j)'
        PROVE  Told(co[bus[i]].event)'
    <3>1. i # k /\ Unsent(p, i) /\ i > k
      BY <2>2, <2>3, <2>6, <1>t
    <3>2. \A j \in i + 1 .. Len(bus) : ~Unsent(p, j)
      BY <2>3, <2>6, <3>1, <1>t
    <3>3. Told(co[bus[i]].event)
      BY <3>1, <3>2 DEF News
    <3> QED BY <1>u, <2>3, <3>1, <3>3 DEF Told
  <2>7. ASSUME \A i \in 1 .. Len(bus) : ~Unsent(p, i)'
        PROVE  /\ \A i \in 1 .. Len(inbox[p])' :
                    Unread(p, i)' /\ (\A j \in i + 1 .. Len(inbox[p])' : ~Unread(p, j)')
                      => Told(inbox[p][i])'
               /\ (\A i \in 1 .. Len(inbox[p])' : ~Unread(p, i)') => Told(mirror[p])'
    <3>1. \A i \in 1 .. Len(bus) : i # k => ~Unsent(p, i)
      BY <2>3, <2>7
    <3>2. \A i \in 1 .. n : Unread(p, i)' <=> Unread(p, i)
      BY <2>1 DEF Unread
    <3>3. Unread(p, n + 1)' <=> co[q].event.kind = "state"
      BY <2>1 DEF Unread
    <3>4. CASE co[q].event.kind = "state"
      <4>1. Told(co[q].event)
        <5>1. Unsent(p, k) /\ \A j \in k + 1 .. Len(bus) : ~Unsent(p, j)
          BY <1>t, <2>5, <3>1, <3>4
        <5> QED BY <2>k, <5>1 DEF News
      <4>2. Told(inbox[p][n + 1])'
        BY <1>u, <2>1, <4>1 DEF Told
      <4>3. n + 1 \in 1 .. Len(inbox'[p]) /\ \A i \in 1 .. Len(inbox'[p]) : i = n + 1 \/ n + 1 \in i + 1 .. Len(inbox'[p])
        BY <1>t, <2>1
      <4> QED BY <3>3, <3>4, <4>2, <4>3
    <3>5. CASE co[q].event.kind # "state"
      <4>1. \A i \in 1 .. Len(bus) : ~Unsent(p, i)
        BY <2>5, <3>1, <3>5
      <4>2. /\ \A i \in 1 .. n : Unread(p, i) /\ (\A j \in i + 1 .. n : ~Unread(p, j))
                                   => Told(inbox[p][i])
            /\ (\A i \in 1 .. n : ~Unread(p, i)) => Told(mirror[p])
        BY <2>n, <4>1 DEF News
      <4>3. ASSUME NEW i \in 1 .. Len(inbox'[p]), Unread(p, i)',
                   \A j \in i + 1 .. Len(inbox'[p]) : ~Unread(p, j)'
            PROVE  Told(inbox[p][i])'
        <5>1. i \in 1 .. n
          BY <1>t, <2>1, <3>3, <3>5, <4>3
        <5>2. Unread(p, i) /\ \A j \in i + 1 .. n : ~Unread(p, j)
          BY <1>t, <2>1, <3>2, <4>3, <5>1
        <5>3. Told(inbox[p][i])
          BY <4>2, <5>1, <5>2
        <5> QED BY <1>u, <2>1, <5>1, <5>3 DEF Told
      <4>4. (\A i \in 1 .. Len(inbox'[p]) : ~Unread(p, i)') => Told(mirror[p])'
        <5>1. (\A i \in 1 .. Len(inbox'[p]) : ~Unread(p, i)') => \A i \in 1 .. n : ~Unread(p, i)
          BY <1>t, <2>1, <3>2
        <5> QED BY <1>u, <4>2, <5>1 DEF Told
      <4> QED BY <4>3, <4>4
    <3> QED BY <3>4, <3>5
  <2>8. bus' = bus
    BY <1>u
  <2> QED BY <2>6, <2>7, <2>8 DEF News
<1> QED BY <1>1, <1>2

(* A handler that was sent to leaves the bus.                                *)
LEMMA AllSentNews ==
  ASSUME TInv, NEW p \in Steady, News(p), NEW q \in Slots, AllSent(q)
  PROVE  News(p)'
<1>t. /\ co \in [Slots -> Handlers] /\ bus \in Seq(Slots) /\ Len(bus) \in Nat
      /\ Len(inbox[p]) \in Nat /\ Wire(p) \in websockets
  BY DEF TInv, TypeOK, WiresOK, Steady, Handlers
<1>k. PICK k \in 1 .. Len(bus) : bus[k] = q
  BY DEF TInv, BusOK, AllSent
<1>i. \A i \in 1 .. Len(bus) : i # k => bus[i] # q
  BY <1>k DEF TInv, BusOK
<1>b. /\ Len(bus') = Len(bus) - 1
      /\ \A i \in 1 .. Len(bus) - 1 : bus'[i] = IF i < k THEN bus[i] ELSE bus[i + 1]
  BY <1>k, Leaves DEF AllSent, TInv
<1>c. \A r \in Slots : r # q => co'[r] = co[r]
  BY <1>t DEF AllSent
<1>u. UNCHANGED <<state, sid, inbox, mirror>>
  BY DEF AllSent, server, wires, screen
<1>1. ~Unsent(p, k)
  BY <1>t, <1>k DEF AllSent, Unsent
<1> DEFINE Old(i) == IF i < k THEN i ELSE i + 1
<1>2. \A i \in 1 .. Len(bus') : /\ Old(i) \in 1 .. Len(bus) /\ Old(i) # k
                                /\ bus'[i] = bus[Old(i)]
                                /\ bus[Old(i)] # q /\ bus[Old(i)] \in Slots
  BY <1>t, <1>b, <1>i
<1>3. \A i \in 1 .. Len(bus') : /\ Unsent(p, i)' <=> Unsent(p, Old(i))
                                /\ co'[bus'[i]] = co[bus[Old(i)]]
  BY <1>2, <1>c DEF Unsent
<1>4. \A j \in 1 .. Len(bus) : j # k => \E i \in 1 .. Len(bus') : j = Old(i)
  <2>1. ASSUME NEW j \in 1 .. Len(bus), j < k
        PROVE  j \in 1 .. Len(bus') /\ Old(j) = j
    BY <1>t, <1>b, <2>1
  <2>2. ASSUME NEW j \in 1 .. Len(bus), j > k
        PROVE  j - 1 \in 1 .. Len(bus') /\ Old(j - 1) = j
    BY <1>t, <1>b, <2>2
  <2> HIDE DEF Old
  <2> QED BY <2>1, <2>2, <1>t
<1>5. \A i, j \in 1 .. Len(bus') : Old(j) > Old(i) => j > i
  BY <1>t, <1>b
<1>t2. Len(bus') \in Nat
  BY <1>t, <1>b
<1> HIDE DEF Old
<1>6. ASSUME NEW i \in 1 .. Len(bus'), Unsent(p, i)',
             \A j \in i + 1 .. Len(bus') : ~Unsent(p, j)'
      PROVE  Told(co[bus[i]].event)'
  <2>1. Unsent(p, Old(i)) /\ Old(i) \in 1 .. Len(bus)
    BY <1>2, <1>3, <1>6
  <2>2. ASSUME NEW j \in Old(i) + 1 .. Len(bus), Unsent(p, j)
        PROVE  FALSE
    <3>1. j \in 1 .. Len(bus) /\ j > Old(i) /\ j # k
      BY <1>1, <1>t, <2>1, <2>2
    <3>2. PICK l \in 1 .. Len(bus') : j = Old(l)
      BY <1>4, <3>1
    <3>3. l \in i + 1 .. Len(bus') /\ Unsent(p, l)'
      BY <1>3, <1>5, <1>t2, <2>2, <3>1, <3>2
    <3> QED BY <1>6, <3>3
  <2>3. Told(co[bus[Old(i)]].event)
    BY <2>1, <2>2 DEF News
  <2> QED BY <1>3, <1>u, <2>3 DEF Told
<1>7. ASSUME \A i \in 1 .. Len(bus') : ~Unsent(p, i)'
      PROVE  \A i \in 1 .. Len(bus) : ~Unsent(p, i)
  BY <1>1, <1>3, <1>4, <1>7
<1>8. /\ \A i : Unread(p, i)' <=> Unread(p, i)
      /\ \A i : Told(inbox[p][i])' <=> Told(inbox[p][i])
      /\ Told(mirror[p])' <=> Told(mirror[p])
  BY <1>u DEF Unread, Told
<1>9. inbox' = inbox
  BY <1>u
<1> QED BY <1>6, <1>7, <1>8, <1>9 DEF News

(* A change of the state is broadcast to every steady page.                  *)
LEMMA AnnounceNews ==
  ASSUME TInv, NEW p \in Steady, News(p), NEW q \in Slots, Announcing(q)
  PROVE  News(p)'
<1>t. /\ co \in [Slots -> Handlers] /\ bus \in Seq(Slots)
      /\ \A i \in 1 .. Len(bus) : bus[i] \in Slots /\ bus[i] # q
      /\ Wire(p) \in websockets
  <2>1. co \in [Slots -> Handlers] /\ bus \in Seq(Slots)
    BY DEF TInv, TypeOK, Handlers
  <2>2. \A i \in 1 .. Len(bus) : bus[i] # q
    BY DEF TInv, BusOK, Announcing
  <2>3. Wire(p) \in websockets
    BY DEF TInv, WiresOK
  <2> QED BY <2>1, <2>2, <2>3
<1>n. PICK n \in Nat : n = Len(bus)
  BY <1>t
<1>1. PICK h \in Handlers, e \in Events, next \in Labels \ {"sending"} :
        /\ Broadcast(q, h, e, next)
        /\ e.kind = "state" => Told(e)'
        /\ e.kind # "state" => state' = state /\ sid' = sid
  BY DEF Announcing
<1>2. /\ co' = [co EXCEPT ![q] = Sending(h, e, next)] /\ bus' = Append(bus, q)
  BY <1>1 DEF Broadcast, Sending
<1>3. /\ co'[q].event = e /\ co'[q].unsent = websockets
      /\ \A r \in Slots : r # q => co'[r] = co[r]
  BY <1>t, <1>2 DEF Sending, Handlers
<1>4. /\ Len(bus') = n + 1 /\ bus'[n + 1] = q
      /\ \A i \in 1 .. n : bus'[i] = bus[i]
  BY <1>t, <1>n, <1>2, AppendProperties
<1>5. /\ \A i \in 1 .. n : /\ Unsent(p, i)' <=> Unsent(p, i)
                           /\ co'[bus'[i]] = co[bus[i]]
      /\ Unsent(p, n + 1)' <=> e.kind = "state"
      /\ co'[bus'[n + 1]].event = e
  BY <1>t, <1>n, <1>3, <1>4 DEF Unsent
<1>u. inbox' = inbox /\ mirror' = mirror
  BY DEF Announcing, wires, screen
<1>6. CASE e.kind = "state"
  <2>1. Unsent(p, n + 1)' /\ Told(co[bus[n + 1]].event)'
    BY <1>1, <1>5, <1>6 DEF Told
  <2>2. n + 1 \in 1 .. Len(bus')
    BY <1>4
  <2>3. \A i \in 1 .. Len(bus') : i = n + 1 \/ n + 1 \in i + 1 .. Len(bus')
    BY <1>4
  <2> QED BY <2>1, <2>2, <2>3 DEF News
<1>7. CASE e.kind # "state"
  <2>1. state' = state /\ sid' = sid
    BY <1>1, <1>7
  <2>2. ASSUME NEW i \in 1 .. Len(bus'), Unsent(p, i)',
               \A j \in i + 1 .. Len(bus') : ~Unsent(p, j)'
        PROVE  Told(co[bus[i]].event)'
    <3>1. i \in 1 .. n /\ Unsent(p, i)
      BY <1>4, <1>5, <1>7, <2>2
    <3>2. \A j \in i + 1 .. n : ~Unsent(p, j)
      BY <1>4, <1>5, <2>2, <3>1
    <3>3. Told(co[bus[i]].event)
      BY <1>n, <3>1, <3>2 DEF News
    <3> QED BY <1>5, <2>1, <3>1, <3>3 DEF Told
  <2>3. ASSUME \A i \in 1 .. Len(bus') : ~Unsent(p, i)'
        PROVE  \A i \in 1 .. Len(bus) : ~Unsent(p, i)
    BY <1>n, <1>4, <1>5, <2>3
  <2>4. /\ \A i : Unread(p, i)' <=> Unread(p, i)
        /\ \A i : Told(inbox[p][i])' <=> Told(inbox[p][i])
        /\ Told(mirror[p])' <=> Told(mirror[p])
    BY <1>u, <2>1 DEF Unread, Told
  <2> QED BY <1>u, <2>2, <2>3, <2>4 DEF News
<1> QED BY <1>6, <1>7

(* What a page hears last, it shows.                                         *)
LEMMA ReceiveNews ==
  ASSUME TInv, NEW p \in Steady, News(p), Receive(p)
  PROVE  News(p)'
<1>t. /\ inbox \in [Pages -> Seq(Events)] /\ p \in Pages /\ inbox[p] # <<>>
      /\ mirror \in [Pages -> [state : States, sid : Sessions]]
  BY DEF TInv, TypeOK, Steady, Receive
<1>n. PICK n \in Nat : n + 1 = Len(inbox[p])
  <2>1. inbox[p] \in Seq(Events)
    BY <1>t
  <2>2. Len(inbox[p]) \in Nat /\ Len(inbox[p]) - 1 \in Nat
    BY <1>t, <2>1, EmptySeq
  <2>3. (Len(inbox[p]) - 1) + 1 = Len(inbox[p])
    BY <2>2
  <2> QED BY <2>2, <2>3
<1>1. /\ inbox'[p] = Tail(inbox[p]) /\ Len(inbox'[p]) = n
      /\ \A i \in 1 .. n : inbox'[p][i] = inbox[p][i + 1]
  <2>1. inbox'[p] = Tail(inbox[p])
    BY <1>t DEF Receive
  <2>2. inbox[p] \in Seq(Events)
    BY <1>t
  <2> QED BY <1>t, <1>n, <2>1, <2>2, HeadTailProperties
<1>2. /\ Unread(p, 1) => mirror'[p].state = inbox[p][1].state /\ mirror'[p].sid = inbox[p][1].sid
      /\ ~Unread(p, 1) => mirror'[p] = mirror[p]
  <2>1. Head(inbox[p]) = inbox[p][1]
    BY <1>t
  <2>2. Show(p, inbox[p][1])
    BY <2>1 DEF Receive
  <2> QED BY <1>t, <2>2 DEF Show, Unread
<1>u. UNCHANGED <<state, sid, bus, co>>
  BY DEF Receive, server
<1>3. \A i \in 1 .. n : /\ Unread(p, i)' <=> Unread(p, i + 1)
                        /\ Told(inbox[p][i])' <=> Told(inbox[p][i + 1])
  BY <1>1, <1>u DEF Unread, Told
<1>4. \A i : /\ Unsent(p, i)' <=> Unsent(p, i)
             /\ Told(co[bus[i]].event)' <=> Told(co[bus[i]].event)
  BY <1>u DEF Unsent, Told
<1>5. ASSUME \A i \in 1 .. Len(bus) : ~Unsent(p, i)
      PROVE  /\ \A i \in 1 .. n : Unread(p, i)' /\ (\A j \in i + 1 .. n : ~Unread(p, j)')
                                    => Told(inbox[p][i])'
             /\ (\A i \in 1 .. n : ~Unread(p, i)') => Told(mirror[p])'
  <2>1. /\ \A i \in 1 .. n + 1 : Unread(p, i) /\ (\A j \in i + 1 .. n + 1 : ~Unread(p, j))
                                   => Told(inbox[p][i])
        /\ (\A i \in 1 .. n + 1 : ~Unread(p, i)) => Told(mirror[p])
    BY <1>n, <1>5 DEF News
  <2>2. ASSUME NEW i \in 1 .. n, Unread(p, i)', \A j \in i + 1 .. n : ~Unread(p, j)'
        PROVE  Told(inbox[p][i])'
    <3>1. i + 1 \in 1 .. n + 1 /\ Unread(p, i + 1)
      BY <1>3, <2>2
    <3>2. ASSUME NEW j \in (i + 1) + 1 .. n + 1
          PROVE  ~Unread(p, j)
      <4>1. j - 1 \in i + 1 .. n /\ j - 1 \in 1 .. n /\ (j - 1) + 1 = j
        OBVIOUS
      <4> QED BY <1>3, <2>2, <4>1
    <3>3. Told(inbox[p][i + 1])
      BY <2>1, <3>1, <3>2
    <3> QED BY <1>3, <3>3
  <2>3. ASSUME \A i \in 1 .. n : ~Unread(p, i)'
        PROVE  Told(mirror[p])'
    <3>1. ASSUME NEW j \in 2 .. n + 1
          PROVE  ~Unread(p, j)
      <4>1. j - 1 \in 1 .. n /\ (j - 1) + 1 = j
        OBVIOUS
      <4> QED BY <1>3, <2>3, <4>1
    <3>2. CASE Unread(p, 1)
      <4>1. Told(inbox[p][1])
        BY <2>1, <3>1, <3>2
      <4> QED BY <1>2, <1>u, <3>2, <4>1 DEF Told
    <3>3. CASE ~Unread(p, 1)
      <4>1. \A i \in 1 .. n + 1 : ~Unread(p, i)
        BY <3>1, <3>3
      <4>2. Told(mirror[p])
        BY <2>1, <4>1
      <4> QED BY <1>2, <1>u, <3>3, <4>2 DEF Told
    <3> QED BY <3>2, <3>3
  <2> QED BY <2>2, <2>3
<1> QED BY <1>1, <1>4, <1>5, <1>u DEF News

LEMMA NewsStep == TInv /\ NewsOK /\ [Next]_vars => NewsOK'
<1> SUFFICES ASSUME TInv, NewsOK, [Next]_vars, ~cut', NEW p \in Steady
             PROVE  News(p)'
  BY DEF NewsOK
<1>t. /\ co \in [Slots -> Handlers] /\ bus \in Seq(Slots) /\ p \in Pages
      /\ \A i \in 1 .. Len(bus) : bus[i] \in Slots /\ At(bus[i], "sending")
  BY DEF TInv, TypeOK, BusOK, Steady, Handlers
<1>q. ASSUME NEW q \in Slots, ~At(q, "sending"), NEW h, co' = [co EXCEPT ![q] = h],
             ~cut, UNCHANGED <<state, sid, bus, inbox, mirror>>
      PROVE  News(p)'
  <2>1. \A i \in 1 .. Len(bus) : co'[bus[i]] = co[bus[i]]
    BY <1>t, <1>q
  <2> QED BY <1>q, <2>1, NoNews DEF NewsOK
<1>1. ASSUME NEW q \in Slots, HandlerStep(q)
      PROVE  News(p)'
  <2>1. CASE \E w \in Sockets : Send(q, w)
    <3>1. PICK w \in Sockets : Send(q, w)
      BY <2>1
    <3>2. News(p)
      BY <3>1 DEF NewsOK, Send, server
    <3> QED BY <3>1, <3>2, SendNews
  <2>2. CASE AllSent(q)
    BY <2>2, AllSentNews DEF NewsOK, AllSent, server
  <2>3. CASE SetChanged(q)
    BY <2>3 DEF SetChanged
  <2>4. CASE Responding(q)
    <3>1. \E h : co' = [co EXCEPT ![q] = h]
      BY <2>4, Responds DEF Responding, TInv
    <3> QED BY <1>q, <2>4, <3>1 DEF Responding, server, wires, screen
  <2>5. CASE Announcing(q)
    BY <2>5, AnnounceNews DEF NewsOK, Announcing
  <2> QED BY <1>1, <2>1, <2>2, <2>3, <2>4, <2>5, HandlerKinds
<1>2. ASSUME NEW r \in Pages, Receive(r)
      PROVE  News(p)'
  <2>1. CASE r = p
    BY <1>2, <2>1, ReceiveNews DEF NewsOK, Receive, server
  <2>2. CASE r # p
    <3>1. inbox'[p] = inbox[p] /\ mirror'[p] = mirror[p]
      BY <1>t, <1>2, <2>2 DEF TInv, TypeOK, Receive, Show
    <3> QED BY <1>2, <3>1, NoNews DEF NewsOK, Receive, server
  <2> QED BY <2>1, <2>2
<1>3. ASSUME NEW r \in Pages, TimerFires(r)
      PROVE  News(p)'
  <2>1. <<r, "timer">> \in Slots
    BY DEF Slots
  <2> QED BY <1>q, <1>3, <2>1 DEF TimerFires, Request, At, server, wires
<1>4. ASSUME NEW r \in Pages, NEW q \in Slots, Tap(r, q)
      PROVE  News(p)'
  BY <1>q, <1>4 DEF Tap, Request, At, server, wires
<1>5. ASSUME NEW r \in Pages, Touch(r)
      PROVE  News(p)'
  BY <1>5, NoNews DEF NewsOK, Touch, server, wires
<1>6. ASSUME NEW r \in Pages, Reload(r)
      PROVE  News(p)'
  <2>1. r # p
    BY <1>6 DEF Reload, Steady
  <2>2. mirror'[p] = mirror[p] /\ inbox' = inbox
    BY <1>t, <1>6, <2>1 DEF TInv, TypeOK, Reload
  <2>3. \A q \in Slots : co'[q].unsent = co[q].unsent /\ co'[q].event = co[q].event
    BY <1>t, <1>6 DEF Reload, Handlers
  <2> QED BY <1>t, <1>6, <2>2, <2>3, NoNews DEF NewsOK, Reload, server
<1>7. ASSUME NEW r \in Pages, Connect(r)
      PROVE  News(p)'
  BY <1>7, NoNews DEF NewsOK, Connect, server, screen
<1>8. ASSUME NEW w \in Sockets, Unregister(w)
      PROVE  News(p)'
  BY <1>8, NoNews DEF NewsOK, Unregister, server, wires, screen
<1>9. CASE UNCHANGED vars
  BY <1>9, NoNews DEF NewsOK, vars, server, wires, screen
<1> QED BY <1>1, <1>2, <1>3, <1>4, <1>5, <1>6, <1>7, <1>8, <1>9 DEF Next, PageStep

(* The types hold for any number of pages, guests and tap scripts, whatever  *)
(* comes, goes or fails (session.py:113-144, Kiosk.svelte:69-109).           *)
THEOREM TypeCorrect == Spec => []TypeOK
<1>1. Init => TInv
  BY TypeInit
<1>2. TInv /\ [Next]_vars => TInv'
  BY TypeStep
<1>3. TInv => TypeOK
  BY DEF TInv
<1> QED BY <1>1, <1>2, <1>3, PTL DEF Spec

(* A page whose connection holds mirrors the server as soon as all that was  *)
(* broadcast has arrived, for any number of guests and pages that come and   *)
(* go, patient or not, unless a broadcast was cut short                      *)
(* (session.py:125-144, Kiosk.svelte:4-6).                                   *)
THEOREM MirrorsKept == Spec => []MirrorsServer
<1> DEFINE Inv == TInv /\ NewsOK
<1>1. Init => Inv
  BY TypeInit, NewsInit
<1>2. Inv /\ [Next]_vars => Inv'
  BY TypeStep, NewsStep
<1>3. ASSUME Inv, NEW p \in Steady, Settled(p), ~cut
      PROVE  mirror[p] = [state |-> state, sid |-> sid]
  <2>1. inbox[p] = <<>> /\ Len(inbox[p]) = 0 /\ News(p)
    BY <1>3 DEF Settled, NewsOK
  <2>2. \A i \in 1 .. Len(bus) : FALSE
    BY <1>3 DEF Settled, TInv, BusOK, TypeOK
  <2>3. Told(mirror[p])
    BY <2>1, <2>2 DEF News
  <2>4. mirror[p] \in [state : States, sid : Sessions]
    BY <1>3 DEF TInv, TypeOK, Steady
  <2> QED BY <2>3, <2>4 DEF Told
<1>4. Inv => MirrorsServer
  BY <1>3 DEF MirrorsServer, Steady
<1> QED BY <1>1, <1>2, <1>4, PTL DEF Spec
-----------------------------------------------------------------------------
(* What a handler broadcasts, as a step of its round.                        *)
Speaking(q) ==
  /\ ~At(q, "sending")
  /\ \E h \in Handlers, e \in Events, next \in Labels \ {"sending"} :
       /\ Broadcast(q, h, e, next)
       /\ h.job = co[q].job
       /\ Announces(Sending(h, e, next))
       /\ h.job \in Rounds => e.sid = sid'
       /\ Reviews(e) => Finished(co[q], co[q].at)
       /\ next # "over" => co[q].at \in {"sent", "shot"} \cup Shooting
  /\ sid' # sid => co[q].job = "arm"
  /\ UNCHANGED <<websockets, wires, screen>>

LEMMA SpeakKinds ==
  ASSUME TInv, RolesOK, NEW q \in Slots, HandlerStep(q)
  PROVE  \/ \E w \in Sockets : Send(q, w)
         \/ AllSent(q) \/ SetChanged(q) \/ Responding(q) \/ Speaking(q)
<1> DEFINE Goal == \/ \E w \in Sockets : Send(q, w)
                   \/ AllSent(q) \/ SetChanged(q) \/ Responding(q) \/ Speaking(q)
<1>h. /\ co[q] \in Handlers /\ slots \in Nat /\ state \in States /\ sid \in Sessions
      /\ co[q].left \in Nat /\ co[q].at \in Labels
      /\ co[q].at \in Shooting => co[q].left > 0
  BY DEF TInv, TypeOK, CountsOK, Handlers
<1>o. Role(q, co[q])
  BY DEF RolesOK
<1>e. \A kind \in Kinds, i \in Sessions, s \in States :
        /\ Event(kind, i, s) \in Events /\ Event(kind, i, s).kind = kind
        /\ Event(kind, i, s).sid = i /\ Event(kind, i, s).state = s
  BY DEF Event, Events
<1>s. /\ \A s \in {"idle", "armed", "countdown", "capturing", "review"} : s \in States
      /\ \A kind \in {"state", "preview", "shot", "final", "failed"} : kind \in Kinds
      /\ \A l \in {"sleeping", "shooting", "downloading", "shot", "composed", "failed", "over"} :
           l \in Labels \ {"sending"}
  BY DEF States, Kinds, Labels
<1>m. \A h \in Handlers, e \in Events, next \in Labels :
        /\ Sending(h, e, next).job = h.job /\ Sending(h, e, next).event = e
        /\ Sending(h, e, next).next = next /\ Sending(h, e, next).total = h.total
  BY DEF Sending, Handlers
<1>t. ASSUME ~At(q, "sending"), NEW h \in Handlers, NEW next \in Labels \ {"sending"},
             NEW target \in {"idle", "countdown", "capturing", "review"},
             Transition(q, h, target, next),
             h.job = co[q].job, h.job \in {"dismiss", "capture"},
             h.job = "dismiss" => target = "idle",
             target = "idle" \/ target = "review" => next = "over",
             target = "countdown" => next = "sleeping",
             target = "capturing" => next = "shooting",
             target = "review" => Finished(co[q], co[q].at),
             next # "over" => /\ co[q].at \in {"sent", "shot"} \cup Shooting
                              /\ h.job = "capture",
             UNCHANGED <<sid, slots, cut, websockets, wires, screen>>
      PROVE  Goal
  <2>1. CASE state' = target /\ Broadcast(q, h, Event("state", sid, target), next)
    <3> PICK e \in Events : /\ e = Event("state", sid, target)
                            /\ e.kind = "state" /\ e.sid = sid /\ e.state = target
      BY <1>e, <1>s, <1>h
    <3>1. Announces(Sending(h, e, next))
      BY <1>t, <1>m DEF Announces, Arms, Reviews, Finished, Shooting
    <3> QED BY <1>t, <2>1, <3>1 DEF Speaking, Reviews
  <2>2. CASE Respond(q, FALSE) /\ UNCHANGED <<state, bus>>
    BY <1>t, <2>2 DEF server, Responding
  <2> QED BY <1>t, <2>1, <2>2 DEF Transition
<1>b. ASSUME NEW h \in Handlers, NEW next \in Labels \ {"sending"},
             NEW kind \in {"preview", "shot", "final", "failed"},
             Broadcast(q, h, Event(kind, sid, "capturing"), next),
             h.job = co[q].job, co[q].at \in {"shot"} \cup Shooting,
             next \in {"downloading", "shot", "composed", "failed"},
             kind \in {"shot", "final"} => next \in {"shot", "composed"},
             Finished(h, next) => kind = "final",
             UNCHANGED <<server, websockets, wires, screen>>
      PROVE  Goal
  <2> PICK e \in Events : /\ e = Event(kind, sid, "capturing")
                          /\ e.kind = kind /\ e.sid = sid
    BY <1>e, <1>s, <1>h
  <2>1. h.job = "capture" /\ ~At(q, "sending")
    BY <1>b, <1>o DEF Role, At, Shooting
  <2>2. Announces(Sending(h, e, next))
    BY <1>b, <1>m, <2>1 DEF Announces, Arms, Reviews, Finished, Shooting
  <2> QED BY <1>b, <2>1, <2>2 DEF Speaking, server, Reviews
<1>1. CASE \E w \in Sockets : Send(q, w)
  BY <1>1
<1>2. CASE AllSent(q) \/ SetChanged(q)
  BY <1>2
<1>3. CASE ServeDismiss(q)
  BY <1>3, <1>t, <1>h, <1>s DEF ServeDismiss, Serves, At
<1>4. CASE ServeArm(q)
  <2>1. sid + 1 \in Sessions
    BY <1>4, <1>h, KioskAssumption DEF ServeArm, Sessions
  <2> PICK e \in Events : /\ e = Event("state", sid + 1, "armed")
                          /\ e.kind = "state" /\ e.sid = sid + 1 /\ e.state = "armed"
    BY <1>e, <1>s, <2>1
  <2>2. co[q].job = "arm" /\ ~At(q, "sending") /\ sid' = e.sid
    BY <1>4 DEF ServeArm, Serves, At
  <2>3. Announces(Sending(co[q], e, "over"))
    BY <1>h, <1>m, <1>s, <2>2 DEF Announces, Arms, Reviews, Finished
  <2>4. Broadcast(q, co[q], e, "over") /\ UNCHANGED <<websockets, wires, screen>>
    BY <1>4 DEF ServeArm
  <2> QED BY <1>h, <1>s, <2>2, <2>3, <2>4 DEF Speaking, Reviews
<1>5. CASE RefuseArm(q)
  BY <1>5 DEF RefuseArm, Serves, At, Responding
<1>6. CASE Over(q)
  BY <1>6 DEF Over, At, Responding
<1>7. CASE StartCapture(q)
  <2> DEFINE h == [co[q] EXCEPT !.left = slots, !.total = slots]
  <2>1. h \in Handlers /\ h.job = co[q].job
    BY <1>h DEF Handlers
  <2>2. co[q].job = "capture" /\ co[q].at = "sent"
    BY <1>7 DEF StartCapture, Serves, At
  <2>3. /\ Transition(q, h, "countdown", "sleeping")
        /\ UNCHANGED <<sid, slots, cut, websockets, wires, screen>>
    BY <1>7 DEF StartCapture
  <2> HIDE DEF h
  <2> QED BY <1>t, <1>s, <2>1, <2>2, <2>3 DEF At
<1>8. CASE NextShot(q)
  BY <1>8, <1>t, <1>h, <1>s, <1>o DEF NextShot, At, Role
<1>9. CASE Shoot(q)
  BY <1>9, <1>t, <1>h, <1>s, <1>o DEF Shoot, At, Shooting, Role
<1>10. CASE PreviewArrives(q)
  BY <1>10, <1>b, <1>h, <1>s DEF PreviewArrives, At, Shooting, Finished
<1>11. CASE PictureArrives(q)
  <2> DEFINE h == [co[q] EXCEPT !.left = @ - 1]
             kind == IF co[q].total = 1 THEN "final" ELSE "shot"
  <2>1. co[q].at \in Shooting
    BY <1>11 DEF PictureArrives, At, Shooting
  <2>2. co[q].left - 1 \in Nat
    BY <1>h, <2>1
  <2>3. h \in Handlers /\ h.job = co[q].job /\ h.total = co[q].total
    BY <1>h, <2>2 DEF Handlers
  <2>4. kind \in {"shot", "final"} /\ (Finished(h, "shot") => kind = "final")
    BY <2>3 DEF Finished
  <2>5. /\ Broadcast(q, h, Event(kind, sid, "capturing"), "shot")
        /\ UNCHANGED <<server, websockets, wires, screen>>
    BY <1>11 DEF PictureArrives
  <2> HIDE DEF h, kind
  <2> QED BY <1>b, <1>s, <2>1, <2>3, <2>4, <2>5
<1>12. CASE CameraFails(q)
  BY <1>12, <1>b, <1>h, <1>s DEF CameraFails, At, Shooting, Finished
<1>13. CASE GiveUp(q)
  BY <1>13, <1>t, <1>h, <1>s, <1>o DEF GiveUp, At, Role
<1>14. CASE Dies(q)
  BY <1>14 DEF Dies, At, Responding
<1>15. CASE Compose(q)
  BY <1>15, <1>b, <1>h, <1>s DEF Compose, At, Shooting, Finished
<1>16. CASE Review(q)
  <2>1. Finished(co[q], co[q].at) /\ co[q].job = "capture"
    BY <1>16, <1>o DEF Review, At, Finished, Role
  <2> QED BY <1>16, <1>t, <1>h, <1>s, <2>1 DEF Review, At
<1> QED BY <1>1, <1>2, <1>3, <1>4, <1>5, <1>6, <1>7, <1>8, <1>9, <1>10, <1>11, <1>12,
            <1>13, <1>14, <1>15, <1>16 DEF HandlerStep

(* A page that hears nothing new keeps what it shows and will show.          *)
LEMMA SameMail ==
  ASSUME NEW p, inbox'[p] = inbox[p], image'[p] = image[p], mirror'[p] = mirror[p], NEW n, NEW s
  PROVE  /\ FinalAfter(p, s, n)' <=> FinalAfter(p, s, n)
         /\ ArmedSince(p, n)' <=> ArmedSince(p, n)
BY DEF FinalAfter, ArmedSince

(* One more event on the way to a page.                                      *)
LEMMA MoreMail ==
  ASSUME NEW p, NEW e, NEW n \in Nat,
         Len(inbox'[p]) = n + 1, inbox'[p][n + 1] = e,
         \A i \in 1 .. n : inbox'[p][i] = inbox[p][i],
         image'[p] = image[p], mirror'[p] = mirror[p]
  PROVE  /\ \A m \in 0 .. n : \A s : FinalAfter(p, s, m) => FinalAfter(p, s, m)'
         /\ \A m \in 0 .. n : ArmedSince(p, m) => ArmedSince(p, m)'
         /\ \A s : FinalAfter(p, s, n) /\ ~Draws(e) => FinalAfter(p, s, n + 1)'
         /\ e.kind = "final" => FinalAfter(p, e.sid, n + 1)'
         /\ ArmedSince(p, n) /\ ~Reviews(e) => ArmedSince(p, n + 1)'
         /\ Arms(e) => ArmedSince(p, n + 1)'
<1>1. ASSUME NEW m \in 0 .. n, NEW s, FinalAfter(p, s, m)
      PROVE  FinalAfter(p, s, m)'
  <2>1. \A z \in 1 .. m : inbox'[p][z] = inbox[p][z]
    OBVIOUS
  <2>2. \A y \in 1 .. m : \A z \in y + 1 .. m : z \in 1 .. m
    OBVIOUS
  <2> QED BY <1>1, <2>1, <2>2 DEF FinalAfter
<1>2. ASSUME NEW m \in 0 .. n, ArmedSince(p, m)
      PROVE  ArmedSince(p, m)'
  <2>1. \A z \in 1 .. m : inbox'[p][z] = inbox[p][z]
    OBVIOUS
  <2>2. \A r \in 1 .. m : \A a \in r + 1 .. m : a \in 1 .. m
    OBVIOUS
  <2> QED BY <1>2, <2>1, <2>2 DEF ArmedSince
<1>3. ASSUME NEW s, FinalAfter(p, s, n), ~Draws(e)
      PROVE  FinalAfter(p, s, n + 1)'
  <2>1. \A z \in 1 .. n + 1 : z \in 1 .. n \/ z = n + 1
    OBVIOUS
  <2>2. CASE image[p] = Final(s) /\ \A z \in 1 .. n : ~Draws(inbox[p][z])
    BY <1>3, <2>1, <2>2 DEF FinalAfter
  <2>3. CASE \E y \in 1 .. n : /\ inbox[p][y].kind = "final" /\ inbox[p][y].sid = s
                               /\ \A z \in y + 1 .. n : ~Draws(inbox[p][z])
    <3>1. PICK y \in 1 .. n : /\ inbox[p][y].kind = "final" /\ inbox[p][y].sid = s
                              /\ \A z \in y + 1 .. n : ~Draws(inbox[p][z])
      BY <2>3
    <3>2. \A z \in y + 1 .. n + 1 : (z \in 1 .. n /\ z \in y + 1 .. n) \/ z = n + 1
      OBVIOUS
    <3>3. \A z \in y + 1 .. n + 1 : ~Draws(inbox'[p][z])
      BY <1>3, <3>1, <3>2
    <3>4. y \in 1 .. n + 1 /\ inbox'[p][y] = inbox[p][y]
      OBVIOUS
    <3> QED BY <3>1, <3>3, <3>4 DEF FinalAfter
  <2> QED BY <1>3, <2>2, <2>3 DEF FinalAfter
<1>4. ASSUME e.kind = "final"
      PROVE  FinalAfter(p, e.sid, n + 1)'
  <2>1. n + 1 \in 1 .. n + 1 /\ \A z \in (n + 1) + 1 .. n + 1 : FALSE
    OBVIOUS
  <2> QED BY <1>4, <2>1 DEF FinalAfter
<1>5. ASSUME ArmedSince(p, n), ~Reviews(e)
      PROVE  ArmedSince(p, n + 1)'
  <2>1. /\ \A z \in 1 .. n : z \in 1 .. n + 1
        /\ \A r \in 1 .. n + 1 : r \in 1 .. n \/ r = n + 1
        /\ \A r \in 1 .. n : \A a \in r + 1 .. n : a \in 1 .. n /\ a \in r + 1 .. n + 1
    OBVIOUS
  <2> QED BY <1>5, <2>1 DEF ArmedSince
<1>6. ASSUME Arms(e)
      PROVE  ArmedSince(p, n + 1)'
  <2>1. n + 1 \in 1 .. n + 1 /\ \A r \in 1 .. n + 1 : r = n + 1 \/ n + 1 \in r + 1 .. n + 1
    OBVIOUS
  <2> QED BY <1>6, <2>1 DEF ArmedSince, Arms, Reviews
<1> QED BY <1>1, <1>2, <1>3, <1>4, <1>5, <1>6

(* A page that hears the first event on its way.                             *)
LEMMA LessMail ==
  ASSUME TypeOK, NEW p \in Steady, MailOK, Receive(p),
         NEW n \in Nat, n + 1 = Len(inbox[p])
  PROVE  /\ \A m \in 0 .. n : \A s : FinalAfter(p, s, m + 1) => FinalAfter(p, s, m)'
         /\ \A m \in 0 .. n : ArmedSince(p, m + 1) => ArmedSince(p, m)'
         /\ mirror'[p].state = "review" => image'[p] = Final(mirror'[p].sid)
         /\ Len(inbox'[p]) = n
         /\ \A i \in 1 .. n : inbox'[p][i] = inbox[p][i + 1]
<1> DEFINE e == inbox[p][1]
<1>t. /\ p \in Pages /\ inbox[p] \in Seq(Events) /\ inbox[p] # <<>>
      /\ inbox \in [Pages -> Seq(Events)]
      /\ mirror \in [Pages -> [state : States, sid : Sessions]]
      /\ image \in [Pages -> [sid : Sessions, kind : {"none", "preview", "shot", "final"}]]
      /\ e \in Events
  BY DEF TypeOK, Steady, Receive
<1>1. /\ Len(inbox'[p]) = n
      /\ \A i \in 1 .. n : inbox'[p][i] = inbox[p][i + 1]
  <2>1. inbox'[p] = Tail(inbox[p])
    BY <1>t DEF Receive
  <2> QED BY <1>t, <2>1, HeadTailProperties
<1>2. Show(p, e)
  BY <1>t DEF Receive
<1>3. /\ mirror'[p] = IF e.kind = "state" THEN [state |-> e.state, sid |-> e.sid] ELSE mirror[p]
      /\ Arms(e) => image'[p] = NoImage
      /\ e.kind \in {"shot", "final"} => image'[p] = [sid |-> e.sid, kind |-> e.kind]
      /\ ~Draws(e) => image'[p] = image[p] \/ (image[p] = NoImage /\ e.kind = "preview")
  <2>1. CASE e.kind = "state"
    <3> HIDE DEF e
    <3> QED BY <1>t, <1>2, <2>1 DEF Show, Arms, Draws
  <2>2. CASE e.kind # "state"
    <3> HIDE DEF e
    <3> QED BY <1>t, <1>2, <2>2 DEF Show, Arms, Draws
  <2> QED BY <2>1, <2>2
<1>4. \A s : Final(s) # NoImage
  BY DEF Final, NoImage
<1>m. /\ mirror[p].state = "review" => image[p] = Final(mirror[p].sid)
      /\ Reviews(e) => FinalAfter(p, e.sid, 0)
      /\ e.kind \in {"shot", "final"} => ArmedSince(p, 0)
  <2>1. 1 \in 1 .. Len(inbox[p]) /\ 1 - 1 = 0
    BY <1>t
  <2> QED BY <2>1 DEF MailOK, Mail
<1> HIDE DEF e
<1>i. /\ \A m \in 0 .. n : \A z \in 1 .. m : z + 1 \in 1 .. m + 1 /\ inbox'[p][z] = inbox[p][z + 1]
      /\ \A m \in 0 .. n : \A z \in 1 .. m + 1 :
           z = 1 \/ (z - 1 \in 1 .. m /\ inbox'[p][z - 1] = inbox[p][z])
  <2>1. \A m \in 0 .. n : \A z \in 1 .. m : z \in 1 .. n /\ z + 1 \in 1 .. m + 1
    OBVIOUS
  <2>2. \A m \in 0 .. n : \A z \in 1 .. m + 1 :
          z = 1 \/ (z - 1 \in 1 .. m /\ z - 1 \in 1 .. n /\ (z - 1) + 1 = z)
    OBVIOUS
  <2>3. \A m \in 0 .. n : \A z \in 1 .. m : inbox'[p][z] = inbox[p][z + 1]
    BY <1>1, <2>1
  <2>4. \A m \in 0 .. n : \A z \in 1 .. m + 1 : z = 1 \/ inbox'[p][z - 1] = inbox[p][z]
    BY <1>1, <2>2
  <2> QED BY <2>1, <2>2, <2>3, <2>4
<1>5. ASSUME NEW m \in 0 .. n, NEW s, FinalAfter(p, s, m + 1)
      PROVE  FinalAfter(p, s, m)'
  <2>1. CASE image[p] = Final(s) /\ \A z \in 1 .. m + 1 : ~Draws(inbox[p][z])
    <3>1. ~Draws(e) /\ \A z \in 1 .. m : ~Draws(inbox'[p][z])
      BY <1>i, <2>1 DEF e
    <3>2. image'[p] = Final(s)
      BY <1>3, <1>4, <2>1, <3>1
    <3> QED BY <3>1, <3>2 DEF FinalAfter
  <2>2. CASE \E y \in 1 .. m + 1 : /\ inbox[p][y].kind = "final" /\ inbox[p][y].sid = s
                                   /\ \A z \in y + 1 .. m + 1 : ~Draws(inbox[p][z])
    <3>1. PICK y \in 1 .. m + 1 : /\ inbox[p][y].kind = "final" /\ inbox[p][y].sid = s
                                  /\ \A z \in y + 1 .. m + 1 : ~Draws(inbox[p][z])
      BY <2>2
    <3>2. \A z \in y .. m : ~Draws(inbox'[p][z])
      <4>1. \A z \in y .. m : z \in 1 .. m /\ z + 1 \in y + 1 .. m + 1
        OBVIOUS
      <4> QED BY <1>i, <3>1, <4>1
    <3>3. CASE y = 1
      <4>1. image'[p] = Final(s)
        BY <1>3, <3>1, <3>3 DEF Final, e
      <4> QED BY <3>2, <3>3, <4>1 DEF FinalAfter
    <3>4. CASE y # 1
      <4>1. y - 1 \in 1 .. m /\ inbox'[p][y - 1] = inbox[p][y] /\ (y - 1) + 1 = y
        BY <1>i, <3>4
      <4> QED BY <3>1, <3>2, <4>1 DEF FinalAfter
    <3> QED BY <3>3, <3>4
  <2> QED BY <1>5, <2>1, <2>2 DEF FinalAfter
<1>6. ASSUME NEW m \in 0 .. n, ArmedSince(p, m + 1)
      PROVE  ArmedSince(p, m)'
  <2>1. ASSUME NEW r \in 0 .. m, \E a \in r + 2 .. m + 1 : Arms(inbox[p][a])
        PROVE  \E a \in r + 1 .. m : Arms(inbox'[p][a])
    <3>1. PICK a \in r + 2 .. m + 1 : Arms(inbox[p][a])
      BY <2>1
    <3>2. a \in 1 .. m + 1 /\ a # 1 /\ a - 1 \in r + 1 .. m
      OBVIOUS
    <3> QED BY <1>i, <3>1, <3>2
  <2>2. ASSUME mirror'[p].state = "review"
        PROVE  \E a \in 1 .. m : Arms(inbox'[p][a])
    <3>1. CASE e.kind = "state"
      <4>1. Reviews(inbox[p][1]) /\ 1 \in 1 .. m + 1 /\ 1 + 1 = 0 + 2
        BY <1>3, <2>2, <3>1 DEF Reviews, e
      <4>2. \E a \in 0 + 2 .. m + 1 : Arms(inbox[p][a])
        BY <1>6, <4>1 DEF ArmedSince
      <4>3. 0 \in 0 .. m /\ 0 + 1 = 1
        OBVIOUS
      <4> QED BY <2>1, <4>2, <4>3
    <3>2. CASE e.kind # "state"
      <4>1. PICK a \in 1 .. m + 1 : Arms(inbox[p][a])
        BY <1>3, <1>6, <2>2, <3>2 DEF ArmedSince
      <4>2. a # 1
        BY <3>2, <4>1 DEF Arms, e
      <4> QED BY <1>i, <4>1, <4>2
    <3> QED BY <3>1, <3>2
  <2>3. ASSUME NEW r \in 1 .. m, Reviews(inbox'[p][r])
        PROVE  \E a \in r + 1 .. m : Arms(inbox'[p][a])
    <3>1. Reviews(inbox[p][r + 1]) /\ r + 1 \in 1 .. m + 1 /\ (r + 1) + 1 = r + 2 /\ r \in 0 .. m
      BY <1>i, <2>3
    <3>2. \E a \in r + 2 .. m + 1 : Arms(inbox[p][a])
      BY <1>6, <3>1 DEF ArmedSince
    <3> QED BY <2>1, <3>1, <3>2
  <2> QED BY <2>2, <2>3 DEF ArmedSince
<1>7. ASSUME mirror'[p].state = "review"
      PROVE  image'[p] = Final(mirror'[p].sid)
  <2>1. CASE e.kind = "state"
    <3>1. Reviews(e) /\ mirror'[p].sid = e.sid /\ ~Draws(e)
      BY <1>3, <1>7, <2>1 DEF Reviews, Draws, Arms
    <3>2. image[p] = Final(e.sid)
      BY <1>m, <3>1 DEF FinalAfter
    <3> QED BY <1>3, <1>4, <3>1, <3>2
  <2>2. CASE e.kind # "state"
    <3>1. mirror[p].state = "review" /\ mirror'[p] = mirror[p] /\ image[p] = Final(mirror[p].sid)
      BY <1>3, <1>7, <1>m, <2>2
    <3>2. e.kind \notin {"shot", "final"}
      BY <1>m, <3>1 DEF ArmedSince
    <3>3. ~Draws(e)
      BY <2>2, <3>2 DEF Draws, Arms
    <3> QED BY <1>3, <1>4, <3>1, <3>3
  <2> QED BY <2>1, <2>2
<1> QED BY <1>1, <1>5, <1>6, <1>7

(* What a handler is between two of its broadcasts.                          *)
LEMMA Fields ==
  ASSUME NEW h \in Handlers, NEW e \in Events, NEW next \in Labels
  PROVE  /\ Sending(h, e, next).at = "sending" /\ Sending(h, e, next).next = next
         /\ Sending(h, e, next).event = e /\ Sending(h, e, next).unsent = websockets
         /\ Sending(h, e, next).job = h.job /\ Sending(h, e, next).total = h.total
BY DEF Sending, Handlers

LEMMA Answers ==
  /\ Free.job = "none" /\ Free.at = "free"
  /\ \A job : Asked(job).job = job /\ Asked(job).at = "sent"
BY DEF Free, Asked

LEMMA RolesStep ==
  ASSUME SingleTap, TInv, RolesOK, [Next]_vars
  PROVE  RolesOK'
<1>t. co \in [Slots -> Handlers]
  BY DEF TInv, TypeOK, Handlers
<1>n. \A h \in {Free, Asked("arm"), Asked("capture"), Asked("dismiss")} :
        h.at \notin {"shot", "composed", "failed", "sending"} \cup Shooting
  BY Answers DEF Shooting
<1>o. ASSUME NEW q \in Slots, NEW h, co' = [co EXCEPT ![q] = h], sid' = sid,
             Role(q, h)'
      PROVE  RolesOK'
  BY <1>t, <1>o DEF RolesOK, Role
<1>r. ASSUME NEW q \in Slots, NEW ok \in BOOLEAN, Respond(q, ok), sid' = sid
      PROVE  RolesOK'
  <2>1. PICK h \in {Free, Asked("arm"), Asked("capture")} :
          /\ co' = [co EXCEPT ![q] = h]
          /\ h = Asked("arm") => co[q].job = "dismiss" /\ IsTap(q)
          /\ h = Asked("capture") => co[q].job = "arm" /\ ok
    BY <1>r, Responds DEF TInv
  <2>2. h.job # "none" => Taps(q)
    BY <2>1, Answers DEF RolesOK, Role, Rounds
  <2>3. Role(q, h)'
    BY <1>n, <2>1, <2>2, Answers DEF Role, Rounds
  <2> QED BY <1>o, <1>r, <2>1, <2>3
<1>1. ASSUME NEW q \in Slots, HandlerStep(q)
      PROVE  RolesOK'
  <2>o. Role(q, co[q])
    BY DEF RolesOK
  <2>1. CASE \E w \in Sockets : Send(q, w)
    <3>1. PICK w \in Sockets : Send(q, w)
      BY <2>1
    <3>2. PICK h : h = [co[q] EXCEPT !.unsent = @ \ {w}]
      OBVIOUS
    <3>3. /\ h.job = co[q].job /\ h.at = co[q].at /\ h.next = co[q].next
          /\ h.event = co[q].event /\ h.total = co[q].total
      BY <1>t, <3>2 DEF Handlers
    <3>4. co' = [co EXCEPT ![q] = h] /\ sid' = sid
      BY <3>1, <3>2 DEF Send, server
    <3>5. Role(q, h)'
      BY <2>o, <3>3, <3>4 DEF Role, Announces, Arms, Reviews, Finished
    <3> QED BY <1>o, <3>4, <3>5
  <2>2. CASE AllSent(q)
    <3>1. PICK h : h = [co[q] EXCEPT !.at = co[q].next, !.next = "free",
                                     !.unsent = {}, !.size = 0, !.event = NoEvent]
      OBVIOUS
    <3>2. h.job = co[q].job /\ h.at = co[q].next
      BY <1>t, <3>1 DEF Handlers
    <3>3. co' = [co EXCEPT ![q] = h] /\ sid' = sid
      BY <2>2, <3>1 DEF AllSent, server
    <3>4. At(q, "sending") /\ co[q].next # "sending"
      BY <2>2 DEF AllSent, TInv, BusOK
    <3>5. Role(q, h)'
      BY <2>o, <3>2, <3>4 DEF Role, Announces, At, Shooting
    <3> QED BY <1>o, <3>3, <3>5
  <2>3. CASE SetChanged(q)
    BY <1>r, <2>3 DEF SetChanged
  <2>4. CASE Responding(q)
    BY <1>r, <2>4 DEF Responding, server
  <2>5. CASE Speaking(q)
    <3>1. PICK h \in Handlers, e \in Events, next \in Labels \ {"sending"} :
            /\ Broadcast(q, h, e, next)
            /\ h.job = co[q].job
            /\ Announces(Sending(h, e, next))
            /\ h.job \in Rounds => e.sid = sid'
      BY <2>5 DEF Speaking
    <3>2. co' = [co EXCEPT ![q] = Sending(h, e, next)]
      BY <3>1 DEF Broadcast, Sending
    <3>3. PICK g : g = Sending(h, e, next)
      OBVIOUS
    <3>4. g.at = "sending" /\ g.event = e /\ g.job = co[q].job
      BY <3>1, <3>3, Fields
    <3>5. Role(q, g)'
      BY <2>o, <3>1, <3>3, <3>4 DEF Role, Shooting
    <3>6. ASSUME NEW r \in Slots, r # q
          PROVE  Role(r, co[r])'
      <4>1. Role(r, co[r]) /\ co'[r] = co[r]
        BY <1>t, <3>2, <3>6 DEF RolesOK
      <4>2. co[r].job \in Rounds => sid' = sid
        BY <2>5, <2>o, <3>6, <4>1 DEF SingleTap, Speaking, Role, Rounds
      <4> QED BY <4>1, <4>2 DEF Role
    <3>7. co'[q] = g
      BY <1>t, <3>2, <3>3
    <3> QED BY <3>5, <3>6, <3>7 DEF RolesOK, Role
  <2> QED BY <1>1, <2>1, <2>2, <2>3, <2>4, <2>5, SpeakKinds
<1>2. ASSUME NEW q \in Slots, NEW job \in {"dismiss", "arm"}, Request(q, job), sid' = sid,
             Taps(q) \/ (~IsTap(q) /\ job = "dismiss")
      PROVE  RolesOK'
  <2>1. co' = [co EXCEPT ![q] = Asked(job)]
    BY <1>2 DEF Request, Asked
  <2>2. Role(q, Asked(job))'
    BY <1>2, <1>n, Answers DEF Role, Rounds
  <2>3. PICK h : h = Asked(job)
    OBVIOUS
  <2> QED BY <1>2, <1>o, <2>1, <2>2, <2>3
<1>3. ASSUME NEW p \in Pages, TimerFires(p)
      PROVE  RolesOK'
  <2>1. <<p, "timer">> \in Slots /\ ~IsTap(<<p, "timer">>)
    BY DEF Slots, IsTap
  <2> QED BY <1>2, <1>3, <2>1 DEF TimerFires, server
<1>4. ASSUME NEW p \in Pages, NEW q \in Slots, Tap(p, q)
      PROVE  RolesOK'
  BY <1>2, <1>4 DEF Tap, Taps, server
<1>5. ASSUME NEW p \in Pages, Reload(p)
      PROVE  RolesOK'
  <2>1. \A q \in Slots : /\ co'[q].job = co[q].job /\ co'[q].at = co[q].at
                         /\ co'[q].next = co[q].next /\ co'[q].event = co[q].event
                         /\ co'[q].total = co[q].total
    <3>1. \A h \in Handlers :
            LET g == [h EXCEPT !.heard = FALSE]
            IN  g.job = h.job /\ g.at = h.at /\ g.next = h.next /\ g.event = h.event
                /\ g.total = h.total
      BY DEF Handlers
    <3> QED BY <1>t, <1>5, <3>1 DEF Reload
  <2>2. sid' = sid
    BY <1>5 DEF Reload, server
  <2> QED BY <2>1, <2>2 DEF RolesOK, Role, Announces, Arms, Reviews, Finished
<1>6. ASSUME UNCHANGED <<co, sid>>
      PROVE  RolesOK'
  BY <1>6 DEF RolesOK, Role
<1>7. CASE UNCHANGED vars
  BY <1>6, <1>7 DEF vars, server
<1>8. ASSUME NEW p \in Pages, Receive(p) \/ Touch(p) \/ Connect(p)
      PROVE  RolesOK'
  BY <1>6, <1>8 DEF Receive, Touch, Connect, server
<1>9. ASSUME NEW w \in Sockets, Unregister(w)
      PROVE  RolesOK'
  BY <1>6, <1>9 DEF Unregister, server
<1> QED BY <1>1, <1>3, <1>4, <1>5, <1>7, <1>8, <1>9 DEF Next, PageStep

(* For a page that hears nothing new, only what handlers do counts.          *)
LEMMA Unheard ==
  ASSUME NEW p, inbox'[p] = inbox[p], image'[p] = image[p], mirror'[p] = mirror[p]
  PROVE  /\ Mail(p) => Mail(p)'
         /\ \A h : Round(p, h) /\ (PastPicture(p, h) => sid' = sid) => Round(p, h)'
<1>1. \A n, s : /\ FinalAfter(p, s, n)' <=> FinalAfter(p, s, n)
                /\ ArmedSince(p, n)' <=> ArmedSince(p, n)
  BY SameMail
<1>2. Mail(p) => Mail(p)'
  BY <1>1 DEF Mail
<1>3. ASSUME NEW h, Round(p, h), PastPicture(p, h) => sid' = sid
      PROVE  Round(p, h)'
  BY <1>1, <1>3 DEF Round
<1> QED BY <1>2, <1>3

(* Handlers that are not in a round of arm() and capture() promise nothing.  *)
LEMMA OutOfRound ==
  ASSUME NEW q \in Slots, NEW h \in Handlers, Role(q, h), h.job \notin Rounds, NEW p
  PROVE  ~PastArm(p, h) /\ ~PastPicture(p, h)
<1>1. h.job = "none" \/ h.job = "dismiss"
  BY DEF Handlers, Jobs, Rounds
<1>2. ~PastArm(p, h)
  BY DEF PastArm, Rounds
<1>3. ~Finished(h, h.at)
  BY DEF Role, Finished, Rounds
<1>4. h.at = "sending" => h.event.state = "idle" /\ h.event.kind = "state"
  BY <1>1 DEF Role, Announces
<1>5. ~PastPicture(p, h)
  BY <1>3, <1>4 DEF PastPicture, Untold, Through, Reviews, Role, Announces
<1> QED BY <1>2, <1>5

(* Only one handler is in a round; whatever the others broadcast dismisses.  *)
LEMMA OneRound ==
  ASSUME SingleTap, co \in [Slots -> Handlers], RolesOK,
         NEW q \in Slots, NEW r \in Slots, r # q
  PROVE  \/ co[r].job \notin Rounds
         \/ co[q].job \notin Rounds /\ (At(q, "sending") =>
              /\ ~Draws(co[q].event) /\ ~Reviews(co[q].event))
<1>1. Role(q, co[q]) /\ Role(r, co[r])
  BY DEF RolesOK
<1>2. co[q].job \in Rounds /\ co[r].job \in Rounds => FALSE
  BY <1>1 DEF SingleTap, Role
<1>3. At(q, "sending") /\ co[q].job \notin Rounds => ~Draws(co[q].event) /\ ~Reviews(co[q].event)
  <2>1. co[q].job \notin Rounds => co[q].job = "none" \/ co[q].job = "dismiss"
    BY DEF Handlers, Jobs, Rounds
  <2> QED BY <1>1, <2>1 DEF Role, At, Announces, Draws, Reviews, Arms
<1> QED BY <1>2, <1>3

LEMMA SendRound ==
  ASSUME SingleTap, TInv, RolesOK, NEW p \in Steady, Mail(p), RoundOK,
         NEW q \in Slots, NEW w \in Sockets, Send(q, w)
  PROVE  Mail(p)' /\ \A r \in Slots : Round(p, co[r])'
<1> DEFINE e == co[q].event
<1>t. /\ co \in [Slots -> Handlers] /\ p \in Pages
      /\ inbox[p] \in Seq(Events) /\ sock[p] = 1 /\ e \in Events
  BY DEF TInv, TypeOK, WiresOK, Steady, Handlers
<1>u. sid' = sid /\ mirror' = mirror /\ image' = image
  BY DEF Send, server, screen
<1>c. /\ \A r \in Slots : r # q => co'[r] = co[r]
      /\ co'[q].unsent = co[q].unsent \ {w} /\ co'[q].event = e
      /\ co'[q].job = co[q].job /\ co'[q].at = co[q].at /\ co'[q].next = co[q].next
      /\ co'[q].total = co[q].total /\ co[q].at = "sending"
  BY <1>t DEF Send, Handlers, At
<1>o. Role(q, co[q]) /\ Announces(co[q])
  BY <1>c DEF RolesOK, Role
<1>1. CASE w # Wire(p)
  <2>1. inbox'[p] = inbox[p]
    <3>1. CASE w[1] = p
      <4>1. w[2] # 1
        BY <1>1, <3>1 DEF Wire, Sockets
      <4> QED BY <1>t, <3>1, <4>1 DEF Send, Deliver
    <3>2. CASE w[1] # p
      BY <1>t, <3>2, Delivers DEF Send, TInv, Sockets
    <3> QED BY <3>1, <3>2
  <2>2. Mail(p)' /\ \A h : Round(p, h) => Round(p, h)'
    BY <1>u, <2>1, Unheard
  <2>3. Round(p, co'[q]) <=> Round(p, co[q])
    BY <1>1, <1>c DEF Round, PastArm, PastPicture, Finished, Untold, Through
  <2>4. \A r \in Slots : Round(p, co'[r])
    BY <1>c, <2>3 DEF RoundOK
  <2>5. ASSUME NEW r \in Slots, NEW h, h = co'[r]
        PROVE  Round(p, co[r])'
    <3>1. Round(p, h)'
      BY <2>2, <2>4, <2>5
    <3> QED BY <2>5, <3>1 DEF Round
  <2> QED BY <2>2, <2>5
<1>2. CASE w = Wire(p)
  <2>n. PICK n \in Nat : n = Len(inbox[p])
    BY <1>t
  <2>1. /\ Len(inbox'[p]) = n + 1
        /\ \A i \in 1 .. n : inbox'[p][i] = inbox[p][i]
        /\ inbox'[p][n + 1] = e
    <3>1. w[1] = p /\ w[2] = 1
      BY <1>2 DEF Wire
    <3>2. inbox'[p] = Append(inbox[p], e)
      BY <1>t, <3>1, Delivers DEF Send, TInv
    <3> QED BY <1>t, <2>n, <3>2, AppendProperties
  <2> PICK v : v = e
    OBVIOUS
  <2>2. /\ \A m \in 0 .. n : \A s : FinalAfter(p, s, m) => FinalAfter(p, s, m)'
        /\ \A m \in 0 .. n : ArmedSince(p, m) => ArmedSince(p, m)'
        /\ \A s : FinalAfter(p, s, n) /\ ~Draws(v) => FinalAfter(p, s, n + 1)'
        /\ v.kind = "final" => FinalAfter(p, v.sid, n + 1)'
        /\ ArmedSince(p, n) /\ ~Reviews(v) => ArmedSince(p, n + 1)'
        /\ Arms(v) => ArmedSince(p, n + 1)'
    <3>1. inbox'[p][n + 1] = v /\ image'[p] = image[p] /\ mirror'[p] = mirror[p]
      BY <1>u, <2>1
    <3> HIDE DEF e
    <3> QED BY <2>1, <3>1, MoreMail
  <2>o. Untold(p, co[q]) /\ ~Untold(p, co'[q]) /\ Through(p, co'[q]) /\ ~Through(p, co[q])
    BY <1>2, <1>c DEF Untold, Through, Send
  <2>r. Round(p, co[q])
    BY DEF RoundOK
  <2>3. Reviews(v) => co[q].job = "capture" /\ FinalAfter(p, v.sid, n)
    <3>1. ASSUME Reviews(v)
          PROVE  co[q].job = "capture" /\ v.sid = sid
      BY <1>t, <1>o, <1>c, <3>1 DEF Announces, Reviews, Arms, Role, Rounds, Handlers, Jobs
    <3> QED BY <2>n, <2>o, <2>r, <3>1 DEF Round, PastPicture
  <2>4. v.kind \in {"shot", "final"} => ArmedSince(p, n) /\ v.sid = sid
    BY <1>o, <1>c, <2>n, <2>r DEF Announces, Round, PastArm, Role, Rounds
  <2>5. Mail(p)'
    <3>1. mirror'[p].state = "review" => image'[p] = Final(mirror'[p].sid)
      BY <1>u DEF Mail
    <3>2. ASSUME NEW x \in 1 .. n
          PROVE  /\ Reviews(inbox'[p][x]) => FinalAfter(p, inbox[p][x].sid, x - 1)'
                 /\ inbox'[p][x].kind \in {"shot", "final"} => ArmedSince(p, x - 1)'
      <4>1. x - 1 \in 0 .. n /\ inbox'[p][x] = inbox[p][x]
        BY <2>1
      <4>2. /\ Reviews(inbox[p][x]) => FinalAfter(p, inbox[p][x].sid, x - 1)
            /\ inbox[p][x].kind \in {"shot", "final"} => ArmedSince(p, x - 1)
        BY <2>n DEF Mail
      <4>3. PICK s : s = inbox[p][x].sid
        OBVIOUS
      <4>4. Reviews(inbox'[p][x]) => FinalAfter(p, s, x - 1)'
        BY <2>2, <4>1, <4>2, <4>3
      <4>5. Reviews(inbox'[p][x]) => FinalAfter(p, inbox[p][x].sid, x - 1)'
        BY <4>1, <4>3, <4>4 DEF FinalAfter
      <4> QED BY <2>2, <4>1, <4>2, <4>5
    <3>3. /\ Reviews(inbox'[p][n + 1]) => FinalAfter(p, inbox[p][n + 1].sid, (n + 1) - 1)'
          /\ inbox'[p][n + 1].kind \in {"shot", "final"} => ArmedSince(p, (n + 1) - 1)'
      <4>1. (n + 1) - 1 = n /\ n \in 0 .. n
        OBVIOUS
      <4>2. PICK s : s = v.sid
        OBVIOUS
      <4>3. Reviews(v) => FinalAfter(p, s, n)'
        BY <2>2, <2>3, <4>1, <4>2
      <4>4. inbox'[p][n + 1] = v
        BY <2>1
      <4>5. Reviews(v) => FinalAfter(p, inbox[p][n + 1].sid, n)'
        BY <4>2, <4>3, <4>4 DEF FinalAfter
      <4>6. v.kind \in {"shot", "final"} => ArmedSince(p, n)'
        BY <2>2, <2>4, <4>1
      <4> QED BY <4>1, <4>4, <4>5, <4>6
    <3>4. \A x \in 1 .. Len(inbox'[p]) : x \in 1 .. n \/ x = n + 1
      BY <2>1
    <3> QED BY <3>1, <3>2, <3>3, <3>4 DEF Mail
  <2>6. Round(p, co[q])'
    <3>1. PastArm(p, co'[q]) => ArmedSince(p, n + 1)'
      <4>1. CASE Arms(v)
        BY <2>2, <4>1
      <4>2. CASE ~Arms(v) /\ PastArm(p, co'[q])
        <5>1. co[q].job = "capture" /\ co[q].next # "over"
          BY <1>c, <1>o, <4>2 DEF PastArm, Announces, Shooting
        <5>2. ArmedSince(p, n) /\ ~Reviews(v)
          BY <1>c, <1>o, <2>n, <2>r, <5>1 DEF PastArm, Round, Announces
        <5> QED BY <2>2, <5>2
      <4> QED BY <4>1, <4>2
    <3>2. PastPicture(p, co'[q]) => v.kind = "final" /\ v.sid = sid'
      <4>1. ASSUME PastPicture(p, co'[q])
            PROVE  v.kind = "final"
        BY <1>c, <1>o, <2>o, <4>1 DEF PastPicture, Finished, Announces
      <4> QED BY <1>u, <2>4, <4>1
    <3>3. v.kind = "final" /\ v.sid = sid' => FinalAfter(p, sid, n + 1)'
      BY <2>2 DEF FinalAfter
    <3> QED BY <2>1, <3>1, <3>2, <3>3 DEF Round
  <2>7. ASSUME NEW r \in Slots, r # q
        PROVE  Round(p, co[r])'
    <3>1. Role(r, co[r]) /\ Round(p, co[r]) /\ co'[r] = co[r]
      BY <1>c, <2>7 DEF RolesOK, RoundOK
    <3>2. CASE co[r].job \notin Rounds
      <4>1. ~PastArm(p, co[r]) /\ ~PastPicture(p, co[r])
        BY <1>t, <3>1, <3>2, OutOfRound
      <4> QED BY <3>1, <4>1 DEF Round
    <3>3. CASE co[r].job \in Rounds
      <4>1. ~Draws(v) /\ ~Reviews(v)
        BY <1>c, <1>t, <2>7, <3>3, OneRound DEF At
      <4>2. PastPicture(p, co[r]) => FinalAfter(p, sid, n + 1)'
        <5>1. PICK s : s = sid
          OBVIOUS
        <5>2. PastPicture(p, co[r]) => FinalAfter(p, s, n + 1)'
          BY <2>2, <2>n, <3>1, <4>1, <5>1 DEF Round
        <5> QED BY <1>u, <5>1, <5>2 DEF FinalAfter
      <4>3. PastArm(p, co[r]) => ArmedSince(p, n + 1)'
        BY <2>2, <2>n, <3>1, <4>1 DEF Round
      <4> QED BY <2>1, <3>1, <4>2, <4>3 DEF Round
    <3> QED BY <3>2, <3>3
  <2> QED BY <2>5, <2>6, <2>7
<1> QED BY <1>1, <1>2

(* A handler that moves, while no page hears or is sent anything.            *)
LEMMA MovesRound ==
  ASSUME SingleTap, co \in [Slots -> Handlers], RolesOK, MailOK, RoundOK,
         UNCHANGED <<inbox, image, mirror>>,
         NEW q \in Slots, NEW h \in Handlers, co' = [co EXCEPT ![q] = h],
         sid' # sid => co[q].job = "arm",
         \A p \in Steady :
           /\ PastArm(p, h) => ArmedSince(p, Len(inbox[p]))
           /\ PastPicture(p, h) => sid' = sid /\ FinalAfter(p, sid, Len(inbox[p]))
  PROVE  MailOK' /\ RoundOK'
<1>1. MailOK'
  BY Unheard DEF MailOK
<1>2. ASSUME NEW p \in Steady
      PROVE  Round(p, co[q])'
  <2>1. Round(p, h)'
    <3>1. PastArm(p, h) => ArmedSince(p, Len(inbox[p]))'
      BY DEF ArmedSince
    <3>2. PastPicture(p, h) => FinalAfter(p, sid, Len(inbox[p]))'
      BY DEF FinalAfter
    <3> QED BY <3>1, <3>2 DEF Round
  <2>2. co'[q] = h
    OBVIOUS
  <2> QED BY <2>1, <2>2 DEF Round
<1>3. ASSUME NEW p \in Steady, NEW r \in Slots, r # q
      PROVE  Round(p, co[r])'
  <2>1. PICK g \in Handlers : g = co[r] /\ co'[r] = g
    BY <1>3
  <2>2. Role(r, g) /\ Round(p, g)
    BY <2>1 DEF RolesOK, RoundOK
  <2>3. PastPicture(p, g) => sid' = sid
    <3>1. CASE g.job \notin Rounds
      BY <2>2, <3>1, OutOfRound
    <3>2. CASE g.job \in Rounds
      BY <1>3, <2>1, <3>2, OneRound DEF Rounds
    <3> QED BY <3>1, <3>2
  <2>4. Round(p, g)'
    BY <2>2, <2>3, Unheard
  <2> QED BY <2>1, <2>4 DEF Round
<1> QED BY <1>1, <1>2, <1>3 DEF RoundOK

(* A step of a handler.                                                      *)
LEMMA HandlerRound ==
  ASSUME SingleTap, TInv, RolesOK, MailOK, RoundOK, NEW q \in Slots, HandlerStep(q)
  PROVE  MailOK' /\ RoundOK'
<1>t. /\ co \in [Slots -> Handlers] /\ co[q] \in Handlers
      /\ \A p \in Steady : Wire(p) \in websockets
  BY DEF TInv, TypeOK, Handlers, WiresOK
<1>o. Role(q, co[q]) /\ \A p \in Steady : Round(p, co[q])
  BY DEF RolesOK, RoundOK
<1>r. ASSUME NEW ok \in BOOLEAN, Respond(q, ok), ok => At(q, "over"), sid' = sid,
             UNCHANGED <<inbox, image, mirror>>
      PROVE  MailOK' /\ RoundOK'
  <2>1. PICK h \in {Free, Asked("arm"), Asked("capture")} :
          /\ co' = [co EXCEPT ![q] = h]
          /\ h = Asked("capture") => co[q].job = "arm" /\ ok
    BY <1>r, Responds DEF TInv
  <2>2. h \in Handlers /\ h.at \in {"free", "sent"}
    BY ResponseTypes
  <2>3. ASSUME NEW p \in Steady
        PROVE  /\ PastArm(p, h) => ArmedSince(p, Len(inbox[p]))
               /\ ~PastPicture(p, h)
    <3>1. ~PastPicture(p, h)
      BY <2>2 DEF PastPicture, Finished, Untold, Through
    <3>2. PastArm(p, h) => h = Asked("capture")
      BY <2>1, <2>2, Answers DEF PastArm, Through
    <3>3. h = Asked("capture") => PastArm(p, co[q])
      BY <1>r, <2>1 DEF PastArm, At
    <3> QED BY <1>o, <3>1, <3>2, <3>3 DEF Round
  <2> QED BY <1>r, <1>t, <2>1, <2>2, <2>3, MovesRound
<1>1. CASE \E w \in Sockets : Send(q, w)
  BY <1>1, SendRound DEF MailOK, RoundOK
<1>2. CASE AllSent(q)
  <2>1. PICK h : h = [co[q] EXCEPT !.at = co[q].next, !.next = "free",
                                   !.unsent = {}, !.size = 0, !.event = NoEvent]
    OBVIOUS
  <2>2. h \in Handlers /\ h.at = co[q].next /\ h.job = co[q].job /\ h.total = co[q].total
    BY <1>t, <2>1, HandlerTypes DEF Free, Handlers, Labels
  <2>3. co[q].at = "sending" /\ co[q].next # "sending"
    BY <1>2 DEF AllSent, At, TInv, BusOK
  <2>4. ASSUME NEW p \in Steady
        PROVE  /\ PastArm(p, h) => ArmedSince(p, Len(inbox[p]))
               /\ PastPicture(p, h) => FinalAfter(p, sid, Len(inbox[p]))
    <3>1. Through(p, co[q]) /\ ~Through(p, h) /\ ~Untold(p, h)
      BY <1>2, <1>t, <2>2, <2>3 DEF AllSent, Through, Untold
    <3>2. PastArm(p, h) => PastArm(p, co[q])
      BY <2>2, <2>3, <3>1 DEF PastArm, Shooting
    <3>3. PastPicture(p, h) => PastPicture(p, co[q])
      BY <2>2, <2>3, <3>1 DEF PastPicture, Finished
    <3> QED BY <1>o, <3>2, <3>3 DEF Round
  <2>5. co' = [co EXCEPT ![q] = h] /\ UNCHANGED <<sid, inbox, image, mirror>>
    BY <1>2, <2>1 DEF AllSent, server, wires, screen
  <2> QED BY <1>t, <2>2, <2>4, <2>5, MovesRound
<1>3. CASE SetChanged(q)
  BY <1>3, <1>r DEF SetChanged, wires, screen
<1>4. CASE Responding(q)
  BY <1>4, <1>r DEF Responding, server, wires, screen
<1>5. CASE Speaking(q)
  <2>1. PICK g \in Handlers, e \in Events, next \in Labels \ {"sending"} :
          /\ Broadcast(q, g, e, next)
          /\ g.job = co[q].job
          /\ Announces(Sending(g, e, next))
          /\ Reviews(e) => Finished(co[q], co[q].at)
          /\ next # "over" => co[q].at \in {"sent", "shot"} \cup Shooting
    BY <1>5 DEF Speaking
  <2>2. PICK h \in Handlers : h = Sending(g, e, next)
    BY <2>1, SendingType DEF TInv
  <2>3. /\ h.at = "sending" /\ h.event = e /\ h.next = next /\ h.unsent = websockets
        /\ h.job = co[q].job /\ Announces(h)
    BY <2>1, <2>2, Fields
  <2>4. co' = [co EXCEPT ![q] = h]
    BY <2>1, <2>2 DEF Broadcast, Sending
  <2>5. ASSUME NEW p \in Steady
        PROVE  /\ PastArm(p, h) => ArmedSince(p, Len(inbox[p]))
               /\ PastPicture(p, h) => sid' = sid /\ FinalAfter(p, sid, Len(inbox[p]))
    <3>1. ~Through(p, h)
      BY <1>t, <2>3 DEF Through
    <3>2. PastArm(p, h) => PastArm(p, co[q])
      BY <2>1, <2>3, <3>1 DEF PastArm, Shooting
    <3>3. PastPicture(p, h) => Reviews(e)
      BY <2>3, <3>1 DEF PastPicture, Finished
    <3>4. Reviews(e) => PastPicture(p, co[q]) /\ co[q].job # "arm"
      BY <1>o, <2>1, <2>3 DEF PastPicture, Finished, Role
    <3>5. Reviews(e) => sid' = sid
      BY <1>5, <3>4 DEF Speaking
    <3> QED BY <1>o, <3>2, <3>3, <3>4, <3>5 DEF Round
  <2>6. UNCHANGED <<inbox, image, mirror>> /\ (sid' # sid => co[q].job = "arm")
    BY <1>5 DEF Speaking, wires, screen
  <2> QED BY <1>t, <2>4, <2>5, <2>6, MovesRound
<1> QED BY <1>1, <1>2, <1>3, <1>4, <1>5, SpeakKinds

(* A page that hears the first event on its way.                             *)
LEMMA ReceiveRound ==
  ASSUME TypeOK, NEW p \in Steady, MailOK, RoundOK, Receive(p)
  PROVE  Mail(p)' /\ \A q \in Slots : Round(p, co[q])'
<1>t. p \in Pages /\ inbox[p] \in Seq(Events) /\ inbox[p] # <<>>
  BY DEF TypeOK, Steady, Receive
<1>n. PICK n \in Nat : n + 1 = Len(inbox[p])
  <2>1. Len(inbox[p]) \in Nat /\ Len(inbox[p]) # 0
    BY <1>t
  <2> QED BY <2>1
<1>1. /\ \A m \in 0 .. n : \A s : FinalAfter(p, s, m + 1) => FinalAfter(p, s, m)'
      /\ \A m \in 0 .. n : ArmedSince(p, m + 1) => ArmedSince(p, m)'
      /\ mirror'[p].state = "review" => image'[p] = Final(mirror'[p].sid)
      /\ Len(inbox'[p]) = n
      /\ \A i \in 1 .. n : inbox'[p][i] = inbox[p][i + 1]
  BY <1>n, LessMail
<1>2. ASSUME NEW x \in 1 .. n
      PROVE  /\ Reviews(inbox'[p][x]) => FinalAfter(p, inbox[p][x].sid, x - 1)'
             /\ inbox'[p][x].kind \in {"shot", "final"} => ArmedSince(p, x - 1)'
  <2>1. x + 1 \in 1 .. Len(inbox[p]) /\ (x + 1) - 1 = (x - 1) + 1 /\ x - 1 \in 0 .. n
    BY <1>n
  <2>2. PICK v : v = inbox[p][x + 1] /\ inbox'[p][x] = v
    BY <1>1
  <2>3. /\ Reviews(v) => FinalAfter(p, v.sid, (x - 1) + 1)
        /\ v.kind \in {"shot", "final"} => ArmedSince(p, (x - 1) + 1)
    BY <2>1, <2>2 DEF MailOK, Mail
  <2>4. PICK s : s = v.sid
    OBVIOUS
  <2>5. Reviews(v) => FinalAfter(p, s, x - 1)'
    BY <1>1, <2>1, <2>3, <2>4
  <2>6. Reviews(v) => FinalAfter(p, inbox[p][x].sid, x - 1)'
    BY <2>2, <2>4, <2>5 DEF FinalAfter
  <2>7. v.kind \in {"shot", "final"} => ArmedSince(p, x - 1)'
    BY <1>1, <2>1, <2>3
  <2> QED BY <2>2, <2>6, <2>7
<1>3. Mail(p)'
  BY <1>1, <1>2 DEF Mail
<1>4. ASSUME NEW q \in Slots
      PROVE  Round(p, co[q])'
  <2>1. Round(p, co[q]) /\ n \in 0 .. n
    BY DEF RoundOK
  <2>2. PICK s : s = sid
    OBVIOUS
  <2>3. PastPicture(p, co[q]) => FinalAfter(p, s, n)'
    BY <1>n, <1>1, <2>1, <2>2 DEF Round
  <2>4. PastArm(p, co[q]) => ArmedSince(p, n)'
    BY <1>n, <1>1, <2>1 DEF Round
  <2>5. co'[q] = co[q] /\ sid' = sid
    BY DEF Receive, server
  <2>6. PastPicture(p, co[q]) => FinalAfter(p, sid, n)'
    BY <2>2, <2>3, <2>5 DEF FinalAfter
  <2> QED BY <1>1, <2>4, <2>5, <2>6 DEF Round
<1> QED BY <1>3, <1>4

LEMMA ReviewInit == Init => ReviewInv
<1> SUFFICES ASSUME Init PROVE ReviewInv
  OBVIOUS
<1>1. \A q \in Slots : co[q] = Free
  BY DEF Init
<1>2. \A q \in Slots : Role(q, Free)
  BY Answers DEF Role, Rounds, Shooting
<1>3. \A p : ~PastArm(p, Free) /\ ~PastPicture(p, Free)
  BY Answers DEF PastArm, PastPicture, Finished, Untold, Through
<1>4. ASSUME NEW p \in Steady
      PROVE  Mail(p)
  <2>1. Len(inbox[p]) = 0 /\ mirror[p].state = "idle"
    BY DEF Init, Steady, Blank
  <2> QED BY <2>1 DEF Mail
<1>5. RoundOK
  BY <1>1, <1>3 DEF RoundOK, Round
<1> QED BY <1>1, <1>2, <1>4, <1>5 DEF ReviewInv, RolesOK, MailOK

LEMMA ReviewStep ==
  ASSUME SingleTap, TInv, ReviewInv, [Next]_vars
  PROVE  ReviewInv'
<1>t. TypeOK /\ co \in [Slots -> Handlers] /\ RolesOK /\ MailOK /\ RoundOK
  BY DEF TInv, TypeOK, Handlers, ReviewInv
<1>0. RolesOK'
  BY <1>t, RolesStep
<1>h. ASSUME NEW p \in Steady, inbox'[p] = inbox[p], image'[p] = image[p],
             mirror'[p] = mirror[p], UNCHANGED <<co, sid>>
      PROVE  Mail(p)' /\ \A q \in Slots : Round(p, co[q])'
  <2>1. Mail(p)'
    BY <1>t, <1>h, Unheard DEF MailOK
  <2>2. ASSUME NEW q \in Slots
        PROVE  Round(p, co[q])'
    <3>1. PICK g : g = co[q] /\ Round(p, g)
      BY <1>t DEF RoundOK
    <3>2. Round(p, g)'
      BY <1>h, <3>1, Unheard
    <3>3. co'[q] = g
      BY <1>h, <3>1
    <3> QED BY <3>2, <3>3 DEF Round
  <2> QED BY <2>1, <2>2
<1>u. ASSUME UNCHANGED <<co, sid, inbox, image, mirror>>
      PROVE  MailOK' /\ RoundOK'
  BY <1>h, <1>u DEF MailOK, RoundOK
<1>q. ASSUME NEW q \in Slots, NEW job \in Jobs \ {"none"}, Request(q, job),
             UNCHANGED <<sid, inbox, image, mirror>>, job # "capture"
      PROVE  MailOK' /\ RoundOK'
  <2>1. PICK h \in Handlers : h = Asked(job)
    BY HandlerTypes
  <2>2. h.at = "sent" /\ h.job # "capture"
    BY <1>q, <2>1, Answers
  <2>3. \A p \in Steady : ~PastArm(p, h) /\ ~PastPicture(p, h)
    BY <2>2 DEF PastArm, PastPicture, Finished, Untold, Through
  <2>4. co' = [co EXCEPT ![q] = h]
    BY <1>q, <2>1 DEF Request, Asked
  <2> QED BY <1>q, <1>t, <2>3, <2>4, MovesRound
<1>1. ASSUME NEW q \in Slots, HandlerStep(q)
      PROVE  MailOK' /\ RoundOK'
  BY <1>1, <1>t, HandlerRound
<1>2. ASSUME NEW p \in Pages, Receive(p)
      PROVE  MailOK' /\ RoundOK'
  <2>1. ASSUME NEW r \in Steady, r # p
        PROVE  Mail(r)' /\ \A q \in Slots : Round(r, co[q])'
    <3>1. Show(p, Head(inbox[p])) /\ UNCHANGED <<co, sid>> /\ inbox'[r] = inbox[r]
      BY <1>2, <2>1, <1>t DEF Receive, server, TypeOK, Steady
    <3>2. image'[r] = image[r] /\ mirror'[r] = mirror[r]
      BY <2>1, <3>1, <1>t DEF Show, TypeOK, Steady
    <3> QED BY <1>h, <3>1, <3>2
  <2>2. p \in Steady => Mail(p)' /\ \A q \in Slots : Round(p, co[q])'
    BY <1>2, <1>t, ReceiveRound
  <2> QED BY <2>1, <2>2 DEF MailOK, RoundOK
<1>3. ASSUME NEW p \in Pages, TimerFires(p)
      PROVE  MailOK' /\ RoundOK'
  <2>1. <<p, "timer">> \in Slots
    BY DEF Slots
  <2> QED BY <1>3, <1>q, <2>1 DEF TimerFires, server, wires, Jobs
<1>4. ASSUME NEW p \in Pages, NEW q \in Slots, Tap(p, q)
      PROVE  MailOK' /\ RoundOK'
  BY <1>4, <1>q DEF Tap, server, wires, Jobs
<1>5. ASSUME NEW r \in Pages, Reload(r)
      PROVE  MailOK' /\ RoundOK'
  <2>1. \A q \in Slots : /\ co'[q].job = co[q].job /\ co'[q].at = co[q].at
                         /\ co'[q].next = co[q].next /\ co'[q].event = co[q].event
                         /\ co'[q].total = co[q].total /\ co'[q].unsent = co[q].unsent
    <3>1. \A h \in Handlers :
            LET g == [h EXCEPT !.heard = FALSE]
            IN  g.job = h.job /\ g.at = h.at /\ g.next = h.next /\ g.event = h.event
                /\ g.total = h.total /\ g.unsent = h.unsent
      BY DEF Handlers
    <3> QED BY <1>t, <1>5, <3>1 DEF Reload
  <2>2. ASSUME NEW p \in Steady
        PROVE  /\ inbox'[p] = inbox[p] /\ image'[p] = image[p] /\ mirror'[p] = mirror[p]
               /\ sid' = sid
    BY <1>5, <1>t DEF Reload, Steady, TypeOK, server
  <2>3. ASSUME NEW p \in Steady, NEW q \in Slots
        PROVE  Round(p, co[q])'
    <3>1. PICK g : g = co'[q]
      OBVIOUS
    <3>2. Round(p, co[q])
      BY <1>t DEF RoundOK
    <3>3. Round(p, g)
      BY <2>1, <3>1, <3>2 DEF Round, PastArm, PastPicture, Finished, Untold, Through
    <3>4. Round(p, g)'
      BY <2>2, <3>3, Unheard
    <3> QED BY <3>1, <3>4 DEF Round
  <2>4. ASSUME NEW p \in Steady
        PROVE  Mail(p)'
    BY <1>t, <2>2, Unheard DEF MailOK
  <2> QED BY <2>3, <2>4 DEF MailOK, RoundOK
<1>6. ASSUME NEW p \in Pages, Touch(p) \/ Connect(p)
      PROVE  MailOK' /\ RoundOK'
  BY <1>6, <1>u DEF Touch, Connect, server, wires, screen
<1>7. ASSUME NEW w \in Sockets, Unregister(w)
      PROVE  MailOK' /\ RoundOK'
  BY <1>7, <1>u DEF Unregister, server, wires, screen
<1>8. ASSUME UNCHANGED vars
      PROVE  MailOK' /\ RoundOK'
  BY <1>8, <1>u DEF vars, server, wires, screen
<1>9. MailOK' /\ RoundOK'
  BY <1>1, <1>2, <1>3, <1>4, <1>5, <1>6, <1>7, <1>8 DEF Next, PageStep
<1> QED BY <1>0, <1>9 DEF ReviewInv

(* Where one guest taps at a time, a page whose connection holds shows in    *)
(* the review the finished picture of the session it reviews, for any pages  *)
(* that are loaded anew, idle timers that fire, cut broadcasts and failures: *)
(* capture() broadcasts the picture before Review, and arm() clears the page *)
(* (session.py:192-196, 282-287, Kiosk.svelte:69-109, 204-216).              *)
THEOREM ReviewsFinal ==
  ASSUME SingleTap
  PROVE  Spec => []ReviewShowsFinal
<1> DEFINE Inv == TInv /\ ReviewInv
<1>1. Init => Inv
  BY TypeInit, ReviewInit
<1>2. Inv /\ [Next]_vars => Inv'
  BY TypeStep, ReviewStep
<1>3. Inv => ReviewShowsFinal
  BY DEF ReviewInv, MailOK, Mail, Final, ReviewShowsFinal, Steady
<1> QED BY <1>1, <1>2, <1>3, PTL DEF Spec

(* Such a page shows the truth: the server's state once it was told all, and *)
(* the finished picture in the review (Kiosk.svelte:4-6).                    *)
THEOREM PageFollows ==
  ASSUME SingleTap
  PROVE  Spec => []PageFollowsServer
<1>1. MirrorsServer /\ ReviewShowsFinal => PageFollowsServer
  BY DEF PageFollowsServer
<1> QED BY <1>1, MirrorsKept, ReviewsFinal, PTL
=============================================================================
