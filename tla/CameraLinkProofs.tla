-------------------------- MODULE CameraLinkProofs --------------------------
(* Proofs about the way to the camera, for any number of callers and routes, *)
(* any failures and any number of exposures, unplugs and restarts.           *)
EXTENDS CameraLink, FiniteSetTheorems, SequenceTheorems, TLAPS

(* What a route may still have to send.                                      *)
Remaining ==
  {<<>>, <<"trigger", "preview", "full">>, <<"trigger", "full">>,
   <<"preview", "full">>, <<"full">>,
   <<"reconnect">>, <<"disconnect">>, <<"status">>}

(* A route asks for pictures only of an exposure its trigger returned.       *)
AtPicture(c) == todo[c] # <<>> /\ Head(todo[c]) \in {"preview", "full"}

RoutesOK == \A c \in Callers : /\ todo[c] \in Remaining
                               /\ AtPicture(c) => shot[c] \in Exposures

(* Only the lock's holder has a request out; it is on the wire or answered,  *)
(* or the worker is gone.                                                    *)
SendersOK ==
  \A c \in Callers : sent[c] => /\ Granted(c) /\ todo[c] # <<>>
                                /\ wire # <<>> \/ replies # <<>> \/ worker = "dead"

(* At most one request is on the wire: the holder's present one.             *)
WireOK ==
  wire # <<>> =>
    LET r == Head(wire)
    IN  /\ Len(wire) = 1 /\ replies = <<>>
        /\ sent[r.by] /\ r.op = Head(todo[r.by]) /\ r.id = shot[r.by]

(* At most one answer is unread: the holder's.                               *)
RepliesOK ==
  replies # <<>> =>
    LET r == Head(replies)
    IN  /\ Len(replies) = 1 /\ wire = <<>>
        /\ sent[r.by]
        /\ r.ok /\ AtTrigger(r.by) => r.id \in Exposures

(* While a trigger waits, every file that may still come is at least as new  *)
(* as the exposure it made.                                                  *)
WaitingOK ==
  worker = "waiting" =>
    /\ wire # <<>> /\ Head(wire).op = "trigger"
    /\ own \in Exposures /\ own <= presses
    /\ \A i \in 1 .. Len(events) : events[i] >= own
    /\ \A i \in 1 .. Len(exposed) : exposed[i] >= own

(* Triggers that have not fired yet are within the bound.                    *)
Fired(c)   == sent[c] /\ (replies # <<>> \/ worker = "waiting")
Unfired    == {c \in Callers : AtTrigger(c) /\ ~Fired(c)}
WithinBound == presses + Cardinality(Unfired) <= MaxPresses

(* Nobody who uses the client is forgotten by the lock, or queued twice.     *)
Queued(c) == \E i \in 1 .. Len(lock) : lock[i] = c
LockOK ==
  /\ \A i, j \in 1 .. Len(lock) : lock[i] = lock[j] => i = j
  /\ \A c \in Callers : todo[c] # <<>> <=> Queued(c)

IInv == /\ TypeOK /\ RoutesOK /\ SendersOK /\ WireOK /\ RepliesOK
        /\ WaitingOK /\ WithinBound /\ LockOK /\ FreshPicture
-----------------------------------------------------------------------------
(* What is left of a queue without its head.                                 *)
LEMMA TailOf ==
  ASSUME NEW S, NEW s \in Seq(S), s # <<>>
  PROVE  /\ Head(s) \in S /\ Head(s) = s[1] /\ 1 \in 1 .. Len(s)
         /\ Tail(s) \in Seq(S) /\ Len(Tail(s)) = Len(s) - 1
         /\ \A i \in 1 .. Len(Tail(s)) : i + 1 \in 1 .. Len(s) /\ Tail(s)[i] = s[i + 1]
  OBVIOUS

(* A queue of one is empty without it.                                       *)
LEMMA TailOfOne ==
  ASSUME NEW S, NEW s \in Seq(S), Len(s) = 1
  PROVE  Tail(s) = <<>>
<1>1. s # <<>>
  OBVIOUS
<1>2. Tail(s) \in Seq(S) /\ Len(Tail(s)) = 0
  BY <1>1, TailOf
<1> QED BY <1>2, EmptySeq

(* A queue that got one more entry.                                          *)
LEMMA AppendTo ==
  ASSUME NEW S, NEW s \in Seq(S), NEW e \in S
  PROVE  /\ Append(s, e) \in Seq(S) /\ Len(Append(s, e)) = Len(s) + 1
         /\ Append(s, e) # <<>>
         /\ \A i \in 1 .. Len(s) : i \in 1 .. Len(Append(s, e)) /\ Append(s, e)[i] = s[i]
         /\ Len(s) + 1 \in 1 .. Len(Append(s, e))
         /\ Append(s, e)[Len(s) + 1] = e
         /\ \A i \in 1 .. Len(Append(s, e)) : i \in 1 .. Len(s) \/ i = Len(s) + 1
  OBVIOUS

(* Whoever joins a queue heads it only if nobody waits.                      *)
LEMMA AppendHead ==
  ASSUME NEW S, NEW s \in Seq(S), NEW e \in S
  PROVE  Head(Append(s, e)) = IF s = <<>> THEN e ELSE Head(s)
<1>1. Append(s, e) # <<>> /\ Append(s, e) \in Seq(S)
  BY AppendTo
<1>2. Head(Append(s, e)) = Append(s, e)[1]
  BY <1>1, TailOf
<1>3. CASE s = <<>>
  BY <1>2, <1>3
<1>4. CASE s # <<>>
  <2>1. Head(s) = s[1] /\ 1 \in 1 .. Len(s)
    BY <1>4, TailOf
  <2> QED
    BY <1>2, <1>4, <2>1, AppendTo
<1> QED BY <1>3, <1>4

(* What a route has left is a sequence of requests, and stays one.           *)
LEMMA RouteType ==
  /\ \A r \in Remaining : r \in Seq(Ops)
  /\ \A p \in DOMAIN Requests : Requests[p] \in Remaining /\ Requests[p] # <<>>
  /\ \A p \in DOMAIN Requests : Head(Requests[p]) \notin {"preview", "full"}
  BY DEF Remaining, Ops, Requests

(* After a route's first request comes the next, never a trigger.            *)
LEMMA RouteTail ==
  ASSUME NEW r \in Remaining, r # <<>>
  PROVE  /\ Head(r) \in Ops
         /\ Tail(r) \in Remaining
         /\ Tail(r) # <<>> => /\ Head(r) \in {"trigger", "preview"}
                              /\ Head(Tail(r)) # "trigger"
         /\ Tail(r) = <<>> <=> Len(r) = 1
<1>1. CASE r = <<"trigger", "preview", "full">>
  <2>1. Head(r) = "trigger" /\ Tail(r) = <<"preview", "full">> /\ Len(r) = 3
    BY <1>1
  <2> QED BY <2>1 DEF Remaining, Ops
<1>2. CASE r = <<"trigger", "full">>
  <2>1. Head(r) = "trigger" /\ Tail(r) = <<"full">> /\ Len(r) = 2
    BY <1>2
  <2> QED BY <2>1 DEF Remaining, Ops
<1>3. CASE r = <<"preview", "full">>
  <2>1. Head(r) = "preview" /\ Tail(r) = <<"full">> /\ Len(r) = 2 /\ Head(Tail(r)) = "full"
    BY <1>3
  <2> QED BY <2>1 DEF Remaining, Ops
<1>4. ASSUME NEW op \in Ops, r = <<op>>
      PROVE  Head(r) \in Ops /\ Tail(r) = <<>> /\ Len(r) = 1
  BY <1>4
<1> QED BY <1>1, <1>2, <1>3, <1>4 DEF Remaining, Ops

(* A step of the worker answers the request on the wire, ends the worker or  *)
(* leaves a trigger waiting.                                                 *)
LEMMA WorkerOutcome ==
  ASSUME TypeOK, WaitingOK, WorkerStep
  PROVE  /\ UNCHANGED <<todo, shot, sent, lock, conn, plugged, unplugs, boots>>
         /\ wire # <<>> /\ Head(wire) \in [by : Callers, op : Ops, id : Exposures \cup {NoId}]
         /\ \/ \E ok \in BOOLEAN, id \in Exposures \cup {NoId} :
                 /\ Reply(ok, id)
                 /\ ok /\ Head(wire).op = "trigger" => id \in Exposures
            \/ Crash
            \/ worker' = "waiting" /\ worker = "ready" /\ UNCHANGED <<wire, replies>>
<1>1. UNCHANGED <<todo, shot, sent, lock, conn, plugged, unplugs, boots>>
  BY DEF WorkerStep, callers
<1>2. wire # <<>>
  BY DEF WorkerStep, WaitingOK, ServeStatus, ServeDisconnect, ServeReconnect, ServePreview,
     ServeFull, ServeTrigger, TriggerRefused, TakeFile, NoFileComes, Asks
<1>3. Head(wire) \in [by : Callers, op : Ops, id : Exposures \cup {NoId}]
  BY <1>2, TailOf DEF TypeOK
<1> DEFINE Done == \/ \E ok \in BOOLEAN, id \in Exposures \cup {NoId} :
                        /\ Reply(ok, id)
                        /\ ok /\ Head(wire).op = "trigger" => id \in Exposures
                   \/ Crash
                   \/ worker' = "waiting" /\ worker = "ready" /\ UNCHANGED <<wire, replies>>
<1>4. CASE ServeStatus \/ ServeDisconnect \/ ServeReconnect \/ ServePreview
  BY <1>1, <1>2, <1>3, <1>4 DEF ServeStatus, ServeDisconnect, ServeReconnect, ServePreview, Asks
<1>5. CASE ServeFull \/ TriggerRefused
  <2>1. (handle = "live") \in BOOLEAN
    OBVIOUS
  <2> QED
    BY <1>1, <1>2, <1>3, <1>5, <2>1 DEF ServeFull, TriggerRefused, Asks
<1>6. CASE ServeTrigger
  BY <1>1, <1>2, <1>3, <1>6 DEF ServeTrigger, Asks
<1>7. CASE TakeFile \/ NoFileComes
  BY <1>1, <1>2, <1>3, <1>7 DEF TakeFile, NoFileComes, WaitingOK
<1> QED
  BY <1>4, <1>5, <1>6, <1>7 DEF WorkerStep

(* What the app may find of the worker when it starts.                       *)
LEMMA StartupsType ==
  ASSUME NEW s \in Startups
  PROVE  s.conn \in BOOLEAN /\ s.worker \in {"ready", "dead"} /\ s.handle \in {"none", "live"}
<1>1. CASE s = [worker |-> "ready", conn |-> TRUE,
                handle |-> IF plugged THEN "live" ELSE "none"]
  BY <1>1
<1>2. CASE s = [worker |-> "dead", conn |-> FALSE, handle |-> "none"]
  BY <1>2
<1> QED
  BY <1>1, <1>2 DEF Startups

(* The unread answer is the lock holder's.                                   *)
LEMMA ReplyHeader ==
  ASSUME TypeOK, RepliesOK, replies # <<>>
  PROVE  /\ Head(replies) \in [by : Callers, ok : BOOLEAN, id : Exposures \cup {NoId}]
         /\ Head(replies).by \in Callers /\ sent[Head(replies).by]
<1>1. Head(replies) \in [by : Callers, ok : BOOLEAN, id : Exposures \cup {NoId}]
  BY TailOf DEF TypeOK
<1> QED
  BY <1>1 DEF RepliesOK

(* The request on the wire is the lock holder's.                             *)
LEMMA WireHeader ==
  ASSUME TypeOK, WireOK, wire # <<>>
  PROVE  /\ Head(wire) \in [by : Callers, op : Ops, id : Exposures \cup {NoId}]
         /\ Head(wire).by \in Callers /\ sent[Head(wire).by]
         /\ Head(wire).op = Head(todo[Head(wire).by]) /\ replies = <<>>
<1>1. Head(wire) \in [by : Callers, op : Ops, id : Exposures \cup {NoId}]
  BY TailOf DEF TypeOK
<1> QED
  BY <1>1 DEF WireOK

(* A request whose call fails is dropped, with what is left of its route.    *)
LEMMA CallFailsType ==
  ASSUME TypeOK, NEW c \in Callers, CallFails(c), lock # <<>>
  PROVE  /\ todo' \in [Callers -> Seq(Ops)]
         /\ shot' \in [Callers -> Exposures \cup {NoId}]
         /\ sent' \in [Callers -> BOOLEAN]
         /\ lock' \in Seq(Callers)
<1>1. <<>> \in Seq(Ops)
  OBVIOUS
<1>2. Tail(lock) \in Seq(Callers)
  BY TailOf DEF TypeOK
<1> QED
  BY <1>1, <1>2 DEF TypeOK, CallFails, Released

(* The client's variables stay typed.                                        *)
LEMMA CallerTypeStep ==
  ASSUME LinkAssumption, IInv, [Next]_vars
  PROVE  /\ todo' \in [Callers -> Seq(Ops)]
         /\ shot' \in [Callers -> Exposures \cup {NoId}]
         /\ sent' \in [Callers -> BOOLEAN]
         /\ lock' \in Seq(Callers)
         /\ conn' \in BOOLEAN
<1> DEFINE Goal == /\ todo' \in [Callers -> Seq(Ops)]
                   /\ shot' \in [Callers -> Exposures \cup {NoId}]
                   /\ sent' \in [Callers -> BOOLEAN]
                   /\ lock' \in Seq(Callers)
                   /\ conn' \in BOOLEAN
<1>t. TypeOK /\ RoutesOK /\ SendersOK /\ RepliesOK
  BY DEF IInv
<1>1. ASSUME NEW c \in Callers, NEW p \in Programs, Start(c, p)
      PROVE  Goal
  <2>1. Requests[p] \in Seq(Ops)
    BY RouteType DEF LinkAssumption
  <2>2. Append(lock, c) \in Seq(Callers)
    BY <1>t, AppendTo DEF TypeOK
  <2> QED
    BY <1>t, <1>1, <2>1, <2>2 DEF TypeOK, Start
<1>2. ASSUME NEW c \in Callers, Send(c)
      PROVE  Goal
  BY <1>t, <1>2 DEF TypeOK, Send
<1>3. ASSUME NEW c \in Callers, CannotReach(c)
      PROVE  Goal
  <2>1. CallFails(c) /\ lock # <<>> /\ conn' = conn
    BY <1>3 DEF CannotReach, Granted
  <2> QED
    BY <1>t, <2>1, CallFailsType DEF TypeOK
<1>4. ASSUME NEW c \in Callers, ReadReply(c)
      PROVE  Goal
  <2>1. lock # <<>> /\ todo[c] # <<>> /\ conn' = conn
    BY <1>t, <1>4 DEF ReadReply, SendersOK, Granted
  <2>2. CASE CallFails(c)
    BY <1>t, <2>1, <2>2, CallFailsType DEF TypeOK
  <2>3. CASE ~CallFails(c)
    <3>1. Head(replies) \in [by : Callers, ok : BOOLEAN, id : Exposures \cup {NoId}]
      BY <1>t, <1>4, TailOf DEF TypeOK, ReadReply
    <3>2. Tail(lock) \in Seq(Callers)
      BY <1>t, <2>1, TailOf DEF TypeOK
    <3>3. Append(Tail(lock), c) \in Seq(Callers)
      BY <3>2, AppendTo
    <3>4. Tail(todo[c]) \in Seq(Ops)
      BY <1>t, <2>1, TailOf DEF TypeOK
    <3>5. todo' = [todo EXCEPT ![c] = Tail(@)] /\ sent' = [sent EXCEPT ![c] = FALSE]
      BY <1>4, <2>3 DEF ReadReply
    <3>6. lock' \in {Tail(lock), Append(Tail(lock), c)}
      BY <1>4, <2>3 DEF ReadReply, Released
    <3>7. \E n \in {NoId, Head(replies).id, shot[c]} : shot' = [shot EXCEPT ![c] = n]
      BY <1>4, <2>3 DEF ReadReply
    <3>8. shot' \in [Callers -> Exposures \cup {NoId}]
      BY <1>t, <3>1, <3>7 DEF TypeOK
    <3> QED
      BY <1>t, <2>1, <3>2, <3>3, <3>4, <3>5, <3>6, <3>8 DEF TypeOK
  <2> QED BY <2>2, <2>3
<1>5. ASSUME NEW c \in Callers, ConnectionLost(c)
      PROVE  Goal
  <2>1. CallFails(c) /\ lock # <<>> /\ conn' = FALSE
    BY <1>t, <1>5 DEF ConnectionLost, SendersOK, Granted
  <2> QED
    BY <1>t, <2>1, CallFailsType DEF TypeOK
<1>6. ASSUME WorkerStep
      PROVE  Goal
  BY <1>t, <1>6 DEF TypeOK, WorkerStep, callers
<1>7. ASSUME FileAdded \/ FileLost \/ Button \/ Unplug \/ Plug
      PROVE  Goal
  BY <1>t, <1>7 DEF TypeOK, FileAdded, FileLost, Button, Unplug, Plug, callers, client
<1>8. ASSUME AppRestarts
      PROVE  Goal
  <2>1. <<>> \in Seq(Ops) /\ <<>> \in Seq(Callers)
    OBVIOUS
  <2>2. conn' \in BOOLEAN
    BY <1>8, StartupsType DEF AppRestarts
  <2> QED
    BY <2>1, <2>2, <1>8 DEF AppRestarts
<1>9. CASE UNCHANGED vars
  BY <1>t, <1>9 DEF TypeOK, vars, callers, client
<1> QED
  BY <1>1, <1>2, <1>3, <1>4, <1>5, <1>6, <1>7, <1>8, <1>9 DEF Next, ClientStep

(* What a route has left stays the end of a known route, and it asks only    *)
(* for pictures of the exposure its trigger returned.                        *)
LEMMA RoutesStep ==
  ASSUME LinkAssumption, IInv, [Next]_vars
  PROVE  RoutesOK'
<1>t. TypeOK /\ RoutesOK /\ SendersOK /\ RepliesOK
  BY DEF IInv
<1>n. todo' \in [Callers -> Seq(Ops)]
  BY CallerTypeStep
<1>1. ASSUME NEW c \in Callers, NEW p \in Programs, Start(c, p)
      PROVE  RoutesOK'
  <2>1. Requests[p] \in Remaining /\ Head(Requests[p]) \notin {"preview", "full"}
    BY RouteType DEF LinkAssumption
  <2>2. /\ todo' = [todo EXCEPT ![c] = Requests[p]] /\ shot' = shot
        /\ todo \in [Callers -> Seq(Ops)]
    BY <1>t, <1>1 DEF Start, TypeOK
  <2>3. ~AtPicture(c)' /\ todo'[c] \in Remaining
    BY <2>1, <2>2 DEF AtPicture
  <2>4. \A d \in Callers \ {c} : todo'[d] = todo[d]
    BY <2>2
  <2> QED
    BY <1>t, <2>2, <2>3, <2>4 DEF RoutesOK, AtPicture
<1>2. ASSUME NEW c \in Callers, CallFails(c)
      PROVE  RoutesOK'
  <2>1. \A d \in Callers \ {c} : todo'[d] = todo[d] /\ shot'[d] = shot[d]
    BY <1>t, <1>2 DEF CallFails, TypeOK
  <2>2. todo'[c] = <<>>
    BY <1>t, <1>2 DEF CallFails, TypeOK
  <2>3. ~AtPicture(c)' /\ todo'[c] \in Remaining
    BY <2>2 DEF AtPicture, Remaining
  <2> QED
    BY <1>t, <2>1, <2>3 DEF RoutesOK, AtPicture
<1>3. ASSUME NEW c \in Callers, ReadReply(c), ~CallFails(c)
      PROVE  RoutesOK'
  <2>1. Granted(c) /\ todo[c] # <<>> /\ todo[c] \in Remaining
    BY <1>t, <1>3 DEF ReadReply, SendersOK, RoutesOK
  <2>2. \A d \in Callers \ {c} : todo'[d] = todo[d] /\ shot'[d] = shot[d]
    BY <1>t, <1>3 DEF ReadReply, TypeOK
  <2>3. todo'[c] = Tail(todo[c])
    BY <1>t, <1>3 DEF ReadReply, TypeOK
  <2>4. todo'[c] \in Remaining
    BY <2>1, <2>3, RouteTail
  <2>5. ASSUME AtPicture(c)'
        PROVE  shot'[c] \in Exposures
    <3>1. Head(todo[c]) \in {"trigger", "preview"} /\ Len(todo[c]) # 1
      BY <2>1, <2>3, <2>5, RouteTail DEF AtPicture
    <3>2. sent[Head(replies).by] /\ Head(replies).by \in Callers
      BY <1>t, <1>3, ReplyHeader DEF ReadReply
    <3>3. Head(replies).by = c
      BY <1>t, <2>1, <3>2 DEF SendersOK, Granted
    <3>4. Head(replies).ok /\ Head(todo[c]) = "trigger" => Head(replies).id \in Exposures
      BY <1>t, <1>3, <2>1, <3>3 DEF RepliesOK, ReadReply, AtTrigger
    <3>5. Head(replies).ok
          /\ shot'[c] = IF Head(todo[c]) = "trigger" THEN Head(replies).id ELSE shot[c]
      BY <1>t, <1>3, <2>1, <3>1 DEF ReadReply, AtTrigger, TypeOK
    <3>6. Head(todo[c]) = "preview" => shot[c] \in Exposures
      BY <1>t, <2>1 DEF RoutesOK, AtPicture
    <3> QED BY <3>1, <3>4, <3>5, <3>6
  <2> QED
    BY <1>t, <2>2, <2>4, <2>5 DEF RoutesOK, AtPicture
<1>4. ASSUME UNCHANGED <<todo, shot>>
      PROVE  RoutesOK'
  BY <1>t, <1>4 DEF RoutesOK, AtPicture
<1>5. CASE AppRestarts
  <2>1. \A c \in Callers : todo'[c] = <<>>
    BY <1>5 DEF AppRestarts
  <2> QED
    BY <2>1 DEF RoutesOK, AtPicture, Remaining
<1>6. CASE WorkerStep \/ FileAdded \/ FileLost \/ Button \/ Unplug \/ Plug \/ UNCHANGED vars
  BY <1>4, <1>6 DEF WorkerStep, FileAdded, FileLost, Button, Unplug, Plug, vars, callers
<1>7. ASSUME NEW c \in Callers, ClientStep(c)
      PROVE  RoutesOK'
  BY <1>2, <1>3, <1>4, <1>7 DEF ClientStep, Send, CannotReach, ConnectionLost
<1> QED
  BY <1>1, <1>5, <1>6, <1>7 DEF Next

(* Nobody but the lock's holder has a request out.                           *)
LEMMA OneSender ==
  ASSUME SendersOK, NEW c \in Callers, NEW d \in Callers, sent[c], sent[d]
  PROVE  c = d
  BY DEF SendersOK, Granted

(* A trigger that the worker is about to fire is one of the unfired.         *)
LEMMA ToFire ==
  ASSUME LinkAssumption, IInv, ServeTrigger
  PROVE  /\ Head(wire).by \in Unfired /\ presses + 1 \in Exposures
<1> DEFINE c == Head(wire).by
<1>1. /\ c \in Callers /\ sent[c] /\ Head(wire).op = Head(todo[c])
      /\ Head(wire).op = "trigger" /\ replies = <<>> /\ worker = "ready"
  BY WireHeader DEF IInv, ServeTrigger, Asks
<1>2. todo[c] # <<>>
  BY <1>1 DEF IInv, SendersOK
<1>3. c \in Unfired
  BY <1>1, <1>2 DEF Unfired, AtTrigger, Fired
<1>4. IsFiniteSet(Unfired)
  BY FS_Subset DEF LinkAssumption, Unfired
<1>5. Cardinality(Unfired) \in Nat /\ Cardinality(Unfired) # 0
  BY <1>3, <1>4, FS_CardinalityType, FS_EmptySet
<1> QED
  BY <1>3, <1>5 DEF IInv, WithinBound, TypeOK, Exposures, LinkAssumption

(* What the worker and the camera exchange stays typed.                      *)
LEMMA CameraTypeStep ==
  ASSUME LinkAssumption, IInv, [Next]_vars
  PROVE  /\ wire' \in Seq([by : Callers, op : Ops, id : Exposures \cup {NoId}])
         /\ replies' \in Seq([by : Callers, ok : BOOLEAN, id : Exposures \cup {NoId}])
         /\ worker' \in {"ready", "waiting", "dead"}
<1> DEFINE Frames  == [by : Callers, op : Ops, id : Exposures \cup {NoId}]
           Answers == [by : Callers, ok : BOOLEAN, id : Exposures \cup {NoId}]
           Goal == /\ wire' \in Seq(Frames) /\ replies' \in Seq(Answers)
                   /\ worker' \in {"ready", "waiting", "dead"}
<1>t. /\ TypeOK /\ RoutesOK /\ RepliesOK /\ WaitingOK
      /\ wire \in Seq(Frames) /\ replies \in Seq(Answers)
      /\ worker \in {"ready", "waiting", "dead"}
  BY DEF IInv, TypeOK
<1>e. <<>> \in Seq(Frames) /\ <<>> \in Seq(Answers)
  OBVIOUS
<1>1. ASSUME NEW c \in Callers, Send(c)
      PROVE  Goal
  <2>1. Head(todo[c]) \in Ops /\ shot[c] \in Exposures \cup {NoId}
    BY <1>t, <1>1, RouteTail DEF RoutesOK, Send, TypeOK
  <2>2. [by |-> c, op |-> Head(todo[c]), id |-> shot[c]] \in Frames
    BY <2>1
  <2> HIDE DEF Frames, Answers
  <2>3. Append(wire, [by |-> c, op |-> Head(todo[c]), id |-> shot[c]]) \in Seq(Frames)
    BY <1>t, <2>2, AppendTo
  <2> QED
    BY <1>t, <1>1, <2>3 DEF Send, backend
<1>2. ASSUME NEW c \in Callers, ReadReply(c)
      PROVE  Goal
  <2>1. Tail(replies) \in Seq(Answers)
    BY <1>t, <1>2, TailOf DEF ReadReply
  <2> QED
    BY <1>t, <1>2, <2>1 DEF ReadReply, backend
<1>3. ASSUME NEW c \in Callers, CannotReach(c) \/ ConnectionLost(c) \/ \E p \in Programs : Start(c, p)
      PROVE  Goal
  BY <1>t, <1>e, <1>3 DEF CannotReach, ConnectionLost, Start, backend
<1>4. ASSUME WorkerStep
      PROVE  Goal
  <2>1. ASSUME NEW ok \in BOOLEAN, NEW id \in Exposures \cup {NoId}, Reply(ok, id),
               wire # <<>>, Head(wire) \in Frames
        PROVE  Goal
    <3>1. [by |-> Head(wire).by, ok |-> ok, id |-> id] \in Answers
      BY <2>1
    <3> HIDE DEF Frames, Answers
    <3>2. Append(replies, [by |-> Head(wire).by, ok |-> ok, id |-> id]) \in Seq(Answers)
      BY <1>t, <3>1, AppendTo
    <3>3. Tail(wire) \in Seq(Frames)
      BY <1>t, <2>1, TailOf
    <3> QED BY <2>1, <3>2, <3>3 DEF Reply
  <2>2. CASE Crash
    BY <1>t, <1>e, <2>2 DEF Crash
  <2>3. CASE worker' = "waiting" /\ UNCHANGED <<wire, replies>>
    BY <1>t, <2>3
  <2> QED
    BY <1>t, <1>4, <2>1, <2>2, <2>3, WorkerOutcome
<1>5. ASSUME FileAdded \/ FileLost \/ Button \/ Unplug \/ Plug \/ UNCHANGED vars
      PROVE  Goal
  BY <1>t, <1>5 DEF FileAdded, FileLost, Button, Unplug, Plug, client, backend, vars
<1>6. ASSUME AppRestarts
      PROVE  Goal
  BY <1>e, <1>6, StartupsType DEF AppRestarts
<1> QED
  BY <1>1, <1>2, <1>3, <1>4, <1>5, <1>6 DEF Next, ClientStep

(* The backend and the camera stay typed.                                    *)
LEMMA BackendTypeStep ==
  ASSUME LinkAssumption, IInv, [Next]_vars
  PROVE  /\ handle' \in {"none", "live", "stale"}
         /\ pending' \in [Exposures -> Exposures \cup {NoFile}]
         /\ own' \in Exposures \cup {NoId}
         /\ plugged' \in BOOLEAN /\ unplugs' \in 0 .. MaxUnplugs
         /\ presses' \in 0 .. MaxPresses
         /\ exposed' \in Seq(Exposures)
         /\ events' \in Seq(Exposures)
         /\ boots' \in 0 .. MaxBoots
<1> DEFINE Goal == /\ handle' \in {"none", "live", "stale"}
                   /\ pending' \in [Exposures -> Exposures \cup {NoFile}]
                   /\ own' \in Exposures \cup {NoId}
                   /\ plugged' \in BOOLEAN /\ unplugs' \in 0 .. MaxUnplugs
                   /\ presses' \in 0 .. MaxPresses
                   /\ exposed' \in Seq(Exposures)
                   /\ events' \in Seq(Exposures)
                   /\ boots' \in 0 .. MaxBoots
<1>t. TypeOK
  BY DEF IInv
<1>e. /\ <<>> \in Seq(Exposures) /\ Forgotten \in [Exposures -> Exposures \cup {NoFile}]
  BY DEF Forgotten
<1>p. events # <<>> => Head(events) \in Exposures /\ Tail(events) \in Seq(Exposures)
  BY <1>t, TailOf DEF TypeOK
<1>x. exposed # <<>> => Head(exposed) \in Exposures /\ Tail(exposed) \in Seq(Exposures)
  BY <1>t, TailOf DEF TypeOK
<1>1. ASSUME NEW c \in Callers, ClientStep(c) \/ \E p \in Programs : Start(c, p)
      PROVE  Goal
  BY <1>t, <1>1 DEF TypeOK, ClientStep, Send, CannotReach, ReadReply, ConnectionLost, Start,
     backend, camera
<1>2. ASSUME WorkerStep
      PROVE  Goal
  <2>1. UNCHANGED <<plugged, unplugs, boots>>
    BY <1>2 DEF WorkerStep
  <2>2. CASE ServeStatus \/ ServeDisconnect \/ ServePreview \/ TriggerRefused
    BY <1>t, <1>e, <2>1, <2>2 DEF TypeOK, ServeStatus, ServeDisconnect, ServePreview, TriggerRefused
  <2>3. CASE ServeReconnect
    BY <1>t, <1>e, <2>1, <2>3 DEF TypeOK, ServeReconnect
  <2>4. CASE ServeFull
    BY <1>t, <2>1, <2>4 DEF TypeOK, ServeFull
  <2>5. CASE ServeTrigger
    <3>1. presses + 1 \in Exposures /\ presses' = presses + 1
      BY <2>5, ToFire DEF ServeTrigger
    <3>2. Append(exposed, presses') \in Seq(Exposures)
      BY <1>t, <3>1, AppendTo DEF TypeOK
    <3>3. presses' \in 0 .. MaxPresses
      BY <3>1 DEF Exposures, LinkAssumption
    <3> QED
      BY <1>t, <1>e, <2>1, <2>5, <3>1, <3>2, <3>3 DEF TypeOK, ServeTrigger, DrainStaleEvents
  <2>6. CASE TakeFile
    BY <1>t, <1>p, <2>1, <2>6 DEF TypeOK, TakeFile
  <2>7. CASE NoFileComes
    BY <1>t, <2>1, <2>7 DEF TypeOK, NoFileComes
  <2> QED
    BY <1>2, <2>2, <2>3, <2>4, <2>5, <2>6, <2>7 DEF WorkerStep
<1>3. ASSUME FileAdded
      PROVE  Goal
  <2>1. Head(exposed) \in Exposures
    BY <1>3, <1>x DEF FileAdded
  <2>2. Append(events, Head(exposed)) \in Seq(Exposures)
    BY <1>t, <2>1, AppendTo DEF TypeOK
  <2> QED
    BY <1>t, <1>x, <1>3, <2>2 DEF TypeOK, FileAdded, backend
<1>4. ASSUME Button
      PROVE  Goal
  <2>1. presses + 1 \in Exposures /\ presses + 1 \in 0 .. MaxPresses
    <3>1. IsFiniteSet({c \in Callers : AtTrigger(c)})
      BY FS_Subset DEF LinkAssumption
    <3>2. Cardinality({c \in Callers : AtTrigger(c)}) \in Nat
      BY <3>1, FS_CardinalityType
    <3> QED
      BY <1>t, <1>4, <3>2 DEF Button, Asked, TypeOK, Exposures, LinkAssumption
  <2>2. Append(exposed, presses + 1) \in Seq(Exposures)
    BY <1>t, <2>1, AppendTo DEF TypeOK
  <2> QED
    BY <1>t, <1>4, <2>1, <2>2 DEF TypeOK, Button, backend
<1>5. ASSUME FileLost \/ Plug \/ UNCHANGED vars
      PROVE  Goal
  BY <1>t, <1>x, <1>5 DEF TypeOK, FileLost, Plug, backend, vars, camera
<1>6. ASSUME Unplug
      PROVE  Goal
  <2>1. unplugs' \in 0 .. MaxUnplugs
    BY <1>t, <1>6 DEF TypeOK, Unplug, LinkAssumption
  <2>2. UNCHANGED <<pending, own, presses, boots>>
    BY <1>6 DEF Unplug
  <2>3. handle' \in {"none", "live", "stale"}
    BY <1>t, <1>6 DEF TypeOK, Unplug
  <2>4. plugged' \in BOOLEAN /\ exposed' = <<>> /\ events' = <<>>
    BY <1>6 DEF Unplug
  <2> QED
    BY <1>t, <1>e, <2>1, <2>2, <2>3, <2>4 DEF TypeOK
<1>7. ASSUME AppRestarts
      PROVE  Goal
  BY <1>t, <1>e, <1>7, StartupsType DEF TypeOK, AppRestarts, LinkAssumption
<1> QED
  BY <1>1, <1>2, <1>3, <1>4, <1>5, <1>6, <1>7 DEF Next

(* Every step keeps the variables typed.                                     *)
LEMMA TypeStep ==
  ASSUME LinkAssumption, IInv, [Next]_vars
  PROVE  TypeOK'
<1>1. /\ todo' \in [Callers -> Seq(Ops)]
      /\ shot' \in [Callers -> Exposures \cup {NoId}]
      /\ sent' \in [Callers -> BOOLEAN]
      /\ lock' \in Seq(Callers)
      /\ conn' \in BOOLEAN
  BY CallerTypeStep
<1>2. /\ wire' \in Seq([by : Callers, op : Ops, id : Exposures \cup {NoId}])
      /\ replies' \in Seq([by : Callers, ok : BOOLEAN, id : Exposures \cup {NoId}])
      /\ worker' \in {"ready", "waiting", "dead"}
  BY CameraTypeStep
<1>3. /\ handle' \in {"none", "live", "stale"}
      /\ pending' \in [Exposures -> Exposures \cup {NoFile}]
      /\ own' \in Exposures \cup {NoId}
      /\ plugged' \in BOOLEAN /\ unplugs' \in 0 .. MaxUnplugs
      /\ presses' \in 0 .. MaxPresses
      /\ exposed' \in Seq(Exposures)
      /\ events' \in Seq(Exposures)
      /\ boots' \in 0 .. MaxBoots
  BY BackendTypeStep
<1> QED
  BY <1>1, <1>2, <1>3 DEF TypeOK
-----------------------------------------------------------------------------
(* One request and one answer at a time.                                     *)
OneRequest == SendersOK /\ WireOK /\ RepliesOK

(* When the holder of the lock has no request out, the line is idle.         *)
LEMMA IdleLine ==
  ASSUME TypeOK, OneRequest, NEW c \in Callers, Granted(c), ~sent[c]
  PROVE  wire = <<>> /\ replies = <<>> /\ \A d \in Callers : ~sent[d]
<1>1. \A d \in Callers : ~sent[d]
  BY DEF OneRequest, SendersOK, Granted
<1>2. wire = <<>>
  BY <1>1, WireHeader DEF OneRequest
<1>3. replies = <<>>
  BY <1>1, ReplyHeader DEF OneRequest
<1> QED BY <1>1, <1>2, <1>3

(* A step that takes the holder's request off an idle line and lets the lock *)
(* go leaves the line idle.                                                  *)
LEMMA IdleAfter ==
  ASSUME wire' = <<>>, replies' = <<>>, \A d \in Callers : ~sent'[d]
  PROVE  OneRequest'
  BY DEF OneRequest, SendersOK, WireOK, RepliesOK

(* A call that fails was the only one out.                                   *)
LEMMA NobodySends ==
  ASSUME TypeOK, SendersOK, NEW c \in Callers, Granted(c),
         sent' = [sent EXCEPT ![c] = FALSE]
  PROVE  \A d \in Callers : ~sent'[d]
  BY DEF SendersOK, Granted, TypeOK

(* The client's steps keep one request at a time.                            *)
LEMMA ClientOneRequest ==
  ASSUME IInv, NEW c \in Callers, ClientStep(c)
  PROVE  OneRequest'
<1>t. TypeOK /\ OneRequest /\ SendersOK /\ WireOK /\ RepliesOK /\ WaitingOK
  BY DEF IInv, OneRequest
<1>1. CASE Send(c)
  <2> DEFINE r == [by |-> c, op |-> Head(todo[c]), id |-> shot[c]]
  <2>1. wire = <<>> /\ replies = <<>> /\ \A d \in Callers : ~sent[d]
    BY <1>t, <1>1, IdleLine DEF Send
  <2>2. /\ wire' = <<r>> /\ Len(wire') = 1 /\ Head(wire') = r /\ wire' # <<>>
        /\ replies' = <<>> /\ UNCHANGED <<todo, shot, lock>>
    BY <1>1, <2>1 DEF Send
  <2>3. sent'[c] /\ \A d \in Callers : sent'[d] => d = c
    BY <1>t, <1>1, <2>1 DEF Send, TypeOK
  <2>4. SendersOK'
    BY <1>1, <2>2, <2>3 DEF SendersOK, Send, Granted
  <2>5. WireOK'
    BY <2>2, <2>3 DEF WireOK
  <2>6. RepliesOK'
    BY <2>2 DEF RepliesOK
  <2> QED BY <2>4, <2>5, <2>6 DEF OneRequest
<1>2. CASE CannotReach(c)
  <2>1. wire = <<>> /\ replies = <<>> /\ \A d \in Callers : ~sent[d]
    BY <1>t, <1>2, IdleLine DEF CannotReach
  <2>2. wire' = <<>> /\ replies' = <<>> /\ \A d \in Callers : ~sent'[d]
    BY <1>t, <1>2, <2>1 DEF CannotReach, CallFails, TypeOK
  <2> QED BY <2>2, IdleAfter
<1>3. CASE ReadReply(c)
  <2>1. Granted(c) /\ wire = <<>> /\ Len(replies) = 1
    BY <1>t, <1>3 DEF ReadReply, SendersOK, RepliesOK
  <2>2. replies' = <<>>
    BY <1>t, <1>3, <2>1, TailOfOne DEF ReadReply, TypeOK
  <2>3. sent' = [sent EXCEPT ![c] = FALSE] /\ wire' = <<>>
    BY <1>3, <2>1 DEF ReadReply, CallFails
  <2> QED BY <1>t, <2>1, <2>2, <2>3, NobodySends, IdleAfter
<1>4. CASE ConnectionLost(c)
  <2>1. Granted(c) /\ wire' = <<>> /\ replies' = <<>> /\ sent' = [sent EXCEPT ![c] = FALSE]
    BY <1>t, <1>4 DEF ConnectionLost, SendersOK, CallFails
  <2> QED BY <1>t, <2>1, NobodySends, IdleAfter
<1> QED
  BY <1>1, <1>2, <1>3, <1>4 DEF ClientStep

(* The worker's steps keep one request at a time.                            *)
LEMMA WorkerOneRequest ==
  ASSUME IInv, WorkerStep
  PROVE  OneRequest'
<1>t. TypeOK /\ SendersOK /\ WireOK /\ RepliesOK /\ WaitingOK
  BY DEF IInv
<1> DEFINE c == Head(wire).by
<1>w. /\ UNCHANGED <<todo, shot, sent, lock>> /\ wire # <<>>
      /\ Len(wire) = 1 /\ replies = <<>> /\ c \in Callers /\ sent[c]
      /\ Head(wire).op = Head(todo[c])
  BY <1>t, WorkerOutcome, WireHeader DEF WireOK
<1>1. ASSUME NEW ok \in BOOLEAN, NEW id \in Exposures \cup {NoId}, Reply(ok, id),
             ok /\ Head(wire).op = "trigger" => id \in Exposures
      PROVE  OneRequest'
  <2> DEFINE r == [by |-> c, ok |-> ok, id |-> id]
  <2>1. replies' = <<r>> /\ Len(replies') = 1 /\ Head(replies') = r /\ replies' # <<>>
    BY <1>1, <1>w DEF Reply
  <2>2. wire' = <<>>
    BY <1>1, <1>w, <1>t, TailOfOne DEF Reply, TypeOK
  <2>3. SendersOK'
    BY <1>t, <1>w, <2>1 DEF SendersOK, Granted
  <2>4. RepliesOK'
    BY <1>1, <1>w, <2>1, <2>2 DEF RepliesOK, AtTrigger
  <2>5. WireOK'
    BY <2>2 DEF WireOK
  <2> QED BY <2>3, <2>4, <2>5 DEF OneRequest
<1>2. CASE Crash
  <2>1. wire' = <<>> /\ worker' = "dead" /\ replies' = <<>>
    BY <1>2, <1>w DEF Crash
  <2>2. SendersOK'
    BY <1>t, <1>w, <2>1 DEF SendersOK, Granted
  <2> QED BY <2>1, <2>2 DEF OneRequest, WireOK, RepliesOK
<1>3. CASE worker' = "waiting" /\ worker = "ready" /\ UNCHANGED <<wire, replies>>
  BY <1>t, <1>w, <1>3 DEF OneRequest, SendersOK, WireOK, RepliesOK, Granted
<1> QED
  BY <1>t, <1>1, <1>2, <1>3, WorkerOutcome

(* Every step keeps one request at a time.                                   *)
LEMMA OneRequestStep ==
  ASSUME IInv, [Next]_vars
  PROVE  OneRequest'
<1>t. TypeOK /\ OneRequest /\ SendersOK /\ WireOK /\ RepliesOK
  BY DEF IInv, OneRequest
<1>1. ASSUME NEW c \in Callers, NEW p \in Programs, Start(c, p)
      PROVE  OneRequest'
  <2>1. /\ UNCHANGED <<shot, sent, wire, replies, worker>>
        /\ todo' = [todo EXCEPT ![c] = Requests[p]] /\ lock' = Append(lock, c)
    BY <1>1 DEF Start, backend
  <2>2. \A d \in Callers : sent[d] => d # c
    BY <1>t, <1>1 DEF SendersOK, Start
  <2>3. \A d \in Callers : sent[d] => todo'[d] = todo[d]
    BY <1>t, <2>1, <2>2 DEF TypeOK
  <2>4. \A d \in Callers : Granted(d) => Granted(d)'
    BY <1>t, <2>1, AppendHead, AppendTo DEF TypeOK, Granted
  <2>5. SendersOK'
    BY <1>t, <2>1, <2>3, <2>4 DEF SendersOK
  <2>6. WireOK'
    BY <1>t, <2>1, <2>3, WireHeader DEF WireOK
  <2>7. RepliesOK'
    BY <1>t, <2>1, <2>3, ReplyHeader DEF RepliesOK, AtTrigger
  <2> QED BY <2>5, <2>6, <2>7 DEF OneRequest
<1>2. CASE FileAdded \/ FileLost \/ Button \/ Unplug \/ Plug \/ UNCHANGED vars
  <2>1. UNCHANGED <<todo, shot, sent, lock, wire, replies, worker>>
    BY <1>2 DEF FileAdded, FileLost, Button, Unplug, Plug, vars, callers, client, backend
  <2> QED
    BY <1>t, <2>1 DEF OneRequest, SendersOK, WireOK, RepliesOK, Granted, AtTrigger
<1>3. CASE AppRestarts
  <2>1. wire' = <<>> /\ replies' = <<>> /\ \A c \in Callers : ~sent'[c]
    BY <1>3 DEF AppRestarts
  <2> QED BY <2>1, IdleAfter
<1> QED
  BY <1>1, <1>2, <1>3, ClientOneRequest, WorkerOneRequest DEF Next
-----------------------------------------------------------------------------
(* Every step keeps the files that may come to a waiting trigger fresh, and  *)
(* the capture_ids with them.                                                *)
LEMMA FreshStep ==
  ASSUME LinkAssumption, IInv, [Next]_vars
  PROVE  WaitingOK' /\ FreshPicture'
<1>t. TypeOK /\ OneRequest /\ WaitingOK /\ FreshPicture
  BY DEF IInv, OneRequest
<1>w. WireOK /\ RepliesOK /\ SendersOK
  BY DEF IInv
<1>e. events # <<>> => Head(events) = events[1] /\ 1 \in 1 .. Len(events)
  BY <1>t, TailOf DEF TypeOK
<1>f. pending' = Forgotten => FreshPicture'
  BY DEF Forgotten, FreshPicture
<1>1. ASSUME NEW c \in Callers, ClientStep(c) \/ \E p \in Programs : Start(c, p)
      PROVE  WaitingOK' /\ FreshPicture'
  <2>1. UNCHANGED <<worker, own, pending, presses, events, exposed>>
    BY <1>1 DEF ClientStep, Send, CannotReach, ReadReply, ConnectionLost, Start, backend, camera
  <2>2. worker = "waiting" => UNCHANGED wire
    <3>1. ASSUME worker = "waiting", Send(c)
          PROVE  FALSE
      BY <1>t, <3>1, IdleLine DEF Send, WaitingOK
    <3> QED
      BY <1>1, <3>1 DEF ClientStep, CannotReach, ReadReply, ConnectionLost, Start
  <2> QED
    BY <1>t, <2>1, <2>2 DEF WaitingOK, FreshPicture
<1>2. ASSUME WorkerStep
      PROVE  WaitingOK' /\ FreshPicture'
  <2>1. CASE ServeStatus \/ ServeDisconnect \/ ServeReconnect \/ ServePreview \/ TriggerRefused
             \/ NoFileComes
    <3>1. worker' # "waiting"
      BY <2>1 DEF ServeStatus, ServeDisconnect, ServeReconnect, ServePreview, TriggerRefused,
         NoFileComes, Reply, Crash
    <3>2. pending' \in {pending, Forgotten}
      BY <2>1 DEF ServeStatus, ServeDisconnect, ServeReconnect, ServePreview, TriggerRefused,
         NoFileComes
    <3> QED
      BY <1>t, <1>f, <3>1, <3>2 DEF WaitingOK, FreshPicture
  <2>2. CASE ServeFull
    <3>1. worker' # "waiting"
      BY <2>2 DEF ServeFull, Reply, Crash
    <3>2. \A i \in Exposures : pending'[i] \in {pending[i], NoFile}
      BY <1>t, <2>2 DEF ServeFull, TypeOK
    <3> QED
      BY <1>t, <3>1, <3>2 DEF WaitingOK, FreshPicture
  <2>3. CASE ServeTrigger
    <3>1. presses' = presses + 1 /\ presses + 1 \in Exposures
      BY <2>3, ToFire DEF ServeTrigger
    <3>2. exposed' = <<presses'>> /\ events' = <<>> /\ own' = presses'
          /\ pending' = pending /\ wire' = wire /\ wire # <<>> /\ Head(wire).op = "trigger"
      BY <2>3 DEF ServeTrigger, DrainStaleEvents, Asks
    <3>3. presses' \in Exposures /\ presses' \in Int
      BY <3>1 DEF Exposures
    <3>4. \A i \in 1 .. Len(exposed') : exposed'[i] = presses'
      BY <3>2
    <3>5. WaitingOK'
      BY <3>2, <3>3, <3>4 DEF WaitingOK
    <3>6. FreshPicture'
      BY <1>t, <3>2 DEF FreshPicture
    <3> QED BY <3>5, <3>6
  <2>4. CASE TakeFile
    <3>1. worker' # "waiting"
      BY <2>4 DEF TakeFile, Reply
    <3>2. pending' = [pending EXCEPT ![own] = Head(events)] /\ Head(events) >= own
      BY <1>t, <1>e, <2>4 DEF TakeFile, WaitingOK
    <3>3. FreshPicture'
      BY <1>t, <3>2 DEF FreshPicture, TypeOK
    <3> QED
      BY <3>1, <3>3 DEF WaitingOK
  <2> QED
    BY <1>2, <2>1, <2>2, <2>3, <2>4 DEF WorkerStep
<1>3. ASSUME FileAdded
      PROVE  WaitingOK' /\ FreshPicture'
  <2>1. /\ exposed # <<>> /\ exposed' = Tail(exposed)
        /\ events' \in {events, Append(events, Head(exposed))}
        /\ UNCHANGED <<worker, own, wire, presses, pending>>
    BY <1>3 DEF FileAdded, client, backend
  <2>2. /\ Head(exposed) = exposed[1] /\ 1 \in 1 .. Len(exposed) /\ Head(exposed) \in Exposures
        /\ \A i \in 1 .. Len(exposed') : i + 1 \in 1 .. Len(exposed) /\ exposed'[i] = exposed[i + 1]
    BY <1>t, <2>1, TailOf DEF TypeOK
  <2>3. ASSUME worker = "waiting"
        PROVE  /\ \A i \in 1 .. Len(exposed') : exposed'[i] >= own
               /\ Head(exposed) >= own
    BY <1>t, <2>2, <2>3 DEF WaitingOK
  <2>4. ASSUME worker = "waiting"
        PROVE  \A i \in 1 .. Len(events') : events'[i] >= own
    <3>1. CASE events' = events
      BY <1>t, <2>4, <3>1 DEF WaitingOK
    <3>2. CASE events' = Append(events, Head(exposed))
      <4>1. events \in Seq(Exposures)
        BY <1>t DEF TypeOK
      <4>2. \A i \in 1 .. Len(events') : \/ i \in 1 .. Len(events) /\ events'[i] = events[i]
                                         \/ events'[i] = Head(exposed)
        BY <4>1, <3>2, <2>2, AppendTo
      <4> QED
        BY <1>t, <2>3, <2>4, <4>2 DEF WaitingOK
    <3> QED BY <2>1, <3>1, <3>2
  <2> QED
    BY <1>t, <2>1, <2>3, <2>4 DEF WaitingOK, FreshPicture
<1>4. ASSUME FileLost
      PROVE  WaitingOK' /\ FreshPicture'
  <2>1. /\ exposed # <<>> /\ exposed' = Tail(exposed)
        /\ UNCHANGED <<worker, own, wire, presses, pending, events>>
    BY <1>4 DEF FileLost, client, backend
  <2>2. \A i \in 1 .. Len(exposed') : i + 1 \in 1 .. Len(exposed) /\ exposed'[i] = exposed[i + 1]
    BY <1>t, <2>1, TailOf DEF TypeOK
  <2> QED
    BY <1>t, <2>1, <2>2 DEF WaitingOK, FreshPicture
<1>5. ASSUME Button
      PROVE  WaitingOK' /\ FreshPicture'
  <2>1. /\ exposed' = Append(exposed, presses') /\ presses' = presses + 1
        /\ UNCHANGED <<worker, own, wire, pending, events>>
    BY <1>5 DEF Button, client, backend
  <2>2. presses \in Int /\ presses' \in Exposures /\ exposed \in Seq(Exposures)
    <3>1. presses' \in 0 .. MaxPresses
      BY BackendTypeStep
    <3> QED
      BY <1>t, <2>1, <3>1 DEF TypeOK, Exposures, LinkAssumption
  <2>3. ASSUME worker = "waiting"
        PROVE  own <= presses' /\ \A i \in 1 .. Len(exposed') : exposed'[i] >= own
    <3>1. own \in Int /\ own <= presses
      BY <1>t, <2>3 DEF WaitingOK, Exposures
    <3>2. \A i \in 1 .. Len(exposed') : \/ i \in 1 .. Len(exposed) /\ exposed'[i] = exposed[i]
                                        \/ exposed'[i] = presses'
      BY <2>1, <2>2, AppendTo
    <3>3. \A i \in 1 .. Len(exposed) : exposed[i] >= own
      BY <1>t, <2>3 DEF WaitingOK
    <3>4. own <= presses' /\ presses' >= own
      BY <2>1, <2>2, <3>1
    <3> QED BY <3>2, <3>3, <3>4
  <2> QED
    BY <1>t, <2>1, <2>3 DEF WaitingOK, FreshPicture
<1>6. ASSUME Unplug
      PROVE  WaitingOK' /\ FreshPicture'
  BY <1>t, <1>6 DEF Unplug, WaitingOK, FreshPicture, client
<1>7. ASSUME AppRestarts
      PROVE  WaitingOK' /\ FreshPicture'
  <2>1. worker' # "waiting" /\ pending' = Forgotten
    BY <1>7, StartupsType DEF AppRestarts
  <2> QED
    BY <1>f, <2>1 DEF WaitingOK
<1>8. CASE Plug \/ UNCHANGED vars
  BY <1>t, <1>8 DEF Plug, vars, client, backend, camera, WaitingOK, FreshPicture
<1> QED
  BY <1>1, <1>2, <1>3, <1>4, <1>5, <1>6, <1>7, <1>8 DEF Next
-----------------------------------------------------------------------------
(* Fewer triggers to fire, and no more exposures, stay within the bound.     *)
LEMMA BoundKept ==
  ASSUME LinkAssumption, TypeOK, WithinBound, Unfired' \subseteq Unfired, presses' = presses
  PROVE  WithinBound'
<1>1. IsFiniteSet(Unfired)
  BY FS_Subset DEF LinkAssumption, Unfired
<1>2. /\ Cardinality(Unfired) \in Nat /\ Cardinality(Unfired') \in Nat
      /\ Cardinality(Unfired') <= Cardinality(Unfired)
  BY <1>1, FS_Subset, FS_CardinalityType
<1> QED
  BY <1>2 DEF WithinBound, TypeOK, LinkAssumption

(* Where the bound on exposures leaves room, one more trigger may start.     *)
LEMMA BoundRoom ==
  ASSUME LinkAssumption, TypeOK, Asked < MaxPresses, NEW c \in Callers,
         Unfired' \subseteq Unfired \cup {c}, presses' = presses
  PROVE  WithinBound'
<1> DEFINE A == {d \in Callers : AtTrigger(d)}
<1>1. IsFiniteSet(A) /\ Unfired' \subseteq A \cup {c}
  BY FS_Subset DEF LinkAssumption, Unfired
<1>2. presses \in Nat /\ MaxPresses \in Nat /\ presses + Cardinality(A) < MaxPresses
  BY DEF TypeOK, LinkAssumption, Asked
<1> HIDE DEF A
<1>3. /\ IsFiniteSet(A \cup {c})
      /\ Cardinality(A \cup {c}) \in {Cardinality(A), Cardinality(A) + 1}
  BY <1>1, FS_AddElement
<1>4. Cardinality(A) \in Nat
  BY <1>1, FS_CardinalityType
<1>5. /\ Cardinality(Unfired') \in Nat /\ Cardinality(A \cup {c}) \in Nat
      /\ Cardinality(Unfired') <= Cardinality(A \cup {c})
  BY <1>1, <1>3, FS_Subset, FS_CardinalityType
<1> QED
  BY <1>2, <1>3, <1>4, <1>5 DEF WithinBound

(* Every step leaves the triggers under way within the bound on exposures.   *)
LEMMA BoundStep ==
  ASSUME LinkAssumption, IInv, [Next]_vars
  PROVE  WithinBound'
<1>t. TypeOK /\ WithinBound /\ SendersOK /\ RoutesOK /\ RepliesOK /\ OneRequest
  BY DEF IInv, OneRequest
<1>1. ASSUME NEW c \in Callers, NEW p \in Programs, Start(c, p)
      PROVE  WithinBound'
  <2>1. /\ UNCHANGED <<sent, replies, worker, presses>>
        /\ todo' = [todo EXCEPT ![c] = Requests[p]]
        /\ Head(Requests[p]) = "trigger" => Asked < MaxPresses
    BY <1>1 DEF Start, backend, camera
  <2>2. \A d \in Callers \ {c} : todo'[d] = todo[d]
    BY <1>t, <2>1 DEF TypeOK
  <2>3. Unfired' \subseteq Unfired \cup {c}
    BY <2>1, <2>2 DEF Unfired, AtTrigger, Fired
  <2>4. CASE Head(Requests[p]) = "trigger"
    BY <1>t, <2>1, <2>3, <2>4, BoundRoom
  <2>5. CASE Head(Requests[p]) # "trigger"
    <3>1. todo'[c] = Requests[p]
      BY <1>t, <2>1 DEF TypeOK
    <3>2. c \notin Unfired'
      BY <2>5, <3>1 DEF Unfired, AtTrigger
    <3>3. Unfired' \subseteq Unfired
      BY <2>3, <3>2
    <3> QED BY <1>t, <2>1, <3>3, BoundKept
  <2> QED BY <2>4, <2>5
<1>2. ASSUME NEW c \in Callers, ClientStep(c)
      PROVE  WithinBound'
  <2>1. presses' = presses /\ worker' = worker
    BY <1>2 DEF ClientStep, Send, CannotReach, ReadReply, ConnectionLost, backend, camera
  <2>2. CASE Send(c)
    <3>1. \A d \in Callers : ~sent[d] /\ ~Fired(d)
      BY <1>t, <2>2, IdleLine DEF Send, Fired
    <3>2. Unfired' \subseteq Unfired
      BY <3>1, <2>2 DEF Unfired, AtTrigger, Send
    <3> QED BY <1>t, <2>1, <3>2, BoundKept
  <2>3. CASE ~Send(c)
    <3>1. /\ todo'[c] = <<>> \/ (todo'[c] = Tail(todo[c]) /\ todo[c] # <<>>)
          /\ \A d \in Callers \ {c} : todo'[d] = todo[d]
      BY <1>t, <1>2, <2>3 DEF ClientStep, CannotReach, ReadReply, ConnectionLost, CallFails,
         SendersOK, TypeOK
    <3>2. ~AtTrigger(c)'
      BY <1>t, <3>1, RouteTail DEF AtTrigger, RoutesOK
    <3>3. Granted(c)
      BY <1>t, <1>2, <2>3 DEF ClientStep, CannotReach, ReadReply, ConnectionLost, SendersOK
    <3>4. \A d \in Callers \ {c} : ~sent[d]
      BY <1>t, <3>3 DEF SendersOK, Granted
    <3>5. Unfired' \subseteq Unfired
      BY <3>1, <3>2, <3>4 DEF Unfired, AtTrigger, Fired
    <3> QED BY <1>t, <2>1, <3>5, BoundKept
  <2> QED BY <2>2, <2>3
<1>3. ASSUME WorkerStep
      PROVE  WithinBound'
  <2> DEFINE c == Head(wire).by
  <2>1. /\ UNCHANGED <<todo, sent>> /\ replies = <<>> /\ c \in Callers
        /\ \A d \in Callers : sent[d] => d = c
    BY <1>t, <1>3, WorkerOutcome, WireHeader, OneSender DEF IInv
  <2>2. CASE ServeTrigger
    <3>1. presses' = presses + 1 /\ worker' = "waiting" /\ c \in Unfired /\ sent[c]
      BY <1>3, <2>2, ToFire, WireHeader DEF ServeTrigger, Asks, IInv
    <3>2. Unfired' \subseteq Unfired \ {c}
      BY <2>1, <3>1 DEF Unfired, AtTrigger, Fired
    <3>3. IsFiniteSet(Unfired) /\ IsFiniteSet(Unfired \ {c})
      BY FS_Subset DEF LinkAssumption, Unfired
    <3>4. Cardinality(Unfired \ {c}) = Cardinality(Unfired) - 1
      BY <3>1, <3>3, FS_RemoveElement
    <3>5. /\ Cardinality(Unfired) \in Nat /\ Cardinality(Unfired') \in Nat
          /\ Cardinality(Unfired \ {c}) \in Nat
          /\ Cardinality(Unfired') <= Cardinality(Unfired \ {c})
      BY <3>2, <3>3, FS_Subset, FS_CardinalityType
    <3> QED
      BY <1>t, <3>1, <3>4, <3>5 DEF WithinBound, TypeOK, LinkAssumption
  <2>3. CASE ~ServeTrigger
    <3>1. presses' = presses
      BY <1>3, <2>3 DEF WorkerStep, ServeStatus, ServeDisconnect, ServeReconnect, ServePreview,
         ServeFull, TriggerRefused, TakeFile, NoFileComes
    <3>2. worker = "waiting" => replies' # <<>>
      BY <1>3, <2>1, <2>3, WorkerOutcome DEF WorkerStep, ServeStatus, ServeDisconnect,
         ServeReconnect, ServePreview, ServeFull, TriggerRefused, TakeFile, NoFileComes, Asks, Reply
    <3>3. Unfired' \subseteq Unfired
      BY <2>1, <3>2 DEF Unfired, AtTrigger, Fired
    <3> QED BY <1>t, <3>1, <3>3, BoundKept
  <2> QED BY <2>2, <2>3
<1>4. CASE Button
  <2>1. /\ UNCHANGED <<todo, sent, replies, worker>> /\ presses' = presses + 1
        /\ Asked < MaxPresses
    BY <1>4 DEF Button, callers, client, backend
  <2>2. Unfired' = Unfired
    BY <2>1 DEF Unfired, AtTrigger, Fired
  <2>3. IsFiniteSet(Unfired) /\ Cardinality({d \in Callers : AtTrigger(d)}) \in Nat
        /\ Cardinality(Unfired) <= Cardinality({d \in Callers : AtTrigger(d)})
        /\ Cardinality(Unfired) \in Nat
    <3>1. IsFiniteSet({d \in Callers : AtTrigger(d)}) /\ Unfired \subseteq {d \in Callers : AtTrigger(d)}
      BY FS_Subset DEF LinkAssumption, Unfired
    <3> QED BY <3>1, FS_Subset, FS_CardinalityType
  <2> QED
    BY <1>t, <2>1, <2>2, <2>3 DEF WithinBound, Asked, TypeOK, LinkAssumption
<1>5. CASE FileAdded \/ FileLost \/ Unplug \/ Plug \/ UNCHANGED vars
  <2>1. UNCHANGED <<todo, sent, replies, worker, presses>>
    BY <1>5 DEF FileAdded, FileLost, Unplug, Plug, vars, callers, client, backend, camera
  <2>2. Unfired' \subseteq Unfired
    BY <2>1 DEF Unfired, AtTrigger, Fired
  <2> QED BY <1>t, <2>1, <2>2, BoundKept
<1>6. CASE AppRestarts
  <2>1. Unfired' = {} /\ presses' = presses
    BY <1>6 DEF AppRestarts, Unfired, AtTrigger
  <2> QED BY <1>t, <2>1, BoundKept
<1> QED
  BY <1>1, <1>2, <1>3, <1>4, <1>5, <1>6 DEF Next

(* Who lets the lock go leaves all the others in the queue.                  *)
LEMMA LockPopped ==
  ASSUME TypeOK, LockOK, NEW c \in Callers, Granted(c)
  PROVE  /\ Tail(lock) \in Seq(Callers)
         /\ \A i, j \in 1 .. Len(Tail(lock)) : Tail(lock)[i] = Tail(lock)[j] => i = j
         /\ \A d \in Callers : (\E i \in 1 .. Len(Tail(lock)) : Tail(lock)[i] = d)
                                 <=> d # c /\ Queued(d)
<1> DEFINE l == Tail(lock)
<1>1. /\ lock # <<>> /\ lock[1] = c /\ 1 \in 1 .. Len(lock) /\ Len(lock) \in Nat
      /\ Len(l) = Len(lock) - 1 /\ l \in Seq(Callers)
      /\ \A i \in 1 .. Len(l) : i + 1 \in 1 .. Len(lock) /\ l[i] = lock[i + 1]
  BY TailOf, LenProperties DEF TypeOK, Granted
<1> HIDE DEF l
<1>2. \A i, j \in 1 .. Len(l) : l[i] = l[j] => i = j
  <2> SUFFICES ASSUME NEW i \in 1 .. Len(l), NEW j \in 1 .. Len(l), l[i] = l[j]
               PROVE  i = j
    OBVIOUS
  <2>1. i + 1 = j + 1
    BY <1>1 DEF LockOK
  <2> QED BY <2>1
<1>3. ASSUME NEW d \in Callers, NEW i \in 1 .. Len(l), l[i] = d
      PROVE  d # c /\ Queued(d)
  <2>1. i + 1 \in 1 .. Len(lock) /\ lock[i + 1] = d /\ i + 1 # 1
    BY <1>1, <1>3
  <2> QED BY <1>1, <2>1 DEF LockOK, Queued
<1>4. ASSUME NEW d \in Callers, d # c, Queued(d)
      PROVE  \E i \in 1 .. Len(l) : l[i] = d
  <2>1. PICK i \in 1 .. Len(lock) : lock[i] = d
    BY <1>4 DEF Queued
  <2>2. i # 1
    BY <1>1, <1>4, <2>1
  <2>3. i - 1 \in 1 .. Len(l) /\ (i - 1) + 1 = i
    BY <1>1, <2>2
  <2>4. l[i - 1] = d
    BY <1>1, <2>1, <2>3
  <2> QED BY <2>3, <2>4
<1> QED
  BY <1>1, <1>2, <1>3, <1>4 DEF l

(* Who joins the queue waits in it like everybody else.                      *)
LEMMA LockJoined ==
  ASSUME NEW l \in Seq(Callers), NEW c \in Callers,
         \A i, j \in 1 .. Len(l) : l[i] = l[j] => i = j,
         \A i \in 1 .. Len(l) : l[i] # c
  PROVE  /\ \A i, j \in 1 .. Len(Append(l, c)) : Append(l, c)[i] = Append(l, c)[j] => i = j
         /\ \A d \in Callers : (\E i \in 1 .. Len(Append(l, c)) : Append(l, c)[i] = d)
                                 <=> d = c \/ \E i \in 1 .. Len(l) : l[i] = d
<1> DEFINE m == Append(l, c)
<1>1. /\ \A i \in 1 .. Len(m) : \/ i \in 1 .. Len(l) /\ m[i] = l[i]
                                \/ i = Len(l) + 1 /\ m[i] = c
      /\ \A i \in 1 .. Len(l) : i \in 1 .. Len(m) /\ m[i] = l[i]
      /\ Len(l) + 1 \in 1 .. Len(m) /\ m[Len(l) + 1] = c
  BY AppendTo
<1> HIDE DEF m
<1>2. \A i, j \in 1 .. Len(m) : m[i] = m[j] => i = j
  BY <1>1
<1>3. \A d \in Callers : (\E i \in 1 .. Len(m) : m[i] = d)
                           <=> d = c \/ \E i \in 1 .. Len(l) : l[i] = d
  BY <1>1
<1> QED BY <1>2, <1>3 DEF m

(* Every step leaves exactly those who use the client in the queue, once.    *)
LEMMA LockStep ==
  ASSUME LinkAssumption, IInv, [Next]_vars
  PROVE  LockOK'
<1>t. TypeOK /\ LockOK /\ SendersOK /\ RoutesOK
  BY DEF IInv
<1>1. ASSUME NEW c \in Callers, NEW p \in Programs, Start(c, p)
      PROVE  LockOK'
  <2>1. /\ lock' = Append(lock, c) /\ todo[c] = <<>> /\ Requests[p] # <<>>
        /\ todo' = [todo EXCEPT ![c] = Requests[p]]
    BY <1>1, RouteType DEF Start, LinkAssumption
  <2>2. \A i \in 1 .. Len(lock) : lock[i] # c
    BY <1>t, <2>1 DEF LockOK, Queued
  <2>3. /\ \A i, j \in 1 .. Len(lock') : lock'[i] = lock'[j] => i = j
        /\ \A d \in Callers : Queued(d)' <=> d = c \/ Queued(d)
    <3>1. lock \in Seq(Callers) /\ \A i, j \in 1 .. Len(lock) : lock[i] = lock[j] => i = j
      BY <1>t DEF TypeOK, LockOK
    <3>2. /\ \A i, j \in 1 .. Len(lock') : lock'[i] = lock'[j] => i = j
          /\ \A d \in Callers : (\E i \in 1 .. Len(lock') : lock'[i] = d)
                                  <=> d = c \/ \E i \in 1 .. Len(lock) : lock[i] = d
      BY <2>1, <2>2, <3>1, LockJoined
    <3> QED BY <3>2 DEF Queued
  <2>4. \A d \in Callers : todo'[d] # <<>> <=> d = c \/ todo[d] # <<>>
    BY <1>t, <2>1 DEF TypeOK
  <2> QED BY <1>t, <2>3, <2>4 DEF LockOK
<1>2. ASSUME NEW c \in Callers, Granted(c), lock' = Tail(lock), todo' = [todo EXCEPT ![c] = <<>>]
      PROVE  LockOK'
  <2>1. \A d \in Callers : todo'[d] # <<>> <=> d # c /\ todo[d] # <<>>
    BY <1>t, <1>2 DEF TypeOK
  <2>2. \A d \in Callers : Queued(d)' <=> d # c /\ Queued(d)
    BY <1>t, <1>2, LockPopped DEF Queued
  <2> QED BY <1>t, <1>2, <2>1, <2>2, LockPopped DEF LockOK
<1>3. ASSUME NEW c \in Callers, Granted(c), lock' = Append(Tail(lock), c),
             todo' = [todo EXCEPT ![c] = Tail(@)], Tail(todo[c]) # <<>>
      PROVE  LockOK'
  <2>1. /\ \A i, j \in 1 .. Len(lock') : lock'[i] = lock'[j] => i = j
        /\ \A d \in Callers : Queued(d)' <=> d = c \/ Queued(d)
    <3> DEFINE l == Tail(lock)
    <3>1. /\ l \in Seq(Callers) /\ \A i, j \in 1 .. Len(l) : l[i] = l[j] => i = j
          /\ \A d \in Callers : (\E i \in 1 .. Len(l) : l[i] = d) <=> d # c /\ Queued(d)
      BY <1>t, <1>3, LockPopped
    <3> HIDE DEF l
    <3>2. \A i \in 1 .. Len(l) : l[i] # c
      BY <3>1
    <3>3. lock' = Append(l, c)
      BY <1>3 DEF l
    <3>4. /\ \A i, j \in 1 .. Len(lock') : lock'[i] = lock'[j] => i = j
          /\ \A d \in Callers : (\E i \in 1 .. Len(lock') : lock'[i] = d)
                                  <=> d = c \/ \E i \in 1 .. Len(l) : l[i] = d
      BY <3>1, <3>2, <3>3, LockJoined
    <3>5. ASSUME NEW d \in Callers
          PROVE  Queued(d)' <=> d = c \/ Queued(d)
      <4>1. Queued(d)' <=> d = c \/ \E i \in 1 .. Len(l) : l[i] = d
        BY <3>4 DEF Queued
      <4> QED BY <4>1, <3>1
    <3> QED BY <3>4, <3>5
  <2>2. \A d \in Callers : todo'[d] # <<>> <=> d = c \/ todo[d] # <<>>
    <3>1. todo'[c] # <<>> /\ \A d \in Callers \ {c} : todo'[d] = todo[d]
      BY <1>t, <1>3 DEF TypeOK
    <3> QED BY <3>1
  <2>3. \A d \in Callers : todo'[d] # <<>> <=> Queued(d)'
    BY <1>t, <2>1, <2>2 DEF LockOK
  <2> QED BY <2>1, <2>3 DEF LockOK
<1>4. ASSUME NEW c \in Callers, ClientStep(c)
      PROVE  LockOK'
  <2>1. CASE Send(c)
    BY <1>t, <2>1 DEF Send, LockOK, Queued
  <2>2. CASE CannotReach(c) \/ ConnectionLost(c)
    BY <1>t, <1>2, <2>2 DEF CannotReach, ConnectionLost, CallFails, Released, SendersOK
  <2>3. CASE ReadReply(c)
    <3>1. Granted(c) /\ todo[c] # <<>> /\ (Tail(todo[c]) = <<>> <=> Len(todo[c]) = 1)
      BY <1>t, <2>3, RouteTail DEF ReadReply, SendersOK, RoutesOK
    <3>2. CASE CallFails(c)
      BY <1>2, <3>1, <3>2 DEF CallFails, Released
    <3>3. CASE ~CallFails(c) /\ Len(todo[c]) = 1
      <4>1. lock' = Tail(lock) /\ todo' = [todo EXCEPT ![c] = <<>>]
        BY <2>3, <3>1, <3>3 DEF ReadReply, Released
      <4> QED BY <1>2, <3>1, <4>1
    <3>4. CASE ~CallFails(c) /\ Len(todo[c]) # 1
      BY <1>3, <2>3, <3>1, <3>4 DEF ReadReply, Released
    <3> QED BY <3>2, <3>3, <3>4
  <2> QED BY <1>4, <2>1, <2>2, <2>3 DEF ClientStep
<1>5. CASE WorkerStep \/ FileAdded \/ FileLost \/ Button \/ Unplug \/ Plug \/ UNCHANGED vars
  <2>1. UNCHANGED <<todo, lock>>
    BY <1>5 DEF WorkerStep, FileAdded, FileLost, Button, Unplug, Plug, vars, callers, client
  <2> QED BY <1>t, <2>1 DEF LockOK, Queued
<1>6. CASE AppRestarts
  <2>1. lock' = <<>> /\ \A c \in Callers : todo'[c] = <<>>
    BY <1>6 DEF AppRestarts
  <2>2. 1 .. Len(lock') = {}
    BY <2>1
  <2> QED BY <2>1, <2>2 DEF LockOK, Queued
<1> QED
  BY <1>1, <1>4, <1>5, <1>6 DEF Next
-----------------------------------------------------------------------------
(* The inductive invariant.                                                  *)
LEMMA InductiveIInv ==
  ASSUME LinkAssumption
  PROVE  /\ Init => IInv
         /\ IInv /\ [Next]_vars => IInv'
<1>1. ASSUME Init
      PROVE  IInv
  <2>1. /\ \A c \in Callers : todo[c] = <<>> /\ ~sent[c]
        /\ lock = <<>> /\ wire = <<>> /\ replies = <<>>
        /\ exposed = <<>> /\ events = <<>> /\ pending = Forgotten /\ presses = 0
    BY <1>1 DEF Init
  <2>2. /\ conn \in BOOLEAN /\ worker \in {"ready", "dead"} /\ handle \in {"none", "live"}
    BY <1>1, StartupsType DEF Init
  <2>3. TypeOK
    <3>1. /\ <<>> \in Seq(Ops) /\ <<>> \in Seq(Callers) /\ <<>> \in Seq(Exposures)
          /\ <<>> \in Seq([by : Callers, op : Ops, id : Exposures \cup {NoId}])
          /\ <<>> \in Seq([by : Callers, ok : BOOLEAN, id : Exposures \cup {NoId}])
      OBVIOUS
    <3>2. pending \in [Exposures -> Exposures \cup {NoFile}]
      BY <2>1 DEF Forgotten
    <3>3. /\ todo \in [Callers -> Seq(Ops)] /\ shot \in [Callers -> Exposures \cup {NoId}]
          /\ sent \in [Callers -> BOOLEAN] /\ own \in Exposures \cup {NoId}
          /\ plugged \in BOOLEAN /\ unplugs = 0 /\ boots = 0
      BY <1>1, <3>1 DEF Init
    <3> QED
      BY <2>1, <2>2, <3>1, <3>2, <3>3 DEF TypeOK, LinkAssumption
  <2>4. RoutesOK /\ SendersOK /\ WireOK /\ RepliesOK /\ WaitingOK
    BY <2>1, <2>2 DEF RoutesOK, AtPicture, Remaining, SendersOK, WireOK, RepliesOK, WaitingOK
  <2>5. LockOK
    <3>1. 1 .. Len(lock) = {}
      BY <2>1
    <3> QED BY <2>1, <3>1 DEF LockOK, Queued
  <2>6. WithinBound
    <3>1. Unfired = {}
      BY <2>1 DEF Unfired, AtTrigger
    <3>2. Cardinality(Unfired) = 0
      BY <3>1, FS_EmptySet
    <3> QED BY <2>1, <3>2 DEF WithinBound, LinkAssumption
  <2>7. FreshPicture
    BY <2>1 DEF FreshPicture, Forgotten
  <2> QED
    BY <2>3, <2>4, <2>5, <2>6, <2>7 DEF IInv
<1>2. ASSUME IInv, [Next]_vars
      PROVE  IInv'
  BY <1>2, TypeStep, RoutesStep, OneRequestStep, FreshStep, BoundStep, LockStep
     DEF IInv, OneRequest
<1> QED BY <1>1, <1>2

(* The inductive invariant holds in every behaviour.                         *)
LEMMA AlwaysIInv == Spec => []IInv
<1>1. Init => IInv
  BY InductiveIInv, LinkAssumption
<1>2. IInv /\ [Next]_vars => IInv'
  BY InductiveIInv, LinkAssumption
<1> QED BY <1>1, <1>2, PTL DEF Spec

(* Type correctness: in particular no capture_id is handed out beyond the    *)
(* exposures made.                                                           *)
THEOREM TypeCorrect == Spec => []TypeOK
<1>1. IInv => TypeOK
  BY DEF IInv
<1> QED BY <1>1, AlwaysIInv, PTL

(* A capture_id never stands for a picture older than its own trigger,       *)
(* whatever presses the shutter button, fails or restarts                    *)
(* (gphoto.py:133-147).                                                      *)
THEOREM PicturesFresh == Spec => []FreshPicture
<1>1. IInv => FreshPicture
  BY DEF IInv
<1> QED BY <1>1, AlwaysIInv, PTL

(* A caller only ever reads the answer to its own request (client.py:8-12).  *)
THEOREM AnswersOwn == Spec => OwnAnswers
<1>1. IInv => \A c \in Callers : sent[c] /\ replies # <<>> => Head(replies).by = c
  BY ReplyHeader, OneSender DEF IInv
<1>2. IInv /\ [Next]_vars =>
        [\A c \in Callers :
           sent[c] /\ ~sent'[c] /\ replies # <<>> /\ replies' = Tail(replies)
             /\ boots' = boots
           => Head(replies).by = c]_vars
  BY <1>1
<1> QED BY <1>2, AlwaysIInv, PTL DEF Spec, OwnAnswers

(* Nobody who has a request to make is forgotten by the lock or queued twice *)
(* (client.py:61-83), and no answer is lost: while a request is out, it is   *)
(* on the wire, answered, or the worker has ended.  Liveness needs both.     *)
NobodyForgotten ==
  /\ \A c \in Callers : todo[c] # <<>> <=> Queued(c)
  /\ \A i, j \in 1 .. Len(lock) : lock[i] = lock[j] => i = j
  /\ \A c \in Callers : sent[c] => wire # <<>> \/ replies # <<>> \/ worker = "dead"

(* It holds for any number of callers and routes, across restarts and calls  *)
(* that raise (client.py:61-83).                                             *)
THEOREM CallersServed == Spec => []NobodyForgotten
<1>1. IInv => NobodyForgotten
  BY DEF IInv, NobodyForgotten, LockOK, SendersOK
<1> QED BY <1>1, AlwaysIInv, PTL

(* The worker is asked for the pictures of a capture_id only if a trigger of *)
(* the same caller returned it, so self._pending is never asked for an id    *)
(* that was not made (gphoto.py:183-206); it may have been forgotten since.  *)
IdsHandedOut ==
  wire # <<>> /\ Head(wire).op \in {"preview", "full"} => Head(wire).id \in Exposures

(* It holds however callers interleave between their trigger and downloads   *)
(* (client.py:61-83, gphoto.py:183-206).                                     *)
THEOREM IdsKnown == Spec => []IdsHandedOut
<1>1. ASSUME IInv, wire # <<>>, Head(wire).op \in {"preview", "full"}
      PROVE  Head(wire).id \in Exposures
  <2> DEFINE c == Head(wire).by
  <2>1. c \in Callers /\ sent[c] /\ Head(wire).op = Head(todo[c]) /\ Head(wire).id = shot[c]
    BY <1>1, WireHeader DEF IInv, WireOK
  <2>2. AtPicture(c)
    BY <1>1, <2>1 DEF IInv, SendersOK, AtPicture
  <2> QED BY <1>1, <2>1, <2>2 DEF IInv, RoutesOK
<1>2. IInv => IdsHandedOut
  BY <1>1 DEF IdsHandedOut
<1> QED BY <1>2, AlwaysIInv, PTL
=============================================================================
