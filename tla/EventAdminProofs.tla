-------------------------- MODULE EventAdminProofs --------------------------
(* Proofs about the operator's changes, for any events, formats, saves and   *)
(* restarts, and power losses at any step.  Type correctness holds for any   *)
(* pages and requests; the rest is about one operator.                       *)
EXTENDS EventAdmin, TLAPS

(* One request at a time, from any number of pages; one page.                *)
OneAtATime == \A r, s \in Requests : r = s
SinglePage    == \A p, q \in Pages : p = q

(* Where the handler of each kind of request can stand.                      *)
StepsOf(kind) ==
  {step \in Steps :
     \/ step = "begin"
     \/ step = "reply" /\ kind # "none"
     \/ step \in {"open", "write"} /\ kind \in EventKinds \ {"delete"}
     \/ step = "image" /\ kind = "upload"
     \/ step = "load" /\ kind = "duplicate"
     \/ step \in {"rmtree", "rmdir"} /\ kind = "delete"
     \/ step \in {"read", "truncate", "flush"} /\ kind \in ConfigKinds}

StepsOK ==
  \A r \in Requests : /\ req[r].at \in StepsOf(req[r].kind)
                      /\ req[r].kind # "none" => up /\ req[r].from \in Pages

(* An upload carries a file of a known format.                               *)
UploadsOK == \A r \in Requests : req[r].kind = "upload" => req[r].body.image \in Formats

(* The file is what was meant, and so is what a handler has read of it.      *)
ConfigOK ==
  /\ config = meant
  /\ \A r \in Requests :
       req[r].kind \in ConfigKinds /\ req[r].at \in {"truncate", "flush"} => req[r].cfg = config

(* A directory that is not there has no files, and a request that works on a *)
(* directory finds it there.                                                 *)
DirsOK ==
  /\ \A e \in Ids \ dirs : yaml[e] = "missing" /\ images[e] = {}
  /\ \A r \in Requests :
       req[r].kind \in EventKinds /\ req[r].at \in Steps \ {"begin", "reply"} => req[r].on \in dirs

(* An activation between the process's memory and the config file.           *)
Activating(r) == req[r].kind = "activate" /\ req[r].at \in {"read", "truncate", "flush"}

(* The event that is served is there, in the file and in memory, which agree *)
(* but during an activation; a deletion that goes on is of another event.    *)
ActiveOK ==
  /\ config.active \in dirs /\ yaml[config.active] # "missing"
  /\ up => configWhole \/ \E r \in Requests : req[r].at = "flush"
  /\ up => active = config.active \/ \E r \in Requests : Activating(r)
  /\ \A r \in Requests :
       /\ Activating(r) => active = req[r].on /\ active \in dirs /\ yaml[active] # "missing"
       /\ req[r].kind = "delete" /\ req[r].at \in {"rmtree", "rmdir"} => req[r].on # config.active

(* A whole event with the background it names, and content that makes one.   *)
Fits(e, b) == b.id = e /\ b.image \in images[e] \cup {NoImage}
Sound(e)   == yaml[e] = "whole" /\ Fits(e, event[e])

(* What a request carries or has read for the directory it works on.         *)
Carries(q) ==
  /\ q.kind = "save" => q.body.id = q.on
  /\ q.kind = "create" => q.body.id = q.on /\ q.body.image = NoImage
  /\ q.kind = "duplicate" /\ q.at \in {"open", "write", "reply"} => q.body.id = q.on
  /\ q.kind \in EventKinds \ {"delete"} /\ q.at = "reply" =>
       q.on \in dirs /\ Loads(q.on) /\ event[q.on] = q.body
  /\ q.kind = "delete" /\ q.at = "reply" => q.on \notin dirs

CarriesOK == \A r \in Requests : Carries(req[r])

(* How far a request has brought a directory that no crash has hurt.         *)
Untouched(q) == \/ q.at \in {"begin", "reply", "rmtree"}
                \/ q.kind = "save" /\ q.at = "open"

Progress(q) ==
  LET e == q.on IN
  q.kind \in EventKinds /\ e \in dirs \ hurt =>
    /\ Untouched(q) => Sound(e)
    /\ q.at \in {"open", "write"} \/ q.kind = "save" => Fits(e, q.body)
    /\ q.kind = "upload" /\ q.at \in {"image", "open"} => event[e].id = e
    /\ q.kind = "upload" /\ q.at = "image" => q.body.id = e
    /\ q.kind = "delete" /\ q.at = "rmdir" /\ Loads(e) => event[e].id = e
    /\ q.kind = "create" /\ q.at = "open" => ~Loads(e)
    /\ q.at = "write" => ~Loads(e)
    /\ q.kind = "duplicate" /\ q.at \in {"load", "open"} =>
         /\ q.copy \in dirs /\ q.copy # e /\ Sound(q.copy)
         /\ images[e] = images[q.copy] /\ event[e] = event[q.copy]

ProgressOK == \A r \in Requests : Progress(req[r])

QuietOK == \A e \in dirs \ hurt : Quiet(e) => Sound(e)

(* A draft is of an event that is there, or was hurt, or is being deleted;   *)
(* and it names a file its event has, unless a request is just changing that.*)
Deleted(e) == \E r \in Requests : req[r].kind = "delete" /\ req[r].at = "reply" /\ req[r].on = e
Changing(e) ==
  \E r \in Requests :
    /\ req[r].on = e
    /\ \/ req[r].kind = "upload" /\ req[r].at # "begin"
       \/ req[r].kind = "delete" /\ req[r].at \in {"rmdir", "reply"}

DraftsOK ==
  \A p \in Pages :
    LET e == draft[p].id IN
    hasDraft[p] => /\ e \in dirs \cup hurt \/ Deleted(e)
                   /\ e \in dirs \ hurt => Changing(e) \/ Fits(e, draft[p])

TInv == TypeOK /\ StepsOK /\ UploadsOK

EventsOK == CarriesOK /\ ProgressOK /\ QuietOK /\ DraftsOK

IInv == TInv /\ ConfigOK /\ DirsOK /\ ActiveOK /\ EventsOK
-----------------------------------------------------------------------------
(* What a request is made of.                                                *)
RequestType ==
  [kind : EventKinds \cup ConfigKinds \cup {"none"}, at : Steps,
   from : Pages \cup {NoEvent}, on : Ids, copy : Ids,
   body : EventConfig, blank : BOOLEAN, cfg : Config]

(* The constants of the booth as delivered are typed.                        *)
LEMMA DeliveredType ==
  ASSUME AdminAssumption
  PROVE  Blank \in EventConfig /\ AsDelivered \in Config /\ Free \in RequestType
<1>1. 0 \in 0 .. MaxSaves
  BY DEF AdminAssumption
<1>2. Blank \in EventConfig /\ AsDelivered \in Config
  BY <1>1 DEF AdminAssumption, Blank, EventConfig, AsDelivered, Config
<1> QED
  BY <1>2 DEF AdminAssumption, Free, RequestType, Steps

(* A request record whose fields are replaced stays typed.                   *)
LEMMA FieldsType ==
  ASSUME NEW q \in RequestType
  PROVE  /\ \A p \in Pages : [q EXCEPT !.from = p] \in RequestType
         /\ \A step \in Steps : [q EXCEPT !.at = step] \in RequestType
         /\ \A step \in Steps, b \in EventConfig :
              [q EXCEPT !.at = step, !.body = b] \in RequestType
         /\ \A step \in Steps, c \in Config :
              [q EXCEPT !.at = step, !.cfg = c] \in RequestType
  BY DEF RequestType

(* What a page sends: the whole draft, when it saves.                        *)
SentBy(r, p, n) ==
  /\ req' = [req EXCEPT ![r] = n]
  /\ n.from = p /\ n.at = "begin" /\ n.kind \in EventKinds \cup ConfigKinds
  /\ n.kind = "save" => /\ hasDraft[p] /\ n.on = draft[p].id
                        /\ n.body.id = n.on /\ n.body.image = draft[p].image
  /\ n.kind = "create" => n.body.id = n.on /\ n.body.image = NoImage
  /\ n.kind = "upload" => n.body.image \in Formats

LEMMA OperatorSends ==
  ASSUME AdminAssumption, TypeOK, NEW r \in Requests, NEW p \in Pages, Operator(r, p)
  PROVE  /\ \E n \in RequestType : SentBy(r, p, n)
         /\ up /\ req[r].kind = "none" /\ saves' \in 0 .. MaxSaves
         /\ UNCHANGED <<events, configFile, process, page, hurt, boots>>
<1> DEFINE Goal == /\ \E n \in RequestType : SentBy(r, p, n)
                   /\ up /\ req[r].kind = "none" /\ saves' \in 0 .. MaxSaves
                   /\ UNCHANGED <<events, configFile, process, page, hurt, boots>>
<1>f. Free \in RequestType /\ Free.at = "begin" /\ Free.body = Blank
  BY DeliveredType DEF Free
<1>n. saves \in 0 .. MaxSaves /\ MaxSaves \in Nat /\ (NextSave => saves + 1 \in 0 .. MaxSaves)
  BY DEF TypeOK, AdminAssumption, NextSave
<1>s. ASSUME NEW m \in RequestType, Send(r, p, m),
             m.at = "begin", m.kind \in EventKinds \cup ConfigKinds,
             m.kind = "save" => /\ hasDraft[p] /\ m.on = draft[p].id
                                /\ m.body.id = m.on /\ m.body.image = draft[p].image,
             m.kind = "create" => m.body.id = m.on /\ m.body.image = NoImage,
             m.kind = "upload" => m.body.image \in Formats,
             saves' \in 0 .. MaxSaves
      PROVE  Goal
  <2> DEFINE n == [m EXCEPT !.from = p]
  <2>1. /\ n \in RequestType /\ n.from = p /\ n.at = m.at /\ n.kind = m.kind
        /\ n.on = m.on /\ n.body = m.body
    BY DEF RequestType
  <2>2. req' = [req EXCEPT ![r] = n] /\ up /\ req[r].kind = "none"
        /\ UNCHANGED <<events, configFile, process, page, hurt, boots>>
    BY <1>s DEF Send
  <2> HIDE DEF n
  <2>3. SentBy(r, p, n)
    BY <1>s, <2>1, <2>2 DEF SentBy
  <2> QED BY <1>s, <2>1, <2>2, <2>3
<1>1. CASE SendSave(r, p)
  <2>1. PICK text \in {draft[p].text, saves + 1} :
          /\ IF text = draft[p].text THEN UNCHANGED saves ELSE NextSave
          /\ Send(r, p, [Free EXCEPT !.kind = "save", !.on = draft[p].id,
                                     !.body = [draft[p] EXCEPT !.text = text]])
    BY <1>1 DEF SendSave
  <2>2. hasDraft[p] /\ draft[p] \in EventConfig
    BY <1>1 DEF SendSave, TypeOK
  <2>3. text \in 0 .. MaxSaves /\ saves' \in 0 .. MaxSaves
    BY <1>n, <2>1, <2>2 DEF EventConfig, NextSave
  <2> DEFINE b == [draft[p] EXCEPT !.text = text]
             m == [Free EXCEPT !.kind = "save", !.on = draft[p].id, !.body = b]
  <2>4. b \in EventConfig /\ b.id = draft[p].id /\ b.image = draft[p].image /\ draft[p].id \in Ids
    BY <2>2, <2>3 DEF EventConfig
  <2>5. /\ m \in RequestType /\ m.at = "begin" /\ m.kind = "save" /\ m.on = draft[p].id
        /\ m.body = b
    BY <1>f, <2>4 DEF RequestType, EventKinds
  <2>6. Send(r, p, m)
    BY <2>1
  <2> HIDE DEF m, b
  <2> QED BY <1>s, <2>2, <2>3, <2>4, <2>5, <2>6 DEF EventKinds
<1>2. ASSUME NEW f \in Formats, SendUpload(r, p, f)
      PROVE  Goal
  <2> DEFINE m == [Free EXCEPT !.kind = "upload", !.on = draft[p].id, !.body.image = f]
  <2>1. /\ draft[p].id \in Ids /\ [Blank EXCEPT !.image = f] \in EventConfig
        /\ [Blank EXCEPT !.image = f].image = f
    BY DeliveredType DEF TypeOK, EventConfig
  <2>2. /\ m \in RequestType /\ m.at = "begin" /\ m.kind = "upload" /\ m.body.image = f
    BY <1>f, <2>1 DEF RequestType, EventKinds
  <2>3. Send(r, p, m) /\ saves' = saves
    BY <1>2 DEF SendUpload
  <2> HIDE DEF m
  <2> QED BY <1>s, <1>n, <2>2, <2>3 DEF EventKinds
<1>3. ASSUME NEW e \in Ids, SendCreate(r, p, e)
      PROVE  Goal
  <2> DEFINE b == [Blank EXCEPT !.id = e]
             m == [Free EXCEPT !.kind = "create", !.on = e, !.body = b]
  <2>1. b \in EventConfig /\ b.id = e /\ b.image = NoImage
    BY DeliveredType DEF EventConfig, Blank
  <2>2. /\ m \in RequestType /\ m.at = "begin" /\ m.kind = "create" /\ m.body = b /\ m.on = e
    BY <1>f, <2>1 DEF RequestType, EventKinds
  <2>3. Send(r, p, m) /\ saves' = saves
    BY <1>3 DEF SendCreate
  <2> HIDE DEF m, b
  <2> QED BY <1>s, <1>n, <2>1, <2>2, <2>3 DEF EventKinds
<1>4. ASSUME NEW e \in Ids, NEW f \in Ids, SendDuplicate(r, p, e, f)
      PROVE  Goal
  <2> DEFINE m == [Free EXCEPT !.kind = "duplicate", !.on = f, !.copy = e]
  <2>1. m \in RequestType /\ m.at = "begin" /\ m.kind = "duplicate"
    BY <1>f DEF RequestType, EventKinds
  <2>2. Send(r, p, m) /\ saves' = saves
    BY <1>4 DEF SendDuplicate
  <2> HIDE DEF m
  <2> QED BY <1>s, <1>n, <2>1, <2>2 DEF EventKinds
<1>5. ASSUME NEW e \in Ids, NEW kind \in {"delete", "activate"}, saves' = saves,
             Send(r, p, [Free EXCEPT !.kind = kind, !.on = e])
      PROVE  Goal
  <2> DEFINE m == [Free EXCEPT !.kind = kind, !.on = e]
  <2>1. m \in RequestType /\ m.at = "begin" /\ m.kind = kind
    BY <1>f DEF RequestType, EventKinds, ConfigKinds
  <2>2. Send(r, p, m)
    BY <1>5
  <2> HIDE DEF m
  <2> QED BY <1>s, <1>n, <1>5, <2>1, <2>2 DEF EventKinds, ConfigKinds
<1>6. CASE SendDelivery(r, p)
  <2>1. PICK empty \in BOOLEAN :
          Send(r, p, [Free EXCEPT !.kind = "delivery", !.blank = empty, !.body.text = saves + 1])
    BY <1>6 DEF SendDelivery
  <2> DEFINE m == [Free EXCEPT !.kind = "delivery", !.blank = empty, !.body.text = saves + 1]
  <2>2. saves + 1 \in 0 .. MaxSaves /\ saves' = saves + 1
    BY <1>6, <1>n DEF SendDelivery, NextSave
  <2>3. [Blank EXCEPT !.text = saves + 1] \in EventConfig
    BY <2>2, DeliveredType DEF EventConfig
  <2>4. m \in RequestType /\ m.at = "begin" /\ m.kind = "delivery"
    BY <1>f, <2>3 DEF RequestType, ConfigKinds
  <2>5. Send(r, p, m)
    BY <2>1
  <2> HIDE DEF m
  <2> QED BY <1>s, <2>2, <2>4, <2>5 DEF ConfigKinds
<1>7. CASE SendKey(r, p)
  <2> DEFINE m == [Free EXCEPT !.kind = "key"]
  <2>1. m \in RequestType /\ m.at = "begin" /\ m.kind = "key"
    BY <1>f DEF RequestType, ConfigKinds
  <2>2. Send(r, p, m) /\ saves' = saves
    BY <1>7 DEF SendKey
  <2> HIDE DEF m
  <2> QED BY <1>s, <1>n, <2>1, <2>2 DEF ConfigKinds
<1> QED
  BY <1>1, <1>2, <1>3, <1>4, <1>5, <1>6, <1>7 DEF Operator, SendDelete, SendActivate

(* What a request's handler leaves of it: the rest of the work, or nothing.  *)
GoesOn(r, n) ==
  /\ n.kind = req[r].kind /\ n.from = req[r].from /\ n.on = req[r].on /\ n.copy = req[r].copy
  /\ n.at # "begin" /\ n.at \in StepsOf(n.kind)
  /\ n.kind = "upload" => n.body.image = req[r].body.image

LEMMA HandlerMoves ==
  ASSUME AdminAssumption, TypeOK, StepsOK, NEW r \in Requests, Handler(r)
  PROVE  /\ \E n \in RequestType : req' = [req EXCEPT ![r] = n] /\ (n = Free \/ GoesOn(r, n))
         /\ up /\ req[r].kind # "none" /\ UNCHANGED <<up, running, saves, boots>>
<1> DEFINE q == req[r]
           Goal == /\ \E n \in RequestType : req' = [req EXCEPT ![r] = n]
                                             /\ (n = Free \/ GoesOn(r, n))
                   /\ up /\ req[r].kind # "none" /\ UNCHANGED <<up, running, saves, boots>>
           Rest == up /\ q.kind # "none" /\ UNCHANGED <<up, running, saves, boots>>
<1>q. q \in RequestType /\ q.at \in StepsOf(q.kind)
  BY DEF TypeOK, RequestType, StepsOK
<1>1. ASSUME Refused(r), Rest
      PROVE  Goal
  BY <1>1, DeliveredType DEF Refused
<1>2. ASSUME NEW step \in Steps \ {"begin"}, step \in StepsOf(q.kind), Rest,
             \/ Goes(r, step)
             \/ \E b \in EventConfig : /\ req' = [req EXCEPT ![r].at = step, ![r].body = b]
                                       /\ q.kind = "upload" => b.image = q.body.image
             \/ \E c \in Config : req' = [req EXCEPT ![r].at = step, ![r].cfg = c]
      PROVE  Goal
  <2>1. ASSUME NEW n, n \in RequestType, req' = [req EXCEPT ![r] = n],
               \/ n = [q EXCEPT !.at = step]
               \/ \E b \in EventConfig : /\ n = [q EXCEPT !.at = step, !.body = b]
                                         /\ q.kind = "upload" => b.image = q.body.image
               \/ \E c \in Config : n = [q EXCEPT !.at = step, !.cfg = c]
        PROVE  Goal
    <3>1. GoesOn(r, n)
      BY <1>2, <1>q, <2>1 DEF GoesOn, RequestType
    <3> QED BY <1>2, <2>1, <3>1
  <2>2. CASE Goes(r, step)
    <3>1. req' = [req EXCEPT ![r] = [q EXCEPT !.at = step]]
      BY <2>2 DEF Goes
    <3> QED BY <1>q, <2>1, <3>1, FieldsType
  <2>3. ASSUME NEW b \in EventConfig, req' = [req EXCEPT ![r].at = step, ![r].body = b],
               q.kind = "upload" => b.image = q.body.image
        PROVE  Goal
    <3>1. req' = [req EXCEPT ![r] = [q EXCEPT !.at = step, !.body = b]]
      BY <2>3 DEF TypeOK
    <3>2. [q EXCEPT !.at = step, !.body = b] \in RequestType
      BY <1>q, FieldsType
    <3> QED BY <2>1, <2>3, <3>1, <3>2
  <2>4. ASSUME NEW c \in Config, req' = [req EXCEPT ![r].at = step, ![r].cfg = c]
        PROVE  Goal
    <3>1. req' = [req EXCEPT ![r] = [q EXCEPT !.at = step, !.cfg = c]]
      BY <2>4 DEF TypeOK
    <3> QED BY <1>q, <2>1, <3>1, FieldsType
  <2> QED BY <1>2, <2>2, <2>3, <2>4
<1>3. CASE SaveBegins(r) \/ CreateBegins(r) \/ DeleteBegins(r)
  <2>1. Rest
    BY <1>3 DEF SaveBegins, CreateBegins, DeleteBegins, At, process
  <2> QED
    BY <1>1, <1>2, <1>3, <2>1 DEF SaveBegins, CreateBegins, DeleteBegins, At, Steps, StepsOf, EventKinds
<1>4. CASE UploadBegins(r)
  <2>1. Rest
    BY <1>4 DEF UploadBegins, At, process
  <2>2. CASE Refused(r)
    BY <1>1, <2>1, <2>2
  <2>3. CASE ~Refused(r)
    <3> DEFINE b == [event[q.on] EXCEPT !.image = q.body.image]
    <3>1. b \in EventConfig /\ (q.kind = "upload" => b.image = q.body.image)
      BY DEF TypeOK, EventConfig
    <3>2. req' = [req EXCEPT ![r].at = "image", ![r].body = b]
      BY <1>4, <2>3 DEF UploadBegins
    <3>3. "image" \in StepsOf(q.kind)
      BY <1>4 DEF UploadBegins, At, Steps, StepsOf
    <3> HIDE DEF b
    <3> QED BY <1>2, <2>1, <3>1, <3>2, <3>3 DEF Steps
  <2> QED BY <2>2, <2>3
<1>5. CASE UploadWrites(r) \/ DuplicateBegins(r)
  <2>1. Rest
    BY <1>5 DEF UploadWrites, DuplicateBegins, At, process
  <2> QED
    BY <1>1, <1>2, <1>5, <2>1 DEF UploadWrites, DuplicateBegins, At, Steps, StepsOf, EventKinds
<1>6. CASE DuplicateLoads(r)
  <2>1. Rest
    BY <1>6 DEF DuplicateLoads, At, process
  <2>2. CASE Refused(r)
    BY <1>1, <2>1, <2>2
  <2>3. CASE ~Refused(r)
    <3> DEFINE b == [event[q.copy] EXCEPT !.id = q.on]
    <3>1. b \in EventConfig /\ (q.kind = "upload" => b.image = q.body.image)
      BY <1>6 DEF DuplicateLoads, At, TypeOK, EventConfig
    <3>2. req' = [req EXCEPT ![r].at = "open", ![r].body = b]
      BY <1>6, <2>3 DEF DuplicateLoads
    <3>3. "open" \in StepsOf(q.kind)
      BY <1>6 DEF DuplicateLoads, At, Steps, StepsOf, EventKinds
    <3> HIDE DEF b
    <3> QED BY <1>2, <2>1, <3>1, <3>2, <3>3 DEF Steps
  <2> QED BY <2>2, <2>3
<1>7. CASE YamlTruncated(r) \/ YamlWritten(r)
  <2>1. Rest
    BY <1>7 DEF YamlTruncated, YamlWritten, At, process, EventKinds
  <2>2. {"write", "reply"} \subseteq StepsOf(q.kind)
    BY <1>7, <1>q DEF YamlTruncated, YamlWritten, At, EventKinds, Steps, StepsOf
  <2> QED
    BY <1>2, <1>7, <2>1, <2>2 DEF YamlTruncated, YamlWritten, Steps
<1>8. CASE FilesRemoved(r) \/ DirRemoved(r)
  <2>1. Rest
    BY <1>8 DEF FilesRemoved, DirRemoved, At, process
  <2> QED
    BY <1>2, <1>8, <2>1 DEF FilesRemoved, DirRemoved, At, Steps, StepsOf, EventKinds
<1>9. CASE ActivateBegins(r) \/ DeliveryBegins(r)
  <2>1. Rest
    BY <1>9 DEF ActivateBegins, DeliveryBegins, At, process
  <2>2. "read" \in StepsOf(q.kind)
    BY <1>9 DEF ActivateBegins, DeliveryBegins, At, Steps, StepsOf, ConfigKinds
  <2> QED
    BY <1>1, <1>2, <1>9, <2>1, <2>2 DEF ActivateBegins, DeliveryBegins, Steps
<1>10. CASE ConfigRead(r)
  <2>1. Rest
    BY <1>10 DEF ConfigRead, At, process, ConfigKinds
  <2>2. config \in Config /\ "truncate" \in StepsOf(q.kind)
    BY <1>10, <1>q DEF ConfigRead, TypeOK, At, Steps, StepsOf, ConfigKinds
  <2> QED
    BY <1>1, <1>2, <1>10, <2>1, <2>2 DEF ConfigRead, Steps
<1>11. CASE ConfigTruncated(r) \/ ConfigWritten(r)
  <2>1. Rest
    BY <1>11 DEF ConfigTruncated, ConfigWritten, At, process, ConfigKinds
  <2>2. {"flush", "reply"} \subseteq StepsOf(q.kind)
    BY <1>11, <1>q DEF ConfigTruncated, ConfigWritten, At, Steps, StepsOf, ConfigKinds
  <2> QED
    BY <1>2, <1>11, <2>1, <2>2 DEF ConfigTruncated, ConfigWritten, Steps
<1>12. CASE Answered(r)
  <2>1. q.kind # "none"
    BY <1>12, <1>q DEF Answered, StepsOf, EventKinds, ConfigKinds
  <2> QED
    BY <1>1, <1>12, <2>1 DEF Answered, process
<1> QED
  BY <1>3, <1>4, <1>5, <1>6, <1>7, <1>8, <1>9, <1>10, <1>11, <1>12 DEF Handler

(* A handler keeps the event directories typed.                              *)
LEMMA EventsType ==
  ASSUME AdminAssumption, TInv, NEW r \in Requests, Handler(r)
  PROVE  /\ dirs' \subseteq Ids
         /\ yaml' \in [Ids -> {"missing", "truncated", "whole"}]
         /\ event' \in [Ids -> EventConfig]
         /\ images' \in [Ids -> SUBSET Formats]
<1> DEFINE q == req[r]
           Goal == /\ dirs' \subseteq Ids
                   /\ yaml' \in [Ids -> {"missing", "truncated", "whole"}]
                   /\ event' \in [Ids -> EventConfig]
                   /\ images' \in [Ids -> SUBSET Formats]
<1>t. /\ dirs \subseteq Ids
      /\ yaml \in [Ids -> {"missing", "truncated", "whole"}]
      /\ event \in [Ids -> EventConfig]
      /\ images \in [Ids -> SUBSET Formats]
      /\ q.on \in Ids /\ q.copy \in Ids /\ q.body \in EventConfig /\ Blank \in EventConfig
  BY DeliveredType DEF TInv, TypeOK
<1>1. CASE UploadBegins(r)
  BY <1>t, <1>1 DEF UploadBegins
<1>2. CASE UploadWrites(r)
  <2>1. q.body.image \in Formats
    BY <1>2 DEF UploadWrites, At, TInv, UploadsOK
  <2>2. images' = [images EXCEPT ![q.on] = @ \cup {q.body.image}] /\ UNCHANGED <<dirs, yaml, event>>
    BY <1>2 DEF UploadWrites
  <2> QED BY <1>t, <2>1, <2>2
<1>3. CASE CreateBegins(r) \/ DuplicateBegins(r)
  BY <1>t, <1>3 DEF CreateBegins, DuplicateBegins, events
<1>4. CASE YamlTruncated(r) \/ YamlWritten(r)
  BY <1>t, <1>4 DEF YamlTruncated, YamlWritten
<1>5. CASE FilesRemoved(r) \/ DirRemoved(r)
  BY <1>t, <1>5 DEF FilesRemoved, DirRemoved
<1>6. CASE UNCHANGED events
  BY <1>t, <1>6 DEF events
<1> QED
  BY <1>1, <1>2, <1>3, <1>4, <1>5, <1>6 DEF Handler, SaveBegins, DuplicateLoads, DeleteBegins,
     ActivateBegins, DeliveryBegins, ConfigRead, ConfigTruncated, ConfigWritten, Answered

(* A changed config is one.                                                  *)
LEMMA ChangedType ==
  ASSUME NEW c \in Config, NEW q \in RequestType, q.kind \in ConfigKinds
  PROVE  Changed(c, q) \in Config
<1>1. CASE q.kind = "activate"
  BY <1>1 DEF Changed, Config, RequestType
<1>2. CASE q.kind = "key"
  BY <1>2 DEF Changed, Config
<1>3. CASE q.kind = "delivery"
  <2>1. q.body.text \in 0 .. MaxSaves /\ c.password \in 0 .. MaxSaves
    BY DEF RequestType, EventConfig, Config
  <2>2. Changed(c, q) = [c EXCEPT !.target = q.body.text,
                                  !.password = IF q.blank THEN @ ELSE q.body.text]
    BY <1>3 DEF Changed
  <2> QED BY <2>1, <2>2 DEF Config
<1> QED
  BY <1>1, <1>2, <1>3 DEF ConfigKinds

(* A handler keeps the config file, the process and the page typed.          *)
LEMMA RestType ==
  ASSUME AdminAssumption, TInv, NEW r \in Requests, Handler(r)
  PROVE  /\ configWhole' \in BOOLEAN /\ config' \in Config /\ meant' \in Config
         /\ active' \in Ids
         /\ draft' \in [Pages -> EventConfig]
         /\ hasDraft' \in [Pages -> BOOLEAN]
         /\ believed' \in [Pages -> Ids]
         /\ hurt' \subseteq Ids
<1> DEFINE q == req[r]
           Goal == /\ configWhole' \in BOOLEAN /\ config' \in Config /\ meant' \in Config
                   /\ active' \in Ids
                   /\ draft' \in [Pages -> EventConfig]
                   /\ hasDraft' \in [Pages -> BOOLEAN]
                   /\ believed' \in [Pages -> Ids]
                   /\ hurt' \subseteq Ids
<1>t. /\ configWhole \in BOOLEAN /\ config \in Config /\ meant \in Config
      /\ active \in Ids /\ draft \in [Pages -> EventConfig]
      /\ hasDraft \in [Pages -> BOOLEAN] /\ believed \in [Pages -> Ids] /\ hurt \subseteq Ids
      /\ q \in RequestType /\ event \in [Ids -> EventConfig] /\ Blank \in EventConfig
  BY DeliveredType DEF TInv, TypeOK, RequestType
<1>q. q.on \in Ids /\ q.body \in EventConfig /\ q.body.id \in Ids /\ q.cfg \in Config
  BY <1>t DEF RequestType, EventConfig
<1>1. CASE ActivateBegins(r)
  BY <1>t, <1>q, <1>1 DEF ActivateBegins, page, configFile
<1>2. CASE ConfigTruncated(r)
  BY <1>t, <1>2 DEF ConfigTruncated, page, process
<1>3. CASE ConfigWritten(r)
  <2>1. q.kind \in ConfigKinds
    BY <1>3 DEF ConfigWritten, At
  <2>2. Changed(q.cfg, q) \in Config /\ Changed(meant, q) \in Config
    BY <1>t, <1>q, <2>1, ChangedType
  <2> QED
    BY <1>t, <2>2, <1>3 DEF ConfigWritten, page, process
<1>4. CASE DuplicateBegins(r) \/ DirRemoved(r)
  BY <1>t, <1>q, <1>4 DEF DuplicateBegins, DirRemoved, page, process, configFile
<1>5. CASE Answered(r)
  <2> DEFINE p == q.from
  <2>1. UNCHANGED <<configWhole, config, meant, active>>
    BY <1>5 DEF Answered, configFile, process
  <2>2. Asked(p) \in Ids \/ p \notin Pages
    BY <1>t DEF Asked, EventConfig
  <2>3. believed' \in [Pages -> Ids]
    <3>1. \/ \E e : /\ e \in Ids \/ p \notin Pages
                    /\ believed' = [believed EXCEPT ![p] = e]
          \/ believed' = believed
      BY <1>5, <1>q, <2>2 DEF Answered, Reloaded, page
    <3> QED BY <1>t, <3>1
  <2>4. \/ UNCHANGED <<draft, hasDraft, hurt>>
        \/ EditsNothing(p)
        \/ \E b \in EventConfig : Edits(p, q.on, b)
    BY <1>t, <1>5, <1>q DEF Answered, Opens, page
  <2>5. CASE EditsNothing(p)
    BY <1>t, <2>1, <2>3, <2>5 DEF EditsNothing
  <2>6. ASSUME NEW b \in EventConfig, Edits(p, q.on, b)
        PROVE  Goal
    <3>1. b.id \in Ids
      BY DEF EventConfig
    <3> QED BY <1>t, <2>1, <2>3, <2>6, <3>1 DEF Edits
  <2> QED BY <1>t, <2>1, <2>3, <2>4, <2>5, <2>6
<1>6. CASE UNCHANGED <<configFile, active, page, hurt>>
  BY <1>t, <1>6 DEF configFile, page
<1> QED
  BY <1>1, <1>2, <1>3, <1>4, <1>5, <1>6 DEF Handler, SaveBegins, UploadBegins, UploadWrites,
     CreateBegins, DuplicateLoads, YamlTruncated, YamlWritten, DeleteBegins, FilesRemoved,
     DeliveryBegins, ConfigRead, process

(* Every step keeps the variables typed, the requests where their handlers   *)
(* can stand, and the uploads of a known format.                             *)
LEMMA TypeStep ==
  ASSUME AdminAssumption, TInv, [Next]_vars
  PROVE  TInv'
<1>t. TypeOK /\ StepsOK /\ UploadsOK
  BY DEF TInv
<1>f. Free \in RequestType /\ Free.kind = "none" /\ Free.at = "begin"
  BY DeliveredType DEF Free
<1>b. "begin" \in StepsOf("none") /\ \A kind : "begin" \in StepsOf(kind)
  BY DEF StepsOf, Steps
<1>r. ASSUME NEW r \in Requests, NEW n \in RequestType, req' = [req EXCEPT ![r] = n],
             n.at \in StepsOf(n.kind), n.kind # "none" => up' /\ n.from \in Pages,
             n.kind = "upload" => n.body.image \in Formats, up' = up
      PROVE  /\ req' \in [Requests -> RequestType] /\ StepsOK' /\ UploadsOK'
  <2>1. req \in [Requests -> RequestType]
    BY <1>t DEF TypeOK, RequestType
  <2>2. req' \in [Requests -> RequestType]
    BY <1>r, <2>1
  <2>3. \A s \in Requests : req'[s] = IF s = r THEN n ELSE req[s]
    BY <1>r, <2>1
  <2> QED
    BY <1>t, <1>r, <2>2, <2>3 DEF StepsOK, UploadsOK
<1>1. ASSUME NEW r \in Requests, Handler(r)
      PROVE  TInv'
  <2>1. PICK n \in RequestType : req' = [req EXCEPT ![r] = n] /\ (n = Free \/ GoesOn(r, n))
    BY <1>1, <1>t, HandlerMoves
  <2>2. up /\ req[r].kind # "none" /\ UNCHANGED <<up, running, saves, boots>>
    BY <1>1, <1>t, HandlerMoves
  <2>3. /\ n.at \in StepsOf(n.kind) /\ (n.kind # "none" => up' /\ n.from \in Pages)
        /\ n.kind = "upload" => n.body.image \in Formats
    BY <1>t, <1>f, <1>b, <2>1, <2>2 DEF GoesOn, StepsOK, UploadsOK
  <2>4. req' \in [Requests -> RequestType] /\ StepsOK' /\ UploadsOK'
    BY <1>r, <2>1, <2>2, <2>3
  <2> QED
    BY <1>1, <1>t, <2>2, <2>4, EventsType, RestType DEF TInv, TypeOK, RequestType
<1>2. ASSUME NEW r \in Requests, NEW p \in Pages, Operator(r, p)
      PROVE  TInv'
  <2>1. PICK n \in RequestType : SentBy(r, p, n)
    BY <1>2, <1>t, OperatorSends
  <2>2. /\ up /\ req[r].kind = "none" /\ saves' \in 0 .. MaxSaves
        /\ UNCHANGED <<events, configFile, process, page, hurt, boots>>
    BY <1>2, <1>t, OperatorSends
  <2>3. /\ req' = [req EXCEPT ![r] = n] /\ n.at \in StepsOf(n.kind)
        /\ (n.kind # "none" => up' /\ n.from \in Pages)
        /\ n.kind = "upload" => n.body.image \in Formats
    BY <1>b, <2>1, <2>2 DEF SentBy, process
  <2>4. req' \in [Requests -> RequestType] /\ StepsOK' /\ UploadsOK'
    BY <1>r, <2>2, <2>3 DEF process
  <2> QED
    BY <1>t, <2>2, <2>4 DEF TInv, TypeOK, RequestType, events, configFile, process, page
<1>3. ASSUME NEW p \in Pages, NEW e \in Ids, Select(p, e)
      PROVE  TInv'
  <2>1. UNCHANGED <<events, configFile, process, req, believed, saves, boots>>
    BY <1>3 DEF Select
  <2>2. EditsNothing(p) \/ Edits(p, e, event[e])
    BY <1>3 DEF Select, Opens
  <2>3. event[e] \in EventConfig /\ event[e].id \in Ids /\ Blank \in EventConfig
    BY <1>t, DeliveredType DEF TypeOK, EventConfig
  <2>4. /\ draft' \in [Pages -> EventConfig] /\ hasDraft' \in [Pages -> BOOLEAN] /\ hurt' \subseteq Ids
    <3>1. /\ draft \in [Pages -> EventConfig] /\ hasDraft \in [Pages -> BOOLEAN]
          /\ hurt \subseteq Ids
      BY <1>t DEF TypeOK
    <3>2. CASE EditsNothing(p)
      BY <2>3, <3>1, <3>2 DEF EditsNothing
    <3>3. CASE Edits(p, e, event[e])
      BY <2>3, <3>1, <3>3 DEF Edits
    <3> QED BY <2>2, <3>2, <3>3
  <2> QED
    BY <1>t, <2>1, <2>4 DEF TInv, TypeOK, StepsOK, UploadsOK, events, configFile, process
<1>4. CASE Restart \/ Boot
  <2>1. /\ UNCHANGED <<events, configFile, req, page, hurt, saves>>
        /\ up' = TRUE /\ active' = config.active /\ running' = config
        /\ boots' \in 0 .. MaxBoots
    BY <1>t, <1>4 DEF Restart, Boot, Start, TypeOK, AdminAssumption
  <2>2. config.active \in Ids
    BY <1>t DEF TypeOK, Config
  <2> QED
    BY <1>t, <2>1, <2>2 DEF TInv, TypeOK, StepsOK, UploadsOK, events, configFile, page
<1>5. CASE Crash
  <2>1. /\ UNCHANGED <<events, configFile, active, running, page, saves>>
        /\ up' = FALSE /\ req' = [r \in Requests |-> Free]
    BY <1>5 DEF Crash
  <2>2. boots' \in 0 .. MaxBoots /\ hurt' \subseteq Ids
    BY <1>t, <1>5 DEF Crash, TypeOK, AdminAssumption
  <2>3. req' \in [Requests -> RequestType] /\ StepsOK' /\ UploadsOK'
    BY <1>f, <1>b, <2>1 DEF StepsOK, UploadsOK
  <2> QED
    BY <1>t, <2>1, <2>2, <2>3 DEF TInv, TypeOK, RequestType, events, configFile, page
<1>6. CASE UNCHANGED vars
  BY <1>t, <1>6 DEF TInv, TypeOK, StepsOK, UploadsOK, vars, events, configFile, process, page
<1> QED
  BY <1>1, <1>2, <1>3, <1>4, <1>5, <1>6 DEF Next
-----------------------------------------------------------------------------
(* The handlers that change event directories, and those that change the     *)
(* config file, up to their answer.                                          *)
EventHandler(r) ==
  \/ SaveBegins(r) \/ UploadBegins(r) \/ UploadWrites(r) \/ CreateBegins(r)
  \/ DuplicateBegins(r) \/ DuplicateLoads(r) \/ YamlTruncated(r) \/ YamlWritten(r)
  \/ DeleteBegins(r) \/ FilesRemoved(r) \/ DirRemoved(r)

ConfigHandler(r) ==
  \/ ActivateBegins(r) \/ DeliveryBegins(r)
  \/ ConfigRead(r) \/ ConfigTruncated(r) \/ ConfigWritten(r)

LEMMA EventHandlers ==
  ASSUME NEW r \in Requests, EventHandler(r)
  PROVE  /\ up /\ req[r].kind \in EventKinds /\ req[r].at # "reply"
         /\ UNCHANGED <<configFile, process, page, saves, boots>>
  BY DEF EventHandler, SaveBegins, UploadBegins, UploadWrites, CreateBegins, DuplicateBegins,
     DuplicateLoads, YamlTruncated, YamlWritten, DeleteBegins, FilesRemoved, DirRemoved, At,
     EventKinds

LEMMA ConfigHandlers ==
  ASSUME NEW r \in Requests, ConfigHandler(r)
  PROVE  /\ up /\ req[r].kind \in ConfigKinds /\ req[r].at # "reply"
         /\ UNCHANGED <<events, up, running, page, hurt, saves, boots>>
  BY DEF ConfigHandler, ActivateBegins, DeliveryBegins, ConfigRead, ConfigTruncated,
     ConfigWritten, At, ConfigKinds, process

(* An event request and a config request are not the same.                   *)
LEMMA KindsApart == EventKinds \cap ConfigKinds = {} /\ "none" \notin EventKinds \cup ConfigKinds
  BY DEF EventKinds, ConfigKinds

(* Every step keeps the config file what was meant, when one request at a    *)
(* time is made.                                                             *)
LEMMA ConfigStep ==
  ASSUME AdminAssumption, OneAtATime, TInv, ConfigOK, [Next]_vars
  PROVE  ConfigOK'
<1>t. TypeOK /\ StepsOK /\ req \in [Requests -> RequestType]
  BY DEF TInv, TypeOK, RequestType
<1>f. Free.kind = "none" /\ "none" \notin ConfigKinds
  BY DEF Free, ConfigKinds
<1>r. ASSUME NEW r \in Requests, NEW n, req' = [req EXCEPT ![r] = n], config' = meant',
             n.kind \in ConfigKinds /\ n.at \in {"truncate", "flush"} => n.cfg = config'
      PROVE  ConfigOK'
  BY <1>t, <1>r DEF ConfigOK, OneAtATime
<1>1. ASSUME NEW r \in Requests, EventHandler(r)
      PROVE  ConfigOK'
  <2>1. PICK n \in RequestType : req' = [req EXCEPT ![r] = n] /\ (n = Free \/ GoesOn(r, n))
    BY <1>1, <1>t, HandlerMoves DEF EventHandler, Handler
  <2>2. n.kind \notin ConfigKinds
    BY <1>1, <1>f, <2>1, EventHandlers, KindsApart DEF GoesOn
  <2>3. config' = meant'
    BY <1>1, EventHandlers DEF configFile, ConfigOK
  <2> QED BY <1>r, <2>1, <2>2, <2>3
<1>2. ASSUME NEW r \in Requests, ConfigHandler(r)
      PROVE  ConfigOK'
  <2>1. CASE ActivateBegins(r) \/ DeliveryBegins(r)
    <3>1. PICK n \in RequestType : req' = [req EXCEPT ![r] = n] /\ n.at \notin {"truncate", "flush"}
      <4>1. CASE Refused(r)
        BY <4>1, DeliveredType DEF Refused, Free
      <4>2. CASE Goes(r, "read")
        <5>1. [req[r] EXCEPT !.at = "read"] \in RequestType
          BY <1>t, FieldsType DEF Steps
        <5>2. [req[r] EXCEPT !.at = "read"].at = "read"
          BY <1>t DEF RequestType
        <5>3. req' = [req EXCEPT ![r] = [req[r] EXCEPT !.at = "read"]]
          BY <4>2 DEF Goes
        <5> QED BY <5>1, <5>2, <5>3
      <4> QED BY <2>1, <4>1, <4>2 DEF ActivateBegins, DeliveryBegins
    <3>2. config' = meant'
      BY <2>1 DEF ActivateBegins, DeliveryBegins, ConfigOK, configFile
    <3> QED BY <1>r, <3>1, <3>2
  <2>2. CASE ConfigRead(r)
    <3>1. config' = config /\ config' = meant'
      BY <2>2 DEF ConfigRead, ConfigOK, configFile
    <3>2. CASE Refused(r)
      BY <1>f, <1>r, <3>1, <3>2 DEF Refused
    <3>3. CASE req' = [req EXCEPT ![r].at = "truncate", ![r].cfg = config]
      <4>1. req' = [req EXCEPT ![r] = [req[r] EXCEPT !.at = "truncate", !.cfg = config]]
        BY <1>t, <3>3
      <4>2. [req[r] EXCEPT !.at = "truncate", !.cfg = config].cfg = config
        BY <1>t DEF RequestType
      <4> QED BY <1>r, <3>1, <4>1, <4>2
    <3> QED BY <2>2, <3>2, <3>3 DEF ConfigRead
  <2>3. CASE ConfigTruncated(r)
    <3>1. config' = config /\ config' = meant' /\ req[r].cfg = config
      BY <2>3 DEF ConfigTruncated, ConfigOK, At
    <3>2. req' = [req EXCEPT ![r] = [req[r] EXCEPT !.at = "flush"]]
      BY <2>3 DEF ConfigTruncated, Goes
    <3>3. [req[r] EXCEPT !.at = "flush"].cfg = req[r].cfg
      BY <1>t DEF RequestType
    <3> QED BY <1>r, <3>1, <3>2, <3>3
  <2>4. CASE ConfigWritten(r)
    <3>1. config' = meant'
      BY <2>4 DEF ConfigWritten, ConfigOK, At
    <3>2. req' = [req EXCEPT ![r] = [req[r] EXCEPT !.at = "reply"]]
      BY <2>4 DEF ConfigWritten, Goes
    <3>3. [req[r] EXCEPT !.at = "reply"].at = "reply"
      BY <1>t DEF RequestType
    <3> QED BY <1>r, <3>1, <3>2, <3>3
  <2> QED BY <1>2, <2>1, <2>2, <2>3, <2>4 DEF ConfigHandler
<1>3. ASSUME NEW r \in Requests, Answered(r)
      PROVE  ConfigOK'
  <2>1. req' = [req EXCEPT ![r] = Free] /\ config' = meant'
    BY <1>3 DEF Answered, Refused, configFile, ConfigOK
  <2> QED BY <1>f, <1>r, <2>1
<1>4. ASSUME NEW r \in Requests, NEW p \in Pages, Operator(r, p)
      PROVE  ConfigOK'
  <2>1. PICK n \in RequestType : SentBy(r, p, n)
    BY <1>4, <1>t, OperatorSends
  <2>2. config' = meant'
    BY <1>4, <1>t, OperatorSends DEF configFile, ConfigOK
  <2> QED BY <1>r, <2>1, <2>2 DEF SentBy
<1>5. CASE Crash
  BY <1>f, <1>5 DEF Crash, ConfigOK, configFile
<1>6. CASE Restart \/ Boot \/ UNCHANGED vars \/ \E p \in Pages, e \in Ids : Select(p, e)
  BY <1>6 DEF Restart, Boot, Select, ConfigOK, configFile, vars
<1> QED
  BY <1>1, <1>2, <1>3, <1>4, <1>5, <1>6 DEF Next, Handler, EventHandler, ConfigHandler
-----------------------------------------------------------------------------
(* The one request in flight, before and after a step of its handler.        *)
LEMMA OneRequest ==
  ASSUME OneAtATime, TypeOK, NEW r \in Requests, NEW n, req' = [req EXCEPT ![r] = n]
  PROVE  \A s \in Requests : s = r /\ req'[s] = n
  BY DEF OneAtATime, TypeOK

(* Where the handler of an event request goes next, and what it carries.     *)
EventMove(r, n) ==
  /\ req' = [req EXCEPT ![r] = n]
  /\ \/ /\ n = Free /\ UNCHANGED <<events, hurt>>
        /\ req[r].at = "begin" \/ DuplicateLoads(r)
     \/ /\ GoesOn(r, n) /\ n.kind \in EventKinds
        /\ SaveBegins(r) => n.at = "open" /\ n.on \in dirs /\ n.body = req[r].body
        /\ UploadBegins(r) => /\ n.at = "image" /\ n.on \in dirs /\ Loads(n.on)
                              /\ n.body = [event[n.on] EXCEPT !.image = req[r].body.image]
        /\ UploadWrites(r) => n.at = "open" /\ n.body = req[r].body
        /\ CreateBegins(r) => n.at = "open" /\ n.on \notin dirs /\ n.body = req[r].body
        /\ DuplicateBegins(r) => n.at = "load" /\ n.on \notin dirs /\ n.copy \in dirs
        /\ DuplicateLoads(r) => /\ n.at = "open" /\ Loads(n.copy)
                                /\ n.body = [event[n.copy] EXCEPT !.id = n.on]
        /\ YamlTruncated(r) => n.at = "write" /\ n.body = req[r].body
        /\ YamlWritten(r) => n.at = "reply" /\ n.body = req[r].body
        /\ DeleteBegins(r) => n.at = "rmtree" /\ n.on \in dirs /\ n.on # active
        /\ FilesRemoved(r) => n.at = "rmdir"
        /\ DirRemoved(r) => n.at = "reply"

LEMMA EventMoves ==
  ASSUME AdminAssumption, TInv, NEW r \in Requests, EventHandler(r)
  PROVE  \E n \in RequestType : EventMove(r, n)
<1> DEFINE q == req[r]
<1>1. PICK n \in RequestType : req' = [req EXCEPT ![r] = n] /\ (n = Free \/ GoesOn(r, n))
  BY HandlerMoves DEF TInv, EventHandler, Handler
<1>2. q \in RequestType /\ q.kind \in EventKinds /\ r \in DOMAIN req /\ n = req'[r]
  BY <1>1, EventHandlers DEF TInv, TypeOK, RequestType
<1>3. ASSUME Refused(r)
      PROVE  n = Free
  BY <1>2, <1>3 DEF Refused
<1>4. ASSUME NEW step, Goes(r, step)
      PROVE  /\ n.at = step /\ n.body = q.body /\ n.kind = q.kind
             /\ n.on = q.on /\ n.copy = q.copy
  BY <1>2, <1>4 DEF Goes, RequestType
<1>5. ASSUME NEW step, NEW b, req' = [req EXCEPT ![r].at = step, ![r].body = b]
      PROVE  n.at = step /\ n.body = b
  <2>1. req' = [req EXCEPT ![r] = [q EXCEPT !.at = step, !.body = b]]
    BY <1>5 DEF TInv, TypeOK
  <2>2. n = [q EXCEPT !.at = step, !.body = b]
    BY <1>2, <2>1
  <2> QED BY <1>2, <2>2 DEF RequestType
<1>6. n # Free => n.kind \in EventKinds /\ n.on = q.on /\ n.copy = q.copy
  BY <1>1, <1>2 DEF GoesOn
<1>7. SaveBegins(r) /\ n # Free => n.at = "open" /\ n.on \in dirs /\ n.body = q.body
  BY <1>3, <1>4 DEF SaveBegins
<1>8. UploadBegins(r) /\ n # Free =>
        /\ n.at = "image" /\ n.on \in dirs /\ Loads(n.on)
        /\ n.body = [event[n.on] EXCEPT !.image = q.body.image]
  BY <1>3, <1>5, <1>6 DEF UploadBegins
<1>9. UploadWrites(r) => n.at = "open" /\ n.body = q.body
  BY <1>4 DEF UploadWrites
<1>10. CreateBegins(r) /\ n # Free => n.at = "open" /\ n.on \notin dirs /\ n.body = q.body
  BY <1>3, <1>4 DEF CreateBegins
<1>11. DuplicateBegins(r) /\ n # Free =>
         n.at = "load" /\ n.on \notin dirs /\ n.copy \in dirs
  BY <1>3, <1>4, <1>6 DEF DuplicateBegins
<1>12. DuplicateLoads(r) /\ n # Free =>
         n.at = "open" /\ Loads(n.copy) /\ n.body = [event[n.copy] EXCEPT !.id = n.on]
  BY <1>3, <1>5, <1>6 DEF DuplicateLoads
<1>13. YamlTruncated(r) => n.at = "write" /\ n.body = q.body
  BY <1>4 DEF YamlTruncated
<1>14. YamlWritten(r) => n.at = "reply" /\ n.body = q.body
  BY <1>4 DEF YamlWritten
<1>15. DeleteBegins(r) /\ n # Free => n.at = "rmtree" /\ n.on \in dirs /\ n.on # active
  BY <1>3, <1>4 DEF DeleteBegins
<1>16. (FilesRemoved(r) => n.at = "rmdir") /\ (DirRemoved(r) => n.at = "reply")
  BY <1>4 DEF FilesRemoved, DirRemoved
<1>17. n = Free => q.at = "begin" \/ DuplicateLoads(r)
  <2>1. n = Free => n.at = "begin"
    BY DEF Free
  <2> QED
    BY <2>1, <1>9, <1>13, <1>14, <1>16 DEF EventHandler, SaveBegins, UploadBegins, CreateBegins,
       DuplicateBegins, DeleteBegins, At
<1>18. n # Free => GoesOn(r, n)
  BY <1>1
<1>19. ASSUME n = Free
       PROVE  UNCHANGED <<events, hurt>>
  <2>1. n.at = "begin"
    BY <1>19 DEF Free
  <2>2. ~UploadWrites(r) /\ ~YamlTruncated(r) /\ ~YamlWritten(r) /\ ~FilesRemoved(r) /\ ~DirRemoved(r)
    BY <2>1, <1>9, <1>13, <1>14, <1>16
  <2>3. UploadBegins(r) => UNCHANGED <<events, hurt>>
    BY <1>5, <2>1 DEF UploadBegins, events
  <2>4. CreateBegins(r) => UNCHANGED <<events, hurt>>
    BY <1>4, <2>1 DEF CreateBegins, events
  <2>5. DuplicateBegins(r) => UNCHANGED <<events, hurt>>
    BY <1>4, <2>1 DEF DuplicateBegins, events
  <2> QED
    BY <2>2, <2>3, <2>4, <2>5 DEF EventHandler, SaveBegins, DuplicateLoads, DeleteBegins
<1> QED
  BY <1>1, <1>6, <1>7, <1>8, <1>9, <1>10, <1>11, <1>12, <1>13, <1>14, <1>15, <1>16, <1>17, <1>18,
     <1>19 DEF EventMove

(* A handler of an event request works on a directory that is there, and     *)
(* spares the active event.                                                  *)
LEMMA EventDirs ==
  ASSUME AdminAssumption, OneAtATime, TInv, DirsOK, ActiveOK,
         NEW r \in Requests, EventHandler(r)
  PROVE  DirsOK' /\ ActiveOK'
<1> DEFINE q == req[r]
           Here(n) == n.kind \in EventKinds /\ n.at \in Steps \ {"begin", "reply"} => n.on \in dirs'
           Spared(n) == n.kind = "delete" /\ n.at \in {"rmtree", "rmdir"} => n.on # config.active
<1>t. TypeOK /\ StepsOK
  BY DEF TInv
<1>f. Free.kind = "none" /\ "none" \notin EventKinds
  BY DEF Free, EventKinds
<1>e. /\ up /\ q.kind \in EventKinds /\ q.on \in Ids /\ q.copy \in Ids
      /\ UNCHANGED <<configFile, process>>
      /\ q.at \in Steps \ {"begin", "reply"} => q.on \in dirs
  BY <1>t, EventHandlers DEF TypeOK, DirsOK
<1>a. active = config.active
  BY <1>e, KindsApart DEF ActiveOK, OneAtATime, Activating, EventKinds
<1>c. config.active \in dirs /\ yaml[config.active] # "missing" /\ config.active \in Ids
  BY <1>t DEF ActiveOK, TypeOK
<1>n. PICK n \in RequestType : EventMove(r, n)
  BY EventMoves
<1>o. \A s \in Requests : s = r /\ req'[s] = n
  BY <1>t, <1>n, OneRequest DEF EventMove
<1>m. n # Free => n.on = q.on /\ n.copy = q.copy /\ n.kind = q.kind
  <2>1. n # Free => GoesOn(r, n)
    BY <1>n DEF EventMove
  <2> QED BY <2>1 DEF GoesOn
<1>g. ASSUME \A e \in Ids \ dirs' : yaml'[e] = "missing" /\ images'[e] = {},
             config.active \in dirs', yaml'[config.active] # "missing", Here(n), Spared(n)
      PROVE  DirsOK' /\ ActiveOK'
  <2>1. DirsOK'
    BY <1>g, <1>o DEF DirsOK
  <2>2. n.kind # "activate"
    BY <1>f, <1>n DEF EventMove, EventKinds
  <2>3. up' => configWhole'
    <3>1. q.at # "flush"
      BY <1>t, <1>e DEF StepsOK, StepsOf, EventKinds, ConfigKinds
    <3>2. \A s \in Requests : req[s].at # "flush"
      BY <1>o, <3>1
    <3> QED BY <1>e, <3>2 DEF ActiveOK, configFile, process
  <2>4. active' = config.active /\ config' = config
    BY <1>a, <1>e DEF process, configFile
  <2> QED
    BY <1>g, <1>o, <2>1, <2>2, <2>3, <2>4 DEF ActiveOK, Activating
<1>d. \A e \in Ids \ dirs : yaml[e] = "missing" /\ images[e] = {}
  BY DEF DirsOK
<1>0. CASE n = Free
  <2>1. UNCHANGED events
    BY <1>0, <1>e, <1>n, <1>f DEF EventMove, GoesOn
  <2> QED BY <1>0, <1>c, <1>d, <1>f, <1>g, <2>1 DEF events
<1>1. CASE SaveBegins(r) \/ DuplicateLoads(r)
  <2>1. UNCHANGED events
    BY <1>1 DEF SaveBegins, DuplicateLoads
  <2>2. n # Free => n.at = "open" /\ n.on \in dirs
    BY <1>1, <1>e, <1>m, <1>n DEF EventMove, DuplicateLoads, At, Steps
  <2> QED BY <1>0, <1>c, <1>d, <1>g, <2>1, <2>2 DEF events
<1>2. CASE UploadBegins(r) \/ UploadWrites(r)
  <2>1. UNCHANGED <<dirs, yaml>> /\ \A e \in Ids : e # q.on => images'[e] = images[e]
    BY <1>t, <1>2 DEF UploadBegins, UploadWrites, TypeOK
  <2>2. n # Free => n.at \in {"image", "open"} /\ n.on \in dirs /\ n.on = q.on
    BY <1>2, <1>e, <1>m, <1>n DEF EventMove, UploadWrites, At, Steps
  <2>3. CASE n # Free
    <3>1. \A e \in Ids \ dirs' : yaml'[e] = "missing" /\ images'[e] = {}
      BY <1>d, <2>1, <2>2, <2>3
    <3> QED BY <1>c, <1>g, <2>1, <2>2, <2>3, <3>1
  <2> QED BY <1>0, <2>3
<1>3. CASE CreateBegins(r)
  <2>1. dirs' = dirs \cup {q.on} /\ UNCHANGED <<yaml, images>>
    BY <1>3 DEF CreateBegins
  <2>2. n # Free => n.at = "open" /\ n.on = q.on
    BY <1>3, <1>m, <1>n DEF EventMove
  <2>3. CASE n # Free
    BY <1>c, <1>d, <1>g, <2>1, <2>2, <2>3
  <2> QED BY <1>0, <2>3
<1>4. CASE DuplicateBegins(r) /\ n # Free
  <2>1. n.at = "load" /\ q.on \notin dirs /\ n.on = q.on
    BY <1>4, <1>m, <1>n DEF EventMove
  <2>2. dirs' = dirs \cup {q.on} \/ UNCHANGED events
    BY <1>4 DEF DuplicateBegins
  <2>3. \A e \in Ids : e # q.on => yaml'[e] = yaml[e] /\ images'[e] = images[e]
    BY <1>4, <1>t DEF DuplicateBegins, TypeOK, events
  <2>4. dirs' = dirs \cup {q.on}
    <3>1. ~Refused(r)
      BY <1>4, <1>n, <1>t DEF EventMove, Refused, TypeOK
    <3> QED BY <1>4, <3>1 DEF DuplicateBegins
  <2> QED BY <1>c, <1>d, <1>g, <2>1, <2>3, <2>4
<1>5. CASE YamlTruncated(r) \/ YamlWritten(r)
  <2>1. /\ UNCHANGED <<dirs, images>> /\ q.on \in dirs /\ n.at \in {"write", "reply"}
        /\ \A e \in Ids : yaml'[e] = yaml[e] \/ (e = q.on /\ yaml'[e] # "missing")
    <3>1. q.on \in dirs /\ UNCHANGED <<dirs, images>>
      BY <1>5, <1>e DEF YamlTruncated, YamlWritten, At, Steps
    <3>2. n # Free
      BY <1>5, <1>n DEF EventMove, GoesOn, Free, YamlTruncated, YamlWritten, DuplicateLoads, At
    <3>3. n.at \in {"write", "reply"}
      BY <1>5, <1>n, <3>2 DEF EventMove
    <3>4. \A e \in Ids : yaml'[e] = yaml[e] \/ (e = q.on /\ yaml'[e] # "missing")
      BY <1>5, <1>t DEF YamlTruncated, YamlWritten, TypeOK
    <3> QED BY <3>1, <3>3, <3>4
  <2>2. Here(n) /\ Spared(n)
    BY <1>f, <1>m, <2>1
  <2> QED BY <1>c, <1>d, <1>g, <2>1, <2>2
<1>6. CASE DeleteBegins(r) /\ n # Free
  <2>1. UNCHANGED events /\ n.on \in dirs /\ n.on # config.active
    BY <1>6, <1>a, <1>n DEF DeleteBegins, EventMove
  <2> QED BY <1>c, <1>d, <1>g, <2>1 DEF events
<1>7. CASE FilesRemoved(r)
  <2>1. /\ UNCHANGED dirs /\ q.on \in dirs /\ q.on # config.active /\ n.at = "rmdir"
        /\ \A e \in Ids : e # q.on => yaml'[e] = yaml[e] /\ images'[e] = images[e]
    <3>1. UNCHANGED dirs /\ q.on \in dirs /\ q.on # config.active
      BY <1>7, <1>e DEF FilesRemoved, At, Steps, ActiveOK
    <3>2. n # Free
      BY <1>7, <1>n DEF EventMove, GoesOn, Free, FilesRemoved, DuplicateLoads, At
    <3>3. n.at = "rmdir"
      BY <1>7, <1>n, <3>2 DEF EventMove
    <3>4. \A e \in Ids : e # q.on => yaml'[e] = yaml[e] /\ images'[e] = images[e]
      BY <1>7, <1>t DEF FilesRemoved, TypeOK
    <3> QED BY <3>1, <3>3, <3>4
  <2>2. Here(n) /\ Spared(n)
    BY <1>f, <1>m, <2>1
  <2> QED BY <1>c, <1>d, <1>g, <2>1, <2>2
<1>8. CASE DirRemoved(r)
  <2>1. /\ dirs' = dirs \ {q.on} /\ q.on # config.active /\ n.at = "reply"
        /\ \A e \in Ids : IF e = q.on THEN yaml'[e] = "missing" /\ images'[e] = {}
                                      ELSE yaml'[e] = yaml[e] /\ images'[e] = images[e]
    <3>1. dirs' = dirs \ {q.on} /\ q.on # config.active
      BY <1>8, <1>e DEF DirRemoved, At, Steps, ActiveOK
    <3>2. n # Free
      BY <1>8, <1>n DEF EventMove, GoesOn, Free, DirRemoved, DuplicateLoads, At
    <3>3. n.at = "reply"
      BY <1>8, <1>n, <3>2 DEF EventMove
    <3>4. \A e \in Ids : IF e = q.on THEN yaml'[e] = "missing" /\ images'[e] = {}
                                     ELSE yaml'[e] = yaml[e] /\ images'[e] = images[e]
      BY <1>8, <1>t DEF DirRemoved, TypeOK
    <3> QED BY <3>1, <3>3, <3>4
  <2> QED BY <1>c, <1>d, <1>g, <2>1
<1> QED
  BY <1>0, <1>1, <1>2, <1>3, <1>4, <1>5, <1>6, <1>7, <1>8 DEF EventHandler

(* A handler that changes the config file keeps the event in memory and the  *)
(* one in the file there, and leaves them the same when it is done.          *)
LEMMA ConfigActive ==
  ASSUME AdminAssumption, OneAtATime, TInv, ConfigOK, DirsOK, ActiveOK,
         NEW r \in Requests, ConfigHandler(r)
  PROVE  DirsOK' /\ ActiveOK'
<1> DEFINE q == req[r]
<1>t. TypeOK /\ StepsOK /\ q \in RequestType
  BY DEF TInv, TypeOK, RequestType
<1>f. Free.kind = "none" /\ "none" \notin EventKinds /\ Free.at = "begin"
  BY DEF Free, EventKinds
<1>e. /\ up /\ q.kind \in ConfigKinds /\ q.kind \notin EventKinds /\ q.kind # "delete"
      /\ UNCHANGED <<events, up>>
  BY ConfigHandlers, KindsApart DEF EventKinds
<1>n. PICK n \in RequestType : req' = [req EXCEPT ![r] = n] /\ (n = Free \/ GoesOn(r, n))
  BY HandlerMoves DEF ConfigHandler, Handler, TInv
<1>o. \A s \in Requests : s = r /\ req'[s] = n
  BY <1>t, <1>n, OneRequest
<1>k. n.kind \notin EventKinds /\ n.kind # "delete"
  BY <1>e, <1>f, <1>n DEF GoesOn, EventKinds
<1>d. DirsOK'
  BY <1>e, <1>k, <1>o DEF DirsOK, events
<1>w. configWhole \/ q.at = "flush"
  BY <1>e, <1>o DEF ActiveOK
<1>v. active = config.active \/ Activating(r)
  BY <1>e, <1>o DEF ActiveOK
<1>c. config.active \in dirs /\ yaml[config.active] # "missing"
  BY DEF ActiveOK
<1>a. Activating(r) => active = q.on /\ active \in dirs /\ yaml[active] # "missing"
  BY DEF ActiveOK
<1>u. UNCHANGED <<dirs, yaml>>
  BY <1>e DEF events
<1> DEFINE GoesOnActivating == n.kind = "activate" /\ n.at \in {"read", "truncate", "flush"}
           There(e) == e \in dirs /\ yaml[e] # "missing"
           Kept(e, b, c) == /\ There(e) /\ (b \/ n.at = "flush")
                            /\ c = e \/ GoesOnActivating
                            /\ GoesOnActivating => c = n.on /\ There(c)
<1>g. Kept(config'.active, configWhole', active') => DirsOK' /\ ActiveOK'
  BY <1>d, <1>k, <1>o, <1>u DEF ActiveOK, Activating
<1>s. ASSUME NEW step, Goes(r, step)
      PROVE  n.at = step /\ n.kind = q.kind /\ n.on = q.on
  BY <1>s, <1>o, <1>t DEF Goes, TypeOK, RequestType
<1>z. ASSUME Refused(r)
      PROVE  n.at = "begin" /\ n.kind = "none"
  BY <1>z, <1>f, <1>o, <1>t DEF Refused, TypeOK
<1>1. CASE ActivateBegins(r)
  <2>1. q.at = "begin" /\ q.kind = "activate" /\ UNCHANGED <<configWhole, config>>
    BY <1>1 DEF ActivateBegins, At, configFile
  <2>2. active = config.active /\ configWhole
    BY <1>v, <1>w, <2>1 DEF Activating
  <2>3. CASE Refused(r) /\ active' = active
    BY <1>c, <1>g, <1>z, <2>1, <2>2, <2>3
  <2>4. CASE Loads(q.on) /\ active' = q.on /\ Goes(r, "read")
    <3>1. q.on \in dirs /\ yaml[q.on] # "missing"
      BY <1>t, <2>4 DEF Loads, DirsOK, RequestType
    <3> QED BY <1>c, <1>g, <1>s, <2>1, <2>2, <2>4, <3>1
  <2> QED BY <1>1, <2>3, <2>4 DEF ActivateBegins
<1>2. CASE DeliveryBegins(r)
  <2>1. /\ q.at = "begin" /\ q.kind # "activate" /\ UNCHANGED <<configWhole, config, active>>
        /\ Goes(r, "read") \/ Refused(r)
    BY <1>2 DEF DeliveryBegins, At, configFile, process
  <2>2. active = config.active /\ configWhole
    BY <1>v, <1>w, <2>1 DEF Activating
  <2>3. n.kind # "activate"
    BY <1>s, <1>z, <2>1
  <2> QED BY <1>c, <1>g, <2>1, <2>2, <2>3
<1>3. CASE ConfigRead(r)
  <2>1. /\ q.at = "read" /\ UNCHANGED <<configWhole, config, active>> /\ configWhole
        /\ req' = [req EXCEPT ![r].at = "truncate", ![r].cfg = config]
    BY <1>3, <1>w DEF ConfigRead, At, configFile, process
  <2>2. n.at = "truncate" /\ n.kind = q.kind /\ n.on = q.on
    <3>1. req' = [req EXCEPT ![r] = [q EXCEPT !.at = "truncate", !.cfg = config]]
      BY <1>t, <2>1 DEF TypeOK
    <3>2. n = [q EXCEPT !.at = "truncate", !.cfg = config]
      BY <1>t, <1>o, <3>1 DEF TypeOK
    <3> QED BY <1>t, <3>2 DEF RequestType
  <2>3. Activating(r) => GoesOnActivating
    BY <2>2 DEF Activating
  <2>4. GoesOnActivating => Activating(r)
    BY <2>1, <2>2 DEF Activating
  <2> QED BY <1>a, <1>c, <1>g, <1>v, <2>1, <2>2, <2>3, <2>4
<1>4. CASE ConfigTruncated(r)
  <2>1. q.at = "truncate" /\ UNCHANGED <<config, active>> /\ Goes(r, "flush")
    BY <1>4 DEF ConfigTruncated, At, process
  <2>2. n.at = "flush" /\ n.kind = q.kind /\ n.on = q.on
    BY <1>s, <2>1
  <2>3. Activating(r) <=> GoesOnActivating
    BY <2>1, <2>2 DEF Activating
  <2> QED BY <1>a, <1>c, <1>g, <1>v, <2>1, <2>2, <2>3
<1>5. CASE ConfigWritten(r)
  <2>1. /\ q.at = "flush" /\ configWhole' /\ active' = active /\ Goes(r, "reply")
        /\ config' = Changed(q.cfg, q)
    BY <1>5 DEF ConfigWritten, At, process
  <2>2. q.cfg = config /\ config \in Config
    BY <1>e, <1>t, <2>1 DEF ConfigOK, TypeOK
  <2>3. n.at = "reply"
    BY <1>s, <2>1
  <2>4. CASE q.kind = "activate"
    <3>1. config' = [config EXCEPT !.active = q.on] /\ Activating(r)
      BY <2>1, <2>2, <2>4 DEF Changed, Activating
    <3>2. config'.active = q.on
      BY <2>2, <3>1 DEF Config
    <3> QED BY <1>a, <1>g, <2>1, <2>3, <3>1, <3>2
  <2>5. CASE q.kind # "activate"
    <3>1. config'.active = config.active
      BY <1>e, <2>1, <2>2, <2>5 DEF Changed, Config, ConfigKinds
    <3>2. active = config.active
      BY <1>v, <2>5 DEF Activating
    <3> QED BY <1>c, <1>g, <2>1, <2>3, <3>1, <3>2
  <2> QED BY <2>4, <2>5
<1> QED
  BY <1>1, <1>2, <1>3, <1>4, <1>5 DEF ConfigHandler

(* Every step keeps the active event there, in the file and in memory, when  *)
(* one request at a time is made.                                            *)
LEMMA ActiveStep ==
  ASSUME AdminAssumption, OneAtATime, TInv, ConfigOK, DirsOK, ActiveOK, [Next]_vars
  PROVE  DirsOK' /\ ActiveOK'
<1>t. TypeOK /\ StepsOK /\ req \in [Requests -> RequestType]
  BY DEF TInv, TypeOK, RequestType
<1>f. Free.kind = "none" /\ Free.at = "begin" /\ "none" \notin EventKinds
  BY DEF Free, EventKinds
<1>r. ASSUME NEW r \in Requests, NEW n, req' = [req EXCEPT ![r] = n], n.at = "begin",
             req[r].at \in {"begin", "reply"},
             UNCHANGED <<events, configFile, process>>
      PROVE  DirsOK' /\ ActiveOK'
  <2>1. \A s \in Requests : s = r /\ req'[s] = n
    BY <1>t, <1>r, OneRequest
  <2>2. ~Activating(r) /\ ~Activating(r)'
    BY <1>r, <2>1 DEF Activating
  <2>3. DirsOK'
    BY <1>r, <2>1 DEF DirsOK, events
  <2> QED
    BY <1>r, <2>1, <2>2, <2>3 DEF ActiveOK, events, configFile, process
<1>1. ASSUME NEW r \in Requests, Answered(r)
      PROVE  DirsOK' /\ ActiveOK'
  <2>1. /\ req' = [req EXCEPT ![r] = Free] /\ req[r].at = "reply"
        /\ UNCHANGED <<events, configFile, process>>
    BY <1>1 DEF Answered, Refused
  <2> QED BY <1>f, <1>r, <2>1
<1>2. ASSUME NEW r \in Requests, NEW p \in Pages, Operator(r, p)
      PROVE  DirsOK' /\ ActiveOK'
  <2>1. PICK n \in RequestType : SentBy(r, p, n)
    BY <1>2, <1>t, OperatorSends
  <2>2. req[r].kind = "none" /\ UNCHANGED <<events, configFile, process>>
    BY <1>2, <1>t, OperatorSends
  <2>3. req[r].at = "begin"
    BY <1>t, <2>2 DEF StepsOK, StepsOf, EventKinds, ConfigKinds
  <2> QED BY <1>r, <2>1, <2>2, <2>3 DEF SentBy
<1>3. CASE Crash
  BY <1>3, <1>f DEF Crash, DirsOK, ActiveOK, Activating, events, configFile
<1>4. CASE Restart \/ Boot
  <2>1. /\ UNCHANGED <<dirs, yaml, images, configWhole, config, req>>
        /\ configWhole /\ up' = TRUE /\ active' = config.active
    BY <1>4 DEF Restart, Boot, Start, events, configFile
  <2>2. \A r \in Requests : req[r].kind = "none"
    BY <1>4, <1>t DEF Restart, Boot, StepsOK
  <2> QED
    BY <2>1, <2>2 DEF DirsOK, ActiveOK, Activating, EventKinds
<1>5. CASE UNCHANGED vars \/ \E p \in Pages, e \in Ids : Select(p, e)
  <2>1. UNCHANGED <<events, configFile, process, req>>
    BY <1>5 DEF vars, Select
  <2> QED
    BY <2>1 DEF DirsOK, ActiveOK, Activating, events, configFile, process
<1> QED
  BY <1>1, <1>2, <1>3, <1>4, <1>5, EventDirs, ConfigActive
     DEF Next, Handler, EventHandler, ConfigHandler
-----------------------------------------------------------------------------
(* A handler of an event request changes no event but its own.               *)
LEMMA OnlyItsEvent ==
  ASSUME TypeOK, NEW r \in Requests, EventHandler(r), NEW d \in Ids, d # req[r].on
  PROVE  /\ d \in dirs' <=> d \in dirs
         /\ d \in hurt' <=> d \in hurt
         /\ yaml'[d] = yaml[d] /\ event'[d] = event[d] /\ images'[d] = images[d]
<1>1. CASE SaveBegins(r) \/ DuplicateLoads(r) \/ DeleteBegins(r)
  BY <1>1 DEF SaveBegins, DuplicateLoads, DeleteBegins, events
<1>2. CASE UploadBegins(r) \/ UploadWrites(r) \/ CreateBegins(r)
  BY <1>2 DEF UploadBegins, UploadWrites, CreateBegins, TypeOK
<1>3. CASE DuplicateBegins(r)
  BY <1>3 DEF DuplicateBegins, TypeOK, events
<1>4. CASE YamlTruncated(r) \/ YamlWritten(r)
  BY <1>4 DEF YamlTruncated, YamlWritten, TypeOK
<1>5. CASE FilesRemoved(r)
  BY <1>5 DEF FilesRemoved, TypeOK
<1>6. CASE DirRemoved(r)
  BY <1>6 DEF DirRemoved, TypeOK
<1> QED
  BY <1>1, <1>2, <1>3, <1>4, <1>5, <1>6 DEF EventHandler

(* What a handler has got for its event is what the event needs.             *)
LEMMA EventCarries ==
  ASSUME AdminAssumption, TInv, DirsOK, CarriesOK,
         NEW r \in Requests, EventHandler(r), NEW n \in RequestType, EventMove(r, n)
  PROVE  Carries(n)'
<1> DEFINE q == req[r]
<1>t. TypeOK /\ q.kind \in EventKinds /\ q.on \in Ids /\ q.copy \in Ids /\ q.at # "reply"
  BY EventHandlers DEF TInv, TypeOK
<1>f. Free.kind = "none" /\ "none" \notin EventKinds
  BY DEF Free, EventKinds
<1>0. CASE n = Free
  BY <1>0, <1>f DEF Carries, EventKinds
<1>n. ASSUME n # Free
      PROVE  /\ EventMove(r, n) /\ n.kind = q.kind /\ n.on = q.on /\ n.copy = q.copy
             /\ n.kind \in EventKinds
  BY <1>n DEF EventMove, GoesOn
<1>1. ASSUME n # Free, n.at # "reply", n.body = q.body,
             n.kind = "duplicate" /\ n.at \in {"open", "write"} => q.at = "open"
      PROVE  Carries(n)'
  BY <1>1, <1>n DEF CarriesOK, Carries, EventKinds
<1>2. CASE n # Free /\ (SaveBegins(r) \/ CreateBegins(r) \/ DeleteBegins(r))
  BY <1>2, <1>n, <1>t DEF CarriesOK, Carries, EventMove, SaveBegins, CreateBegins, DeleteBegins, At
<1>3. CASE n # Free /\ (UploadBegins(r) \/ UploadWrites(r))
  BY <1>3, <1>n DEF Carries, EventMove, UploadBegins, UploadWrites, At
<1>4. CASE n # Free /\ DuplicateBegins(r)
  BY <1>4, <1>n DEF Carries, EventMove, DuplicateBegins, At
<1>5. CASE n # Free /\ DuplicateLoads(r)
  <2>1. n.at = "open" /\ n.body = [event[n.copy] EXCEPT !.id = n.on] /\ event[n.copy] \in EventConfig
    BY <1>5, <1>n, <1>t DEF EventMove, TypeOK
  <2>2. n.body.id = n.on
    BY <2>1 DEF EventConfig
  <2>3. n.kind = "duplicate"
    BY <1>5, <1>n DEF DuplicateLoads, At
  <2> QED BY <2>1, <2>2, <2>3 DEF Carries
<1>6. CASE n # Free /\ YamlTruncated(r)
  <2>1. n.at = "write" /\ n.body = q.body /\ q.at = "open"
    BY <1>6, <1>n DEF EventMove, YamlTruncated, At
  <2> QED BY <1>1, <1>6, <2>1
<1>7. CASE n # Free /\ YamlWritten(r)
  <2>1. n.at = "reply" /\ n.body = q.body /\ q.at = "write" /\ q.on \in dirs' /\ n.kind # "delete"
    BY <1>7, <1>n, <1>t DEF EventMove, YamlWritten, At, DirsOK, Steps, TInv, StepsOK, StepsOf
  <2>2. yaml'[n.on] = "whole" /\ event'[n.on] = n.body
    BY <1>7, <1>n, <1>t, <2>1 DEF YamlWritten, TypeOK
  <2> QED BY <1>n, <1>7, <2>1, <2>2 DEF CarriesOK, Carries, Loads
<1>8. CASE n # Free /\ (FilesRemoved(r) \/ DirRemoved(r))
  BY <1>8, <1>n DEF Carries, EventMove, FilesRemoved, DirRemoved, At
<1> QED
  BY <1>0, <1>2, <1>3, <1>4, <1>5, <1>6, <1>7, <1>8 DEF EventHandler

(* A handler brings its event one step on.                                   *)
LEMMA EventProgress ==
  ASSUME AdminAssumption, OneAtATime, TInv, DirsOK, CarriesOK, ProgressOK, QuietOK,
         NEW r \in Requests, EventHandler(r), NEW n \in RequestType, EventMove(r, n)
  PROVE  Progress(n)'
<1> DEFINE q == req[r]
           e == q.on
<1>t. /\ TypeOK /\ q \in RequestType /\ q.kind \in EventKinds /\ e \in Ids /\ q.copy \in Ids
      /\ q.at # "reply" /\ q.at \in StepsOf(q.kind)
  BY EventHandlers DEF TInv, TypeOK, RequestType, StepsOK
<1>f. Free.kind = "none" /\ "none" \notin EventKinds
  BY DEF Free, EventKinds
<1>0. CASE n = Free
  BY <1>0, <1>f DEF Progress
<1>n. ASSUME n # Free
      PROVE  /\ n.kind = q.kind /\ n.on = e /\ n.copy = q.copy /\ n.kind \in EventKinds
             /\ n.at \in StepsOf(n.kind)
  BY <1>n DEF EventMove, GoesOn
<1>p. Progress(q)
  BY DEF ProgressOK
<1>1. CASE n # Free /\ SaveBegins(r)
  <2>1. /\ n.at = "open" /\ n.body = q.body /\ q.kind = "save" /\ q.at = "begin"
        /\ UNCHANGED <<dirs, yaml, event, images, hurt>>
    BY <1>1 DEF EventMove, SaveBegins, At, events
  <2> QED
    BY <1>n, <1>1, <1>p, <2>1 DEF Progress, Untouched, Sound, Fits
<1>2. CASE n # Free /\ UploadBegins(r)
  <2>1. /\ n.at = "image" /\ n.body = [event[e] EXCEPT !.image = q.body.image]
        /\ q.kind = "upload" /\ q.at = "begin" /\ UNCHANGED <<dirs, yaml, event, hurt>>
    BY <1>2, <1>n DEF EventMove, UploadBegins, At
  <2>2. n.body.id = event[e].id
    BY <1>t, <2>1 DEF TypeOK, EventConfig
  <2> QED
    BY <1>n, <1>2, <1>p, <2>1, <2>2 DEF Progress, Untouched, Sound, Fits
<1>3. CASE n # Free /\ UploadWrites(r)
  <2>1. /\ n.at = "open" /\ n.body = q.body /\ q.kind = "upload" /\ q.at = "image"
        /\ UNCHANGED <<dirs, yaml, event, hurt>> /\ q.body.image \in images'[e]
    BY <1>3, <1>t DEF EventMove, UploadWrites, At, TypeOK
  <2> QED
    BY <1>n, <1>3, <1>p, <2>1 DEF Progress, Untouched, Fits
<1>4. CASE n # Free /\ CreateBegins(r)
  <2>1. /\ n.at = "open" /\ n.body = q.body /\ q.kind = "create" /\ e \notin dirs
        /\ UNCHANGED <<yaml, event, images, hurt>>
    BY <1>4, <1>n DEF EventMove, CreateBegins, At
  <2>2. yaml'[e] = "missing" /\ q.body.id = e /\ q.body.image = NoImage
    BY <1>t, <2>1 DEF DirsOK, CarriesOK, Carries
  <2> QED
    BY <1>n, <1>4, <2>1, <2>2 DEF Progress, Untouched, Fits, Loads
<1>5. CASE n # Free /\ DuplicateBegins(r)
  <2>1. /\ n.at = "load" /\ q.kind = "duplicate" /\ e \notin dirs /\ q.copy \in dirs
        /\ dirs' = dirs \cup {e} /\ event'[e] = event[q.copy] /\ images'[e] = images[q.copy]
        /\ q.copy \in hurt => e \in hurt'
    <3>1. n.at = "load" /\ e \notin dirs /\ q.copy \in dirs
      BY <1>5, <1>n DEF EventMove
    <3>2. q.kind = "duplicate" /\ ~Refused(r)
      BY <1>5, <1>f, <1>t, <1>n DEF DuplicateBegins, At, EventMove, Refused, TypeOK
    <3> QED BY <1>5, <1>t, <3>1, <3>2 DEF DuplicateBegins, TypeOK
  <2>2. Quiet(q.copy)
    BY <2>1 DEF Quiet, OneAtATime
  <2>3. q.copy # e /\ (e \notin hurt' => Sound(q.copy))
    BY <2>1, <2>2 DEF QuietOK
  <2>4. Sound(q.copy) => Sound(n.copy)'
    BY <1>n, <1>5, <1>t, <2>3, OnlyItsEvent DEF Sound, Fits
  <2>5. event'[e] = event'[q.copy] /\ images'[e] = images'[q.copy] /\ q.copy \in dirs'
    BY <1>t, <2>1, <2>3, OnlyItsEvent
  <2> QED
    BY <1>n, <1>5, <2>1, <2>3, <2>4, <2>5 DEF Progress, Untouched
<1>6. CASE n # Free /\ DuplicateLoads(r)
  <2>1. /\ n.at = "open" /\ n.body = [event[q.copy] EXCEPT !.id = e]
        /\ q.kind = "duplicate" /\ q.at = "load" /\ UNCHANGED <<dirs, yaml, event, images, hurt>>
    BY <1>6, <1>n DEF EventMove, DuplicateLoads, At, events
  <2>2. n.body.id = e /\ n.body.image = event[q.copy].image
    BY <1>t, <2>1 DEF TypeOK, EventConfig
  <2> QED
    BY <1>n, <1>6, <1>p, <2>1, <2>2 DEF Progress, Untouched, Sound, Fits
<1>7. CASE n # Free /\ YamlTruncated(r)
  <2>1. /\ n.at = "write" /\ n.body = q.body /\ q.at = "open" /\ yaml'[e] = "truncated"
        /\ UNCHANGED <<dirs, images, hurt>>
    BY <1>7, <1>t DEF EventMove, YamlTruncated, At, TypeOK
  <2> QED
    BY <1>n, <1>7, <1>p, <2>1 DEF Progress, Untouched, Fits, Loads
<1>8. CASE n # Free /\ YamlWritten(r)
  <2>1. /\ n.at = "reply" /\ n.body = q.body /\ q.at = "write" /\ yaml'[e] = "whole"
        /\ event'[e] = q.body /\ UNCHANGED <<dirs, images, hurt>>
    BY <1>8, <1>t DEF EventMove, YamlWritten, At, TypeOK
  <2> QED
    BY <1>n, <1>8, <1>p, <2>1 DEF Progress, Untouched, Sound, Fits
<1>9. CASE n # Free /\ DeleteBegins(r)
  <2>1. /\ n.at = "rmtree" /\ q.kind = "delete" /\ q.at = "begin"
        /\ UNCHANGED <<dirs, yaml, event, images, hurt>>
    BY <1>9 DEF EventMove, DeleteBegins, At, events
  <2> QED
    BY <1>n, <1>9, <1>p, <2>1 DEF Progress, Untouched, Sound, Fits
<1>10. CASE n # Free /\ FilesRemoved(r)
  <2>1. /\ n.at = "rmdir" /\ q.kind = "delete" /\ q.at = "rmtree" /\ UNCHANGED <<dirs, hurt>>
        /\ yaml'[e] = "missing" \/ event'[e] = event[e]
    BY <1>10, <1>t DEF EventMove, FilesRemoved, At, TypeOK
  <2> QED
    BY <1>n, <1>10, <1>p, <2>1 DEF Progress, Untouched, Sound, Fits, Loads
<1>11. CASE n # Free /\ DirRemoved(r)
  <2>1. e \notin dirs'
    BY <1>11 DEF DirRemoved
  <2> QED BY <1>n, <1>11, <2>1 DEF Progress
<1> QED
  BY <1>0, <1>1, <1>2, <1>3, <1>4, <1>5, <1>6, <1>7, <1>8, <1>9, <1>10, <1>11 DEF EventHandler

(* Drafts stay of events that are there or were hurt, and name a file that   *)
(* is there or changes.                                                      *)
LEMMA EventDrafts ==
  ASSUME AdminAssumption, OneAtATime, TInv, DirsOK, DraftsOK,
         NEW r \in Requests, EventHandler(r), NEW n \in RequestType, EventMove(r, n)
  PROVE  DraftsOK'
<1> DEFINE q == req[r]
           e == q.on
<1>t. /\ TypeOK /\ q.kind \in EventKinds /\ e \in Ids /\ q.at # "reply"
      /\ UNCHANGED <<draft, hasDraft>>
  BY EventHandlers DEF TInv, TypeOK, page
<1>o. \A s \in Requests : s = r /\ req'[s] = n
  BY <1>t, OneRequest DEF EventMove
<1>n. n # Free => n.kind = q.kind /\ n.on = e /\ n.at # "begin"
  BY DEF EventMove, GoesOn
<1>f. ~GoesOn(r, Free)
  BY DEF GoesOn, Free
<1> SUFFICES ASSUME NEW p \in Pages, hasDraft[p], NEW b, b = draft[p], NEW d, d = b.id
             PROVE  /\ d \in dirs' \cup hurt' \/ Deleted(d)'
                    /\ d \in dirs' \ hurt' => Changing(d)' \/ Fits(d, b)'
  BY <1>t DEF DraftsOK
<1>d. d \in Ids /\ b \in EventConfig
  BY <1>t DEF TypeOK, EventConfig
<1>1. d \in dirs \cup hurt /\ (d \in dirs \ hurt => Changing(d) \/ Fits(d, b))
  BY <1>o, <1>t DEF DraftsOK, Deleted
<1>2. CASE d # e
  <2>1. ~Changing(d)
    BY <1>o, <1>2 DEF Changing
  <2> QED
    BY <1>1, <1>2, <1>d, <1>t, <2>1, OnlyItsEvent DEF Fits
<1>3. CASE d = e /\ n = Free
  <2>1. UNCHANGED <<dirs, images, hurt>>
    BY <1>3, <1>f DEF EventMove, events
  <2>2. ~Changing(d)
    <3>1. q.at = "begin" \/ q.kind = "duplicate"
      BY <1>3, <1>f DEF EventMove, DuplicateLoads, At
    <3> QED BY <1>o, <3>1 DEF Changing
  <2> QED BY <1>1, <2>1, <2>2 DEF Fits
<1>4. CASE d = e /\ n # Free
  <2>1. CASE SaveBegins(r) \/ DuplicateLoads(r) \/ DeleteBegins(r) \/ YamlTruncated(r) \/ YamlWritten(r)
    <3>1. UNCHANGED <<dirs, images, hurt>> /\ q.at # "rmdir"
      BY <2>1, <1>t DEF SaveBegins, DuplicateLoads, DeleteBegins, YamlTruncated, YamlWritten, events, At
    <3>2. Changing(d) => Changing(d)'
      BY <1>o, <1>n, <1>4, <1>t, <3>1 DEF Changing
    <3> QED BY <1>1, <3>1, <3>2 DEF Fits
  <2>2. CASE UploadBegins(r) \/ UploadWrites(r)
    <3>1. UNCHANGED <<dirs, hurt>> /\ Changing(d)'
      BY <2>2, <1>o, <1>n, <1>4 DEF UploadBegins, UploadWrites, At, Changing
    <3> QED BY <1>1, <3>1
  <2>3. CASE CreateBegins(r) \/ DuplicateBegins(r)
    <3>1. d \in hurt
      BY <2>3, <1>1, <1>4, <1>n DEF EventMove
    <3>2. hurt \subseteq hurt'
      BY <2>3 DEF CreateBegins, DuplicateBegins
    <3> QED BY <3>1, <3>2
  <2>4. CASE FilesRemoved(r)
    <3>1. UNCHANGED <<dirs, hurt>> /\ Changing(d)'
      BY <2>4, <1>o, <1>n, <1>4 DEF FilesRemoved, At, Changing, EventMove
    <3> QED BY <1>1, <3>1
  <2>5. CASE DirRemoved(r)
    <3>1. d \notin dirs' /\ Deleted(d)'
      BY <2>5, <1>o, <1>n, <1>4 DEF DirRemoved, At, Deleted, EventMove
    <3> QED BY <3>1
  <2> QED BY <2>1, <2>2, <2>3, <2>4, <2>5 DEF EventHandler
<1> QED BY <1>2, <1>3, <1>4

(* A handler of an event request keeps the events whole.                     *)
LEMMA EventKeeps ==
  ASSUME AdminAssumption, OneAtATime, TInv, DirsOK, EventsOK, NEW r \in Requests, EventHandler(r)
  PROVE  EventsOK'
<1> DEFINE e == req[r].on
<1>t. TypeOK /\ req[r].kind \in EventKinds
  BY EventHandlers DEF TInv
<1>n. PICK n \in RequestType : EventMove(r, n)
  BY EventMoves
<1>o. \A s \in Requests : s = r /\ req'[s] = n
  BY <1>t, <1>n, OneRequest DEF EventMove
<1>1. CarriesOK'
  <2>1. Carries(n)'
    BY <1>n, EventCarries DEF EventsOK
  <2> QED BY <1>o, <2>1 DEF CarriesOK, Carries
<1>2. ProgressOK'
  <2>1. Progress(n)'
    BY <1>n, EventProgress DEF EventsOK
  <2> QED BY <1>o, <2>1 DEF ProgressOK, Progress
<1>3. QuietOK'
  <2> SUFFICES ASSUME NEW d \in dirs' \ hurt', Quiet(d)'
               PROVE  Sound(d)'
    BY DEF QuietOK
  <2>1. d \in Ids
    BY TypeStep, <1>t DEF TInv, TypeOK, Next, Handler, EventHandler
  <2>2. CASE d # e
    <3>1. d \in dirs \ hurt /\ yaml'[d] = yaml[d] /\ event'[d] = event[d] /\ images'[d] = images[d]
      BY <1>t, <2>1, <2>2, OnlyItsEvent
    <3>2. Sound(d)
      BY <1>o, <2>2, <3>1 DEF EventsOK, QuietOK, Quiet
    <3> QED BY <3>1, <3>2 DEF Sound, Fits
  <2>3. CASE d = e
    <3>1. n = Free
      BY <1>n, <1>o, <2>3 DEF EventMove, GoesOn, Quiet
    <3>2. UNCHANGED <<dirs, yaml, event, images, hurt>> /\ ~GoesOn(r, Free)
      BY <1>n, <3>1 DEF EventMove, GoesOn, Free, events
    <3>3. Progress(req[r])
      BY DEF EventsOK, ProgressOK
    <3>4. CASE req[r].at = "begin"
      BY <1>t, <2>3, <3>2, <3>3, <3>4 DEF Progress, Untouched, Sound, Fits
    <3>5. CASE DuplicateLoads(r)
      <4>1. req[r].kind = "duplicate" /\ req[r].at = "load" /\ ~Loads(req[r].copy)
        BY <1>n, <1>o, <1>t, <3>1, <3>5 DEF DuplicateLoads, At, EventMove, Free, TypeOK
      <4> QED
        BY <1>t, <2>3, <3>2, <3>3, <4>1 DEF Progress, Sound, Loads
    <3> QED BY <1>n, <3>1, <3>2, <3>4, <3>5 DEF EventMove
  <2> QED BY <2>2, <2>3
<1>4. DraftsOK'
  BY <1>n, EventDrafts DEF EventsOK
<1> QED BY <1>1, <1>2, <1>3, <1>4 DEF EventsOK

(* Where no request is on an event, every event is whole, and so is what a   *)
(* page edits.                                                               *)
LEMMA AllQuiet ==
  ASSUME EventsOK, \A r \in Requests : req[r].kind \notin EventKinds
  PROVE  /\ \A e \in dirs \ hurt : Sound(e)
         /\ \A p \in Pages : hasDraft[p] =>
              /\ draft[p].id \in dirs \cup hurt
              /\ draft[p].id \in dirs \ hurt => Fits(draft[p].id, draft[p])
<1>1. \A e \in dirs : Quiet(e)
  BY DEF Quiet
<1>2. \A e : ~Deleted(e) /\ ~Changing(e)
  BY DEF Deleted, Changing, EventKinds
<1> QED BY <1>1, <1>2 DEF EventsOK, QuietOK, DraftsOK

(* A config request, or its handler, has nothing to do with the events.      *)
LEMMA ConfigKeeps ==
  ASSUME OneAtATime, TInv, EventsOK, NEW r \in Requests, NEW n, req' = [req EXCEPT ![r] = n],
         req[r].kind \notin EventKinds, n.kind \notin EventKinds,
         UNCHANGED <<events, page, hurt>>
  PROVE  EventsOK'
<1>o. \A s \in Requests : s = r /\ req'[s] = n
  BY OneRequest DEF TInv
<1>q. /\ \A e \in dirs \ hurt : Sound(e)
      /\ \A p \in Pages : hasDraft[p] =>
           /\ draft[p].id \in dirs \cup hurt
           /\ draft[p].id \in dirs \ hurt => Fits(draft[p].id, draft[p])
  BY <1>o, AllQuiet
<1>1. CarriesOK' /\ ProgressOK'
  BY <1>o DEF CarriesOK, Carries, ProgressOK, Progress, EventKinds
<1>2. QuietOK'
  BY <1>q DEF QuietOK, Sound, Fits, events
<1>3. DraftsOK'
  BY <1>q DEF DraftsOK, Fits, events, page
<1> QED BY <1>1, <1>2, <1>3 DEF EventsOK

(* A page sends what is right for the event it is on.                        *)
LEMMA OperatorKeeps ==
  ASSUME AdminAssumption, OneAtATime, TInv, EventsOK,
         NEW r \in Requests, NEW p \in Pages, Operator(r, p)
  PROVE  EventsOK'
<1>t. TypeOK
  BY DEF TInv
<1>n. PICK n \in RequestType : SentBy(r, p, n)
  BY <1>t, OperatorSends
<1>u. req[r].kind = "none" /\ UNCHANGED <<events, page, hurt>>
  BY <1>t, OperatorSends
<1>o. \A s \in Requests : s = r /\ req'[s] = n
  BY <1>t, <1>n, OneRequest DEF SentBy
<1>q. /\ \A e \in dirs \ hurt : Sound(e)
      /\ \A a \in Pages : hasDraft[a] =>
           /\ draft[a].id \in dirs \cup hurt
           /\ draft[a].id \in dirs \ hurt => Fits(draft[a].id, draft[a])
  BY <1>o, <1>u, AllQuiet, KindsApart
<1>1. CarriesOK'
  BY <1>n, <1>o DEF SentBy, CarriesOK, Carries
<1>2. ProgressOK'
  <2>1. n.kind = "save" => /\ n.body.id = n.on /\ n.body.image = draft[p].image
                           /\ n.on = draft[p].id /\ hasDraft[p]
    BY <1>n DEF SentBy
  <2>2. Progress(n)'
    BY <1>n, <1>q, <1>u, <2>1 DEF SentBy, Progress, Untouched, Sound, Fits, events
  <2> QED BY <1>o, <2>2 DEF ProgressOK, Progress
<1>3. QuietOK'
  BY <1>q, <1>u DEF QuietOK, Sound, Fits, events
<1>4. DraftsOK'
  BY <1>q, <1>u DEF DraftsOK, Fits, events, page
<1> QED BY <1>1, <1>2, <1>3, <1>4 DEF EventsOK

(* The page edits content that is saved where it belongs.                    *)
LEMMA EditsKeeps ==
  ASSUME SinglePage, TypeOK, NEW p \in Pages, NEW e, NEW b, Edits(p, e, b), UNCHANGED events,
         b.id \in dirs \cup hurt',
         b.id \in dirs \ hurt' => Changing(b.id)' \/ Fits(b.id, b)
  PROVE  DraftsOK'
<1>1. \A a \in Pages : a = p /\ draft'[a] = b
  BY DEF SinglePage, Edits, TypeOK
<1>2. \A d : Fits(d, b)' <=> Fits(d, b)
  BY DEF Fits, events
<1> QED BY <1>1, <1>2 DEF DraftsOK, events

LEMMA NothingKeeps ==
  ASSUME SinglePage, TypeOK, NEW p \in Pages, EditsNothing(p)
  PROVE  DraftsOK'
BY DEF SinglePage, TypeOK, EditsNothing, DraftsOK

(* What an event holds is saved under its own id, unless it is hurt, or an   *)
(* unfinished copy, which holds what its source does.                        *)
LEMMA OpenedFits ==
  ASSUME OneAtATime, TInv, DirsOK, EventsOK, NEW e \in Ids, Loads(e), e \notin hurt
  PROVE  LET d == event[e].id IN d \in dirs /\ (Changing(d) \/ Fits(d, event[e]))
<1>d. e \in dirs \ hurt
  BY DEF DirsOK, Loads
<1>1. CASE Quiet(e)
  BY <1>d, <1>1 DEF EventsOK, QuietOK, Sound, Fits
<1>2. ASSUME NEW r \in Requests, req[r].kind \in EventKinds, req[r].on = e
      PROVE  event[e].id \in dirs /\ (Changing(event[e].id) \/ Fits(event[e].id, event[e]))
  <2>p. Progress(req[r]) /\ Carries(req[r]) /\ req[r].at \in StepsOf(req[r].kind)
    BY DEF EventsOK, ProgressOK, CarriesOK, TInv, StepsOK
  <2>1. CASE Untouched(req[r])
    BY <1>d, <1>2, <2>p, <2>1 DEF Progress, Sound, Fits
  <2>2. CASE req[r].kind = "duplicate" /\ req[r].at \in {"load", "open"}
    BY <1>d, <1>2, <2>p, <2>2 DEF Progress, Sound, Fits
  <2>3. CASE req[r].kind = "upload" /\ req[r].at \in {"image", "open"}
    <3>1. event[e].id = e
      BY <1>d, <1>2, <2>p, <2>3 DEF Progress
    <3> QED BY <1>d, <1>2, <2>3, <3>1 DEF Changing
  <2>4. CASE req[r].kind = "delete" /\ req[r].at = "rmdir"
    <3>1. event[e].id = e
      BY <1>d, <1>2, <2>p, <2>4 DEF Progress
    <3> QED BY <1>d, <1>2, <2>4, <3>1 DEF Changing
  <2>5. req[r].at # "write" /\ ~(req[r].kind = "create" /\ req[r].at = "open")
    BY <1>d, <1>2, <2>p DEF Progress
  <2> QED
    BY <1>2, <2>p, <2>1, <2>2, <2>3, <2>4, <2>5 DEF StepsOf, EventKinds, ConfigKinds, Untouched
<1> QED BY <1>1, <1>2 DEF Quiet

(* The operator selects a row.                                               *)
LEMMA SelectKeeps ==
  ASSUME OneAtATime, SinglePage, TInv, DirsOK, EventsOK,
         NEW p \in Pages, NEW e \in Ids, Select(p, e)
  PROVE  EventsOK'
<1>t. TypeOK
  BY DEF TInv
<1>u. UNCHANGED <<events, req>>
  BY DEF Select
<1>h. hurt \subseteq hurt'
  BY DEF Select, Opens, Edits, EditsNothing
<1>1. CarriesOK'
  BY <1>u DEF EventsOK, CarriesOK, Carries, Loads, events
<1>2. QuietOK'
  BY <1>u, <1>h DEF EventsOK, QuietOK, Quiet, Sound, Fits, events
<1>3. ProgressOK'
  <2>1. \A q : Progress(q) => Progress(q)'
    BY <1>u, <1>h DEF Progress, Sound, Fits, Loads, events
  <2> QED BY <1>u, <2>1 DEF EventsOK, ProgressOK, Progress
<1>4. DraftsOK'
  <2>1. CASE EditsNothing(p)
    BY <1>t, <2>1, NothingKeeps
  <2>2. CASE Loads(e) /\ Edits(p, e, event[e])
    <3>1. e \in hurt => event[e].id \in hurt'
      BY <2>2 DEF Edits
    <3>2. e \notin hurt =>
            event[e].id \in dirs /\ (Changing(event[e].id) \/ Fits(event[e].id, event[e]))
      BY <2>2, OpenedFits
    <3>3. \A d : Changing(d) => Changing(d)'
      BY <1>u DEF Changing
    <3> DEFINE b == event[e]
    <3> HIDE DEF b
    <3> QED BY <1>t, <1>u, <2>2, <3>1, <3>2, <3>3, EditsKeeps
  <2> QED BY <2>1, <2>2 DEF Select, Opens
<1> QED BY <1>1, <1>2, <1>3, <1>4 DEF EventsOK

(* The answer reaches the page.                                              *)
LEMMA AnsweredKeeps ==
  ASSUME OneAtATime, SinglePage, TInv, DirsOK, EventsOK, NEW r \in Requests, Answered(r)
  PROVE  EventsOK'
<1> DEFINE q == req[r]
           p == q.from
<1>t. TypeOK /\ q \in RequestType
  BY DEF TInv, TypeOK, RequestType
<1>f. Free.kind = "none" /\ "none" \notin EventKinds
  BY DEF Free, EventKinds
<1>u. UNCHANGED <<events>> /\ req' = [req EXCEPT ![r] = Free] /\ q.at = "reply"
  BY DEF Answered, Refused
<1>o. \A s \in Requests : s = r /\ req'[s] = Free
  BY <1>t, <1>u, OneRequest
<1>h. hurt \subseteq hurt'
  BY DEF Answered, Opens, Edits, EditsNothing
<1>k. q.kind # "none" /\ p \in Pages
  BY <1>u DEF TInv, StepsOK, StepsOf, EventKinds, ConfigKinds
<1>p. Progress(q) /\ Carries(q)
  BY DEF EventsOK, ProgressOK, CarriesOK
<1>1. CarriesOK' /\ ProgressOK'
  BY <1>f, <1>o DEF CarriesOK, Carries, ProgressOK, Progress, EventKinds
<1>2. QuietOK'
  <2>1. \A e \in dirs \ hurt : Sound(e)
    BY <1>o, <1>p, <1>u DEF EventsOK, QuietOK, Quiet, Progress, Untouched
  <2> QED BY <1>h, <1>u, <2>1 DEF QuietOK, Sound, Fits, events
<1>3. DraftsOK'
  <2>1. ASSUME q.kind \in EventKinds \ {"delete"}, Edits(p, q.on, q.body)
        PROVE  DraftsOK'
    <3>1. q.on \in dirs /\ Loads(q.on) /\ event[q.on] = q.body
      BY <1>p, <1>u, <2>1 DEF Carries
    <3>2. q.on \in hurt => q.body.id \in hurt'
      BY <2>1 DEF Edits
    <3>3. q.on \notin hurt => q.body.id = q.on /\ Fits(q.body.id, q.body)
      BY <1>p, <1>u, <2>1, <3>1 DEF Progress, Untouched, Sound, Fits
    <3> DEFINE b == q.body
    <3> HIDE DEF b, q
    <3> QED BY <1>k, <1>t, <1>u, <2>1, <3>1, <3>2, <3>3, EditsKeeps
  <2>2. CASE q.kind \in {"save", "upload"}
    BY <2>1, <2>2 DEF Answered, EventKinds
  <2>3. CASE q.kind \in {"create", "duplicate"}
    <3>1. Loads(q.on) /\ event[q.on] = q.body
      BY <1>p, <1>u, <2>3 DEF Carries, EventKinds
    <3> QED BY <2>1, <2>3, <3>1 DEF Answered, EventKinds, Opens
  <2>4. CASE q.kind = "delete"
    <3>1. CASE EditsNothing(p)
      BY <1>k, <1>t, <3>1, NothingKeeps
    <3>2. CASE UNCHANGED <<draft, hasDraft, hurt>> /\ ~(hasDraft[p] /\ draft[p].id = q.on)
      <4>1. \A a \in Pages : hasDraft[a] => draft[a].id # q.on
        BY <1>k, <3>2 DEF SinglePage
      <4>2. \A d : d # q.on => ~Deleted(d) /\ ~Changing(d)
        BY <1>o DEF Deleted, Changing
      <4> QED
        BY <1>u, <3>2, <4>1, <4>2 DEF EventsOK, DraftsOK, Fits, events
    <3> QED BY <2>4, <3>1, <3>2 DEF Answered
  <2>5. CASE q.kind \in ConfigKinds
    <3>1. UNCHANGED <<draft, hasDraft, hurt>>
      BY <2>5 DEF Answered, ConfigKinds, page
    <3>2. \A d : ~Deleted(d) /\ ~Changing(d)
      BY <1>o, <2>5 DEF Deleted, Changing, ConfigKinds
    <3> QED
      BY <1>u, <3>1, <3>2 DEF EventsOK, DraftsOK, Fits, events
  <2> QED BY <1>k, <1>t, <2>2, <2>3, <2>4, <2>5 DEF RequestType, EventKinds
<1> QED BY <1>1, <1>2, <1>3 DEF EventsOK

(* A crash hurts the event that is worked on.                                *)
LEMMA CrashKeeps ==
  ASSUME OneAtATime, TInv, EventsOK, Crash
  PROVE  EventsOK'
<1>f. Free.kind = "none" /\ "none" \notin EventKinds
  BY DEF Free, EventKinds
<1>u. UNCHANGED <<events, page>> /\ req' = [r \in Requests |-> Free]
  BY DEF Crash
<1>h. /\ hurt \subseteq hurt'
      /\ \A r \in Requests : req[r].kind \in EventKinds /\ req[r].at # "begin" => req[r].on \in hurt'
  BY DEF Crash
<1>1. CarriesOK' /\ ProgressOK'
  BY <1>f, <1>u DEF CarriesOK, Carries, ProgressOK, Progress, EventKinds
<1>2. QuietOK'
  <2>1. ASSUME NEW e \in dirs \ hurt'
        PROVE  Sound(e)
    <3>1. CASE Quiet(e)
      BY <1>h, <2>1, <3>1 DEF EventsOK, QuietOK
    <3>2. ASSUME NEW r \in Requests, req[r].kind \in EventKinds, req[r].on = e
          PROVE  Sound(e)
      <4>1. req[r].at = "begin" /\ e \notin hurt /\ Progress(req[r])
        BY <1>h, <2>1, <3>2 DEF EventsOK, ProgressOK
      <4> QED BY <2>1, <3>2, <4>1 DEF Progress, Untouched
    <3> QED BY <3>1, <3>2 DEF Quiet
  <2> QED BY <1>u, <2>1 DEF QuietOK, Sound, Fits, events
<1>3. DraftsOK'
  <2>1. \A d : Deleted(d) \/ Changing(d) => d \in hurt'
    BY <1>h DEF Deleted, Changing, EventKinds
  <2> QED BY <1>h, <1>u, <2>1 DEF EventsOK, DraftsOK, Fits, events, page
<1> QED BY <1>1, <1>2, <1>3 DEF EventsOK

(* Every step of one operator with one page keeps the events whole.          *)
LEMMA EventsStep ==
  ASSUME AdminAssumption, OneAtATime, SinglePage, TInv, DirsOK, EventsOK, [Next]_vars
  PROVE  EventsOK'
<1>1. ASSUME NEW r \in Requests, ConfigHandler(r)
      PROVE  EventsOK'
  <2>1. PICK n \in RequestType : req' = [req EXCEPT ![r] = n] /\ (n = Free \/ GoesOn(r, n))
    BY <1>1, HandlerMoves DEF ConfigHandler, Handler, TInv
  <2>2. req[r].kind \notin EventKinds /\ n.kind \notin EventKinds
    BY <1>1, <2>1, ConfigHandlers, KindsApart DEF GoesOn, Free
  <2> QED BY <1>1, <2>1, <2>2, ConfigHandlers, ConfigKeeps
<1>2. CASE Restart \/ Boot \/ UNCHANGED vars
  <2>1. UNCHANGED <<events, req, page, hurt>>
    BY <1>2 DEF Restart, Boot, vars
  <2>2. CarriesOK' /\ ProgressOK'
    BY <2>1 DEF EventsOK, CarriesOK, Carries, ProgressOK, Progress, Sound, Fits, Loads, events
  <2>3. QuietOK' /\ DraftsOK'
    BY <2>1 DEF EventsOK, QuietOK, Quiet, DraftsOK, Deleted, Changing, Sound, Fits, events, page
  <2> QED BY <2>2, <2>3 DEF EventsOK
<1> QED
  BY <1>1, <1>2, EventKeeps, OperatorKeeps, SelectKeeps, AnsweredKeeps, CrashKeeps
     DEF Next, Handler, EventHandler, ConfigHandler

-----------------------------------------------------------------------------
(* The booth as delivered: one event, and nothing under way.                 *)
LEMMA Delivered ==
  ASSUME AdminAssumption, Init
  PROVE  IInv
<1>f. /\ Blank \in EventConfig /\ AsDelivered \in Config /\ Free \in RequestType
      /\ Free.kind = "none" /\ Free.at = "begin" /\ Free.at \in StepsOf("none")
      /\ "none" \notin EventKinds \cup ConfigKinds
  BY DeliveredType DEF Free, EventKinds, ConfigKinds, StepsOf, Steps
<1>r. \A r \in Requests : req[r] = Free
  BY DEF Init
<1>1. TypeOK
  BY <1>f DEF Init, TypeOK, AdminAssumption, RequestType
<1>2. StepsOK /\ UploadsOK /\ ConfigOK
  BY <1>f, <1>r DEF Init, StepsOK, UploadsOK, ConfigOK
<1>3. DirsOK /\ ActiveOK
  BY <1>f, <1>r DEF Init, DirsOK, ActiveOK, Activating, AdminAssumption, AsDelivered, ConfigKinds
<1>4. CarriesOK /\ ProgressOK
  BY <1>f, <1>r DEF CarriesOK, Carries, ProgressOK, Progress, EventKinds
<1>5. QuietOK /\ DraftsOK
  BY DEF Init, QuietOK, DraftsOK, Sound, Fits, Blank, AdminAssumption
<1> QED BY <1>1, <1>2, <1>3, <1>4, <1>5 DEF IInv, TInv, EventsOK

(* The types hold for any number of pages and of requests at the same time,  *)
(* whose steps come in any order, and across crashes (web/routers/admin.py,  *)
(* EventsPanel.svelte, DeliveryPanel.svelte).                                *)
THEOREM TypeCorrect == Spec => []TypeOK
<1>1. Init => TInv
  BY Delivered, AdminAssumption DEF IInv
<1>2. TInv /\ [Next]_vars => TInv'
  BY TypeStep, AdminAssumption
<1>3. TInv => TypeOK
  BY DEF TInv
<1> QED BY <1>1, <1>2, <1>3, PTL DEF Spec

(* A change of one part of the config file never undoes another one, with    *)
(* the power failing at any step, as long as no other request is in flight:  *)
(* every route reads the whole file and writes it all again                  *)
(* (admin.py:134-172, 358-404).                                              *)
THEOREM ConfigKept ==
  ASSUME OneAtATime
  PROVE  Spec => []ConfigKeepsChanges
<1>1. Init => TInv /\ ConfigOK
  BY Delivered, AdminAssumption DEF IInv
<1>2. (TInv /\ ConfigOK) /\ [Next]_vars => (TInv /\ ConfigOK)'
  BY TypeStep, ConfigStep, AdminAssumption
<1>3. TInv /\ ConfigOK => ConfigKeepsChanges
  BY DEF ConfigOK, ConfigKeepsChanges
<1> QED BY <1>1, <1>2, <1>3, PTL DEF Spec

(* The event the booth serves is there, in the process's memory and in the   *)
(* config file, whatever any number of pages believes to be active: a        *)
(* deletion is checked against the memory, which an activation changes first *)
(* and a start reads from the file (admin.py:138-172, 307-309).              *)
THEOREM ActiveKept ==
  ASSUME OneAtATime
  PROVE  Spec => []ActiveEventExists
<1> DEFINE Inv == TInv /\ ConfigOK /\ DirsOK /\ ActiveOK
<1>1. Init => Inv
  BY Delivered, AdminAssumption DEF IInv
<1>2. Inv /\ [Next]_vars => Inv'
  BY TypeStep, ConfigStep, ActiveStep, AdminAssumption
<1>3. Inv => ActiveEventExists
  BY DEF ActiveOK, Activating, ActiveEventExists
<1> QED BY <1>1, <1>2, <1>3, PTL DEF Spec

(* The invariant of one operator with one page is inductive.                 *)
THEOREM InductiveIInv ==
  ASSUME OneAtATime, SinglePage
  PROVE  Spec => []IInv
<1>1. Init => IInv
  BY Delivered, AdminAssumption
<1>2. IInv /\ [Next]_vars => IInv'
  BY TypeStep, ConfigStep, ActiveStep, EventsStep, AdminAssumption DEF IInv
<1> QED BY <1>1, <1>2, PTL DEF Spec

(* The event directories survive one operator and the power: every event     *)
(* that no crash has hurt is whole, under its own id, with the background it *)
(* names, once its request is done; and the event that is served is there    *)
(* (admin.py:138-172, 203-220, 280-309, EventsPanel.svelte:116-141).         *)
THEOREM EventsSurvive ==
  ASSUME OneAtATime, SinglePage
  PROVE  Spec => []EventsKept
<1>1. IInv => EventsKept
  BY DEF IInv, ActiveOK, Activating, EventsOK, QuietOK, Sound, Fits, EventsKept,
     ActiveEventExists, EventsSound
<1> QED BY <1>1, InductiveIInv, PTL
=============================================================================
