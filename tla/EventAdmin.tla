----------------------------- MODULE EventAdmin -----------------------------
(* The operator's side of the booth: the directories of the events, the      *)
(* config file and the routes of web/routers/admin.py that change them, the  *)
(* admin page with its draft, and what the running process remembers of it.  *)
(* The routes run in threads, the two uploads on the event loop: a step is   *)
(* the code up to the next access to a file, where power can fail and        *)
(* another thread come between; write_text truncates before it writes.       *)
EXTENDS Integers, FiniteSets

CONSTANTS
  Ids,        \* event ids, the names of the directories
  First,      \* the event the booth is delivered with
  Pages,      \* admin pages
  Requests,   \* places for requests in flight at the same time
  Formats,    \* extensions of a background file
  MaxSaves,   \* bound: saves, numbered to tell their contents apart
  MaxBoots,   \* bound: restarts and crashes
  Faults      \* {"crash"}: power losses

NoImage == "no image"
NoEvent == "no event"

ASSUME AdminAssumption ==
  /\ First \in Ids /\ NoEvent \notin Ids
  /\ NoImage \notin Formats
  /\ MaxSaves \in Nat /\ MaxBoots \in Nat
  /\ Faults \subseteq {"crash"}

(* EventConfig: the background, and one number for all the other fields.     *)
(* The logo goes the way of the background.                                  *)
EventConfig == [id : Ids, text : 0 .. MaxSaves, image : Formats \cup {NoImage}]

(* The part of the config file that the routes change; 0 and FALSE: unset.   *)
Config == [active : Ids, target : 0 .. MaxSaves, password : 0 .. MaxSaves, key : BOOLEAN]

VARIABLES
  \* events.base_dir
  dirs,         \* the directories there are
  yaml,         \* their event.yaml: "missing", "truncated" or "whole"
  event,        \* its content when it is whole
  images,       \* the background files in the directory
  \* the config file
  configWhole, config,
  \* the process
  up,
  active,       \* app.state.active_event_id
  running,      \* Settings as of the start; running.active is the guests' event
  req,          \* the requests in flight
  \* EventsPanel.svelte
  draft,        \* editing
  hasDraft,     \* editing is not null
  believed,     \* activeEventId
  \* history and counters
  meant,        \* the config with each finished change made to its own field
  hurt,         \* events with a request that a crash left unanswered, copies
                \* of them, and events opened from either under another id
  saves, boots

events == <<dirs, yaml, event, images>>
configFile == <<configWhole, config, meant>>
process == <<up, active, running>>
page == <<draft, hasDraft, believed>>
vars == <<events, configFile, process, req, page, hurt, saves, boots>>
-----------------------------------------------------------------------------
Blank       == [id |-> First, text |-> 0, image |-> NoImage]
AsDelivered == [active |-> First, target |-> 0, password |-> 0, key |-> FALSE]

(* A request: its route, where its handler stands, the page it came from,    *)
(* the event it is on and the one it copies, the EventConfig it carries or   *)
(* has read, the config it has read.  A delivery form carries its number in  *)
(* body.text, and a password unless it was left blank.                       *)
EventKinds  == {"save", "upload", "create", "duplicate", "delete"}
ConfigKinds == {"activate", "delivery", "key"}
Steps == {"begin", "image", "load", "open", "write", "rmtree", "rmdir",
          "read", "truncate", "flush", "reply"}

Free == [kind |-> "none", at |-> "begin", from |-> NoEvent, on |-> First,
         copy |-> First, body |-> Blank, blank |-> TRUE, cfg |-> AsDelivered]

TypeOK ==
  /\ dirs \subseteq Ids
  /\ yaml \in [Ids -> {"missing", "truncated", "whole"}]
  /\ event \in [Ids -> EventConfig]
  /\ images \in [Ids -> SUBSET Formats]
  /\ configWhole \in BOOLEAN /\ config \in Config /\ meant \in Config
  /\ up \in BOOLEAN /\ active \in Ids /\ running \in Config
  /\ req \in [Requests ->
       [kind : EventKinds \cup ConfigKinds \cup {"none"}, at : Steps,
        from : Pages \cup {NoEvent}, on : Ids, copy : Ids,
        body : EventConfig, blank : BOOLEAN, cfg : Config]]
  /\ draft \in [Pages -> EventConfig]
  /\ hasDraft \in [Pages -> BOOLEAN]
  /\ believed \in [Pages -> Ids]
  /\ hurt \subseteq Ids
  /\ saves \in 0 .. MaxSaves /\ boots \in 0 .. MaxBoots

Init ==
  /\ dirs = {First}
  /\ yaml = [e \in Ids |-> IF e = First THEN "whole" ELSE "missing"]
  /\ event = [e \in Ids |-> Blank]
  /\ images = [e \in Ids |-> {}]
  /\ configWhole = TRUE /\ config = AsDelivered /\ meant = AsDelivered
  /\ up = TRUE /\ active = First /\ running = AsDelivered
  /\ req = [r \in Requests |-> Free]
  /\ draft = [p \in Pages |-> Blank]
  /\ hasDraft = [p \in Pages |-> FALSE]
  /\ believed = [p \in Pages |-> First]
  /\ hurt = {} /\ saves = 0 /\ boots = 0
-----------------------------------------------------------------------------
(* load_event: raises unless event.yaml is there and holds an EventConfig.   *)
Loads(e) == yaml[e] = "whole"

(* GET /events: the rows of the panel.  A row is named by the id inside the  *)
(* event.yaml, and by the directory only when that does not load.            *)
Listed == {IF Loads(e) THEN event[e].id ELSE e : e \in {d \in dirs : yaml[d] # "missing"}}

(* The request goes on, or is answered with an error and changes no more.    *)
Goes(r, step) == req' = [req EXCEPT ![r].at = step]
Refused(r)    == req' = [req EXCEPT ![r] = Free]
At(r, kinds, step) == up /\ req[r].kind \in kinds /\ req[r].at = step

(* A page's request.                                                         *)
Send(r, p, new) ==
  /\ up /\ req[r].kind = "none"
  /\ req' = [req EXCEPT ![r] = [new EXCEPT !.from = p]]
  /\ UNCHANGED <<events, configFile, process, page, hurt, boots>>

(* What a page edits from now on: the content b of the directory e, or none. *)
(* It is saved under the id inside, which in an interrupted copy is another  *)
(* event's.                                                                  *)
Edits(p, e, b) ==
  /\ hasDraft' = [hasDraft EXCEPT ![p] = TRUE]
  /\ draft' = [draft EXCEPT ![p] = b]
  /\ hurt' = IF e \in hurt THEN hurt \cup {b.id} ELSE hurt

EditsNothing(p) ==
  /\ hasDraft' = [hasDraft EXCEPT ![p] = FALSE]
  /\ draft' = [draft EXCEPT ![p] = Blank]
  /\ UNCHANGED hurt

(* selectEvent: GET the event into the draft, or show the error.             *)
Opens(p, e) == IF Loads(e) THEN Edits(p, e, event[e]) ELSE EditsNothing(p)

NextSave == saves < MaxSaves /\ saves' = saves + 1

(* EventsPanel: the form's Save sends the whole draft, edited or not.        *)
SendSave(r, p) ==
  /\ hasDraft[p]
  /\ \E text \in {draft[p].text, saves + 1} :
       /\ IF text = draft[p].text THEN UNCHANGED saves ELSE NextSave
       /\ Send(r, p, [Free EXCEPT !.kind = "save", !.on = draft[p].id,
                                  !.body = [draft[p] EXCEPT !.text = text]])

SendUpload(r, p, f) ==
  /\ hasDraft[p] /\ UNCHANGED saves
  /\ Send(r, p, [Free EXCEPT !.kind = "upload", !.on = draft[p].id,
                             !.body.image = f])

(* EventWizard: create, and then its uploads and its save like the panel's.  *)
SendCreate(r, p, e) ==
  /\ UNCHANGED saves
  /\ Send(r, p, [Free EXCEPT !.kind = "create", !.on = e,
                             !.body = [Blank EXCEPT !.id = e]])

SendDuplicate(r, p, e, f) ==
  /\ e \in Listed /\ UNCHANGED saves
  /\ Send(r, p, [Free EXCEPT !.kind = "duplicate", !.on = f, !.copy = e])

(* The Delete button of the row of the event believed active is disabled.    *)
SendDelete(r, p, e) ==
  /\ e \in Listed \ {believed[p]} /\ UNCHANGED saves
  /\ Send(r, p, [Free EXCEPT !.kind = "delete", !.on = e])

SendActivate(r, p, e) ==
  /\ e \in Listed /\ UNCHANGED saves
  /\ Send(r, p, [Free EXCEPT !.kind = "activate", !.on = e])

(* DeliveryPanel: the form with or without a password, or a key file.        *)
SendDelivery(r, p) ==
  /\ NextSave
  /\ \E empty \in BOOLEAN :
       Send(r, p, [Free EXCEPT !.kind = "delivery", !.blank = empty,
                               !.body.text = saves + 1])

SendKey(r, p) ==
  UNCHANGED saves /\ Send(r, p, [Free EXCEPT !.kind = "key"])

(* The operator selects a row.                                               *)
Select(p, e) ==
  /\ up /\ e \in Listed /\ Opens(p, e)
  /\ UNCHANGED <<events, configFile, process, req, believed, saves, boots>>
-----------------------------------------------------------------------------
(* PUT /events/{id}: the directory must exist.                               *)
SaveBegins(r) ==
  /\ At(r, {"save"}, "begin")
  /\ IF req[r].on \in dirs THEN Goes(r, "open") ELSE Refused(r)
  /\ UNCHANGED <<events, configFile, process, page, hurt, saves, boots>>

(* POST .../upload-image: load the event, remove a file of another name ...  *)
UploadBegins(r) ==
  LET e == req[r].on IN
  /\ At(r, {"upload"}, "begin")
  /\ \/ e \in dirs /\ Loads(e)
        /\ images' = [images EXCEPT ![e] = IF event[e].image = req[r].body.image
                                           THEN @ ELSE @ \ {event[e].image}]
        /\ req' = [req EXCEPT ![r].at = "image",
                              ![r].body = [event[e] EXCEPT !.image = req[r].body.image]]
     \/ ~(e \in dirs /\ Loads(e)) /\ Refused(r) /\ UNCHANGED images
  /\ UNCHANGED <<dirs, yaml, event, configFile, process, page, hurt, saves, boots>>

(* ... and write the new file.                                               *)
UploadWrites(r) ==
  /\ At(r, {"upload"}, "image")
  /\ images' = [images EXCEPT ![req[r].on] = @ \cup {req[r].body.image}]
  /\ Goes(r, "open")
  /\ UNCHANGED <<dirs, yaml, event, configFile, process, page, hurt, saves, boots>>

(* POST /events: the directory is made before its event.yaml.                *)
CreateBegins(r) ==
  /\ At(r, {"create"}, "begin")
  /\ dirs' = dirs \cup {req[r].on}
  /\ IF req[r].on \in dirs THEN Refused(r) ELSE Goes(r, "open")
  /\ UNCHANGED <<yaml, event, images, configFile, process, page, hurt, saves, boots>>

(* POST .../duplicate: copytree, the source's event.yaml included ...        *)
DuplicateBegins(r) ==
  LET old == req[r].copy
      new == req[r].on
  IN
  /\ At(r, {"duplicate"}, "begin")
  /\ \/ /\ old \in dirs /\ new \notin dirs
        /\ dirs' = dirs \cup {new}
        /\ yaml' = [yaml EXCEPT ![new] = yaml[old]]
        /\ event' = [event EXCEPT ![new] = event[old]]
        /\ images' = [images EXCEPT ![new] = images[old]]
        /\ hurt' = IF old \in hurt THEN hurt \cup {new} ELSE hurt
        /\ Goes(r, "load")
     \/ ~(old \in dirs /\ new \notin dirs) /\ Refused(r) /\ UNCHANGED <<events, hurt>>
  /\ UNCHANGED <<configFile, process, page, saves, boots>>

(* ... and then an event.yaml of its own, from the source's loaded again.    *)
DuplicateLoads(r) ==
  /\ At(r, {"duplicate"}, "load")
  /\ IF Loads(req[r].copy)
     THEN req' = [req EXCEPT ![r].at = "open",
                             ![r].body = [event[req[r].copy] EXCEPT !.id = req[r].on]]
     ELSE Refused(r)
  /\ UNCHANGED <<events, configFile, process, page, hurt, saves, boots>>

(* path.write_text(yaml) of all four.                                        *)
YamlTruncated(r) ==
  /\ At(r, EventKinds, "open")
  /\ yaml' = [yaml EXCEPT ![req[r].on] = "truncated"]
  /\ event' = [event EXCEPT ![req[r].on] = Blank]
  /\ Goes(r, "write")
  /\ UNCHANGED <<dirs, images, configFile, process, page, hurt, saves, boots>>

YamlWritten(r) ==
  /\ At(r, EventKinds, "write")
  /\ yaml' = [yaml EXCEPT ![req[r].on] = "whole"]
  /\ event' = [event EXCEPT ![req[r].on] = req[r].body]
  /\ Goes(r, "reply")
  /\ UNCHANGED <<dirs, images, configFile, process, page, hurt, saves, boots>>

(* Mutation: any event can be deleted.                                       *)
DeleteAny(r) ==
  /\ At(r, {"delete"}, "begin")
  /\ IF req[r].on \in dirs THEN Goes(r, "rmtree") ELSE Refused(r)
  /\ UNCHANGED <<events, configFile, process, page, hurt, saves, boots>>

(* DELETE /events/{id}: refused for app.state's active event ...             *)
DeleteBegins(r) ==
  /\ At(r, {"delete"}, "begin")
  /\ IF req[r].on \in dirs /\ req[r].on # active THEN Goes(r, "rmtree") ELSE Refused(r)
  /\ UNCHANGED <<events, configFile, process, page, hurt, saves, boots>>

(* ... and rmtree takes the files, in the order the directory lists them,    *)
(* then the directory.                                                       *)
FilesRemoved(r) ==
  /\ At(r, {"delete"}, "rmtree") /\ Goes(r, "rmdir")
  /\ \/ yaml' = [yaml EXCEPT ![req[r].on] = "missing"] /\ UNCHANGED images
        /\ event' = [event EXCEPT ![req[r].on] = Blank]
     \/ images' = [images EXCEPT ![req[r].on] = {}] /\ UNCHANGED <<yaml, event>>
  /\ UNCHANGED <<dirs, configFile, process, page, hurt, saves, boots>>

DirRemoved(r) ==
  LET e == req[r].on IN
  /\ At(r, {"delete"}, "rmdir") /\ Goes(r, "reply")
  /\ dirs' = dirs \ {e}
  /\ yaml' = [yaml EXCEPT ![e] = "missing"]
  /\ event' = [event EXCEPT ![e] = Blank]
  /\ images' = [images EXCEPT ![e] = {}]
  /\ hurt' = hurt \ {e}
  /\ UNCHANGED <<configFile, process, page, saves, boots>>
-----------------------------------------------------------------------------
(* POST .../activate: the event must load; the process learns of it first.   *)
ActivateBegins(r) ==
  /\ At(r, {"activate"}, "begin")
  /\ \/ Loads(req[r].on) /\ active' = req[r].on /\ Goes(r, "read")
     \/ ~Loads(req[r].on) /\ Refused(r) /\ UNCHANGED active
  /\ UNCHANGED <<events, configFile, up, running, page, hurt, saves, boots>>

(* The delivery panel's: a form that is not valid or a file that is too      *)
(* large changes nothing.                                                    *)
DeliveryBegins(r) ==
  /\ At(r, {"delivery", "key"}, "begin")
  /\ Goes(r, "read") \/ Refused(r)
  /\ UNCHANGED <<events, configFile, process, page, hurt, saves, boots>>

(* Mutation: the settings of the start are written back, not the file's.     *)
SettingsRead(r) ==
  /\ At(r, ConfigKinds, "read")
  /\ req' = [req EXCEPT ![r].at = "truncate", ![r].cfg = running]
  /\ UNCHANGED <<events, configFile, process, page, hurt, saves, boots>>

(* All three read the file, and fail when it is empty, ...                   *)
ConfigRead(r) ==
  /\ At(r, ConfigKinds, "read")
  /\ IF configWhole
     THEN req' = [req EXCEPT ![r].at = "truncate", ![r].cfg = config]
     ELSE Refused(r)
  /\ UNCHANGED <<events, configFile, process, page, hurt, saves, boots>>

(* Mutation: the form's own fields replace the section.                      *)
SectionReplaced(c, q) ==
  CASE q.kind = "activate" -> [c EXCEPT !.active = q.on]
    [] q.kind = "key"      -> [c EXCEPT !.key = TRUE]
    [] q.kind = "delivery" -> [active |-> c.active, target |-> q.body.text]

(* ... change their own part of it, a blank password leaving the saved one,  *)
Changed(c, q) ==
  CASE q.kind = "activate" -> [c EXCEPT !.active = q.on]
    [] q.kind = "key"      -> [c EXCEPT !.key = TRUE]
    [] q.kind = "delivery" -> [c EXCEPT !.target = q.body.text,
                                        !.password = IF q.blank THEN @ ELSE q.body.text]

(* ... and write all of it.                                                  *)
ConfigTruncated(r) ==
  /\ At(r, ConfigKinds, "truncate") /\ Goes(r, "flush")
  /\ configWhole' = FALSE
  /\ UNCHANGED <<events, config, meant, process, page, hurt, saves, boots>>

ConfigWritten(r) ==
  /\ At(r, ConfigKinds, "flush") /\ Goes(r, "reply")
  /\ configWhole' = TRUE
  /\ config' = Changed(req[r].cfg, req[r])
  /\ meant' = Changed(meant, req[r])
  /\ UNCHANGED <<events, process, page, hurt, saves, boots>>
-----------------------------------------------------------------------------
(* loadEvents, after every change: the panel asks for the active event.      *)
Asked(p) == IF Loads(active) THEN event[active].id ELSE believed[p]
Reloaded(p) == believed' = [believed EXCEPT ![p] = Asked(p)]

(* The answer reaches the page: the saved event, or the one with its image,  *)
(* becomes the draft, whatever has been edited meanwhile; a created or       *)
(* copied one is selected; a deleted one is no longer edited.                *)
Answered(r) ==
  LET q == req[r]
      p == q.from
  IN
  /\ up /\ q.at = "reply"
  /\ \/ q.kind \in {"save", "upload"} /\ Reloaded(p) /\ Edits(p, q.on, q.body)
     \/ q.kind \in {"create", "duplicate"} /\ Reloaded(p) /\ Opens(p, q.on)
     \/ q.kind = "delete" /\ Reloaded(p)
        /\ IF hasDraft[p] /\ draft[p].id = q.on
           THEN EditsNothing(p) ELSE UNCHANGED <<draft, hasDraft, hurt>>
     \/ q.kind = "activate" /\ believed' = [believed EXCEPT ![p] = q.on]
        /\ UNCHANGED <<draft, hasDraft, hurt>>
     \/ q.kind \in {"delivery", "key"} /\ UNCHANGED <<page, hurt>>
  /\ Refused(r)
  /\ UNCHANGED <<events, configFile, process, saves, boots>>
-----------------------------------------------------------------------------
(* The process is started: Settings.load, which an empty file ends.          *)
Start ==
  /\ configWhole
  /\ up' = TRUE /\ active' = config.active /\ running' = config

(* POST /actions/restart-app: uvicorn ends the requests, then the process.   *)
Restart ==
  /\ up /\ boots < MaxBoots /\ boots' = boots + 1
  /\ \A r \in Requests : req[r].kind = "none"
  /\ Start
  /\ UNCHANGED <<events, configFile, req, page, hurt, saves>>

(* Power loss: what has been written is there, the rest is not; the pages    *)
(* stay open on the operator's own device.                                   *)
Crash ==
  /\ "crash" \in Faults /\ up /\ boots < MaxBoots /\ boots' = boots + 1
  /\ up' = FALSE
  /\ hurt' = hurt \cup {req[r].on : r \in {s \in Requests :
       req[s].kind \in EventKinds /\ req[s].at # "begin"}}
  /\ req' = [r \in Requests |-> Free]
  /\ UNCHANGED <<events, configFile, active, running, page, saves>>

Boot ==
  /\ ~up /\ Start
  /\ UNCHANGED <<events, configFile, req, page, hurt, saves, boots>>
-----------------------------------------------------------------------------
Handler(r) ==
  \/ SaveBegins(r) \/ UploadBegins(r) \/ UploadWrites(r) \/ CreateBegins(r)
  \/ DuplicateBegins(r) \/ DuplicateLoads(r) \/ YamlTruncated(r) \/ YamlWritten(r)
  \/ DeleteBegins(r) \/ FilesRemoved(r) \/ DirRemoved(r)
  \/ ActivateBegins(r) \/ DeliveryBegins(r)
  \/ ConfigRead(r) \/ ConfigTruncated(r) \/ ConfigWritten(r)
  \/ Answered(r)

Operator(r, p) ==
  \/ SendSave(r, p) \/ \E f \in Formats : SendUpload(r, p, f)
  \/ \E e \in Ids : SendCreate(r, p, e) \/ SendDelete(r, p, e) \/ SendActivate(r, p, e)
  \/ \E e, f \in Ids : SendDuplicate(r, p, e, f)
  \/ SendDelivery(r, p) \/ SendKey(r, p)

Next ==
  \/ \E r \in Requests : Handler(r) \/ \E p \in Pages : Operator(r, p)
  \/ \E p \in Pages, e \in Ids : Select(p, e)
  \/ Restart \/ Crash \/ Boot

Spec == Init /\ [][Next]_vars
-----------------------------------------------------------------------------
Quiet(e) == \A r \in Requests : req[r].kind \in EventKinds => req[r].on # e

(* The attract loop, the gallery and the next start always find the event    *)
(* they serve: the active event is never deleted, not by a page that does    *)
(* not know that it is active, and not across a crash between the process's  *)
(* memory and the config file (admin.py:138-172, 307-309).                   *)
ActiveEventExists ==
  /\ up => active \in dirs /\ yaml[active] # "missing"
  /\ config.active \in dirs

(* A change of one part of the config file never undoes another one, the     *)
(* panels' secrets included, which they cannot see (admin.py:369-404).       *)
ConfigKeepsChanges == configWhole => config = meant

(* A crash hurts no event but the one it interrupted, its copies, and what   *)
(* the operator edits in place of an interrupted copy: every other directory *)
(* holds a whole event.yaml with its own id, and the file it names as its    *)
(* background (admin.py:203-220, 280-300).                                   *)
EventsSound ==
  \A e \in dirs \ hurt :
    Quiet(e) => /\ yaml[e] = "whole" /\ event[e].id = e
                /\ event[e].image \in images[e] \cup {NoImage}

(* The event directories survive the operator and the power.                 *)
EventsKept == ActiveEventExists /\ EventsSound
=============================================================================
