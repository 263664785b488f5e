------------------------------ MODULE Delivery ------------------------------
(* The delivery backends (delivery/backend.py): the upload of one picture,   *)
(* with its retries, beside the operator, who saves a configuration, tests   *)
(* it and restarts the application, in any order.  The queue and its delays  *)
(* are JobQueue's; the server, the network and the disk are external.        *)
EXTENDS Naturals

CONSTANTS
  Configs,     \* what settings.delivery can say: [backend, auth, secret]
  MaxAttempts, \* of storage.queue
  Depth,       \* segments of sftp.remote_path
  MaxSaves,    \* bound: saved configurations
  MaxTrouble   \* bound: connections lost, disks full, power losses

ASSUME DeliveryAssumption ==
  /\ {MaxAttempts, Depth} \subseteq Nat \ {0} /\ {MaxSaves, MaxTrouble} \subseteq Nat
  /\ Configs \subseteq [backend : {"local", "sftp", "s3"}, auth : {"key", "password"},
                        secret : BOOLEAN]

Actors == {"upload", "test"}

VARIABLES
  saved,    \* the delivery section of the config file
  running,  \* settings.delivery, which the worker's backend was built from
  saves,
  accepts,  \* the server's methods of authentication
  locked,   \* the account may not write under remote_path
  dirs,     \* how many segments of remote_path exist
  remote,   \* the picture at each backend
  file,     \* the local file is there
  job, tries,
  at,       \* an actor's place, and its segment in _sftp_makedirs
  asked,    \* the saved configuration that is being tested
  proven,   \* history: configurations that the test answered ok for
  sure,     \* history: the attempt began with such a configuration
  why,      \* history: what the attempt failed for
  trouble

config == <<saved, running, saves>>
server == <<accepts, locked>>
queue == <<job, tries>>
test == <<asked, proven>>
attempt == <<sure, why>>
vars == <<config, server, dirs, remote, file, queue, at, test, attempt, trouble>>

Idle == <<"idle", 0>>
Steps == {"idle", "connect", "login", "interactive", "session", "put", "putting", "confirm",
          "copy", "copying"} \X {0} \cup {"stat", "mkdir"} \X (1 .. Depth)

TypeOK ==
  /\ saved \in Configs /\ running \in Configs /\ saves \in 0 .. MaxSaves
  /\ accepts \subseteq {"key", "password", "interactive"} /\ locked \in BOOLEAN
  /\ dirs \in 0 .. Depth /\ file \in BOOLEAN
  /\ remote \in [{"local", "sftp", "s3"} -> {"none", "part", "whole"}]
  /\ job \in {"pending", "held", "done", "dead", "stranded"} /\ tries \in 0 .. MaxAttempts
  /\ at \in [Actors -> Steps] /\ (at["upload"] # Idle => job = "held")
  /\ asked \in Configs /\ proven \subseteq Configs /\ sure \in BOOLEAN
  /\ why \in {"none", "network", "login", "race", "locked", "file", "copy"}
  /\ trouble \in 0 .. MaxTrouble

Init ==
  /\ saved \in Configs /\ running = saved /\ saves = 0
  /\ accepts \in {{"key"}, {"interactive"}, {"password", "key"}} /\ locked \in BOOLEAN
  /\ dirs = 0 /\ file = TRUE
  /\ remote = [b \in {"local", "sftp", "s3"} |-> "none"]
  /\ job = "pending" /\ tries = 0
  /\ at = [a \in Actors |-> Idle]
  /\ asked = saved /\ proven = {} /\ sure = FALSE /\ why = "none" /\ trouble = 0

(* Mutation: the test connects with the running settings.                    *)
UsesSettings(a) == running

(* The worker uploads with the running settings; the operator tests what is  *)
(* on disk.                                                                  *)
Uses(a) == IF a = "upload" THEN running ELSE asked

Goes(a, from, to) == at[a] = from /\ at' = [at EXCEPT ![a] = to]
Troubled == trouble < MaxTrouble /\ trouble' = trouble + 1
-----------------------------------------------------------------------------
(* run_worker claims the job and DeliveryWorker._handle calls the backend.   *)
Claim ==
  /\ job = "pending" /\ job' = "held"
  /\ Goes("upload", Idle,
          IF running.backend = "sftp" THEN <<"connect", 0>> ELSE <<"copy", 0>>)
  /\ sure' = (running \in proven) /\ why' = "none"
  /\ UNCHANGED <<config, server, dirs, remote, file, tries, test, trouble>>

(* POST /admin/actions/test-delivery: nothing to connect to for "local", no  *)
(* test for "s3".                                                            *)
AskTest ==
  /\ at["test"] = Idle /\ asked' = saved
  /\ at' = [at EXCEPT !["test"] = IF saved.backend = "sftp" THEN <<"connect", 0>> ELSE Idle]
  /\ proven' = IF saved.backend = "local" THEN proven \cup {saved} ELSE proven
  /\ UNCHANGED <<config, server, dirs, remote, file, queue, attempt, trouble>>

(* Mutation: one attempt too many.                                           *)
AfterFailureLate == IF tries < MaxAttempts THEN "pending" ELSE "dead"

(* Mutation: the failure is not reported to the queue.                       *)
AfterFailureKept == job

AfterFailure == IF tries + 1 < MaxAttempts THEN "pending" ELSE "dead"

(* An exception: the transport is closed on the way out, and the job is      *)
(* tried again or dead; the operator reads the error.                        *)
Fails(a, reason) ==
  /\ at' = [at EXCEPT ![a] = Idle]
  /\ IF a = "upload"
     THEN /\ tries' = tries + 1 /\ why' = reason
          /\ job' = AfterFailure
     ELSE UNCHANGED <<queue, why>>
  /\ UNCHANGED <<config, server, file, test, sure>>

(* paramiko raises wherever it is when the network drops.                    *)
NetworkDrops(a) ==
  /\ at[a] \notin {Idle, <<"copy", 0>>, <<"copying", 0>>}
  /\ Troubled /\ Fails(a, "network") /\ UNCHANGED <<dirs, remote>>
-----------------------------------------------------------------------------
Connect(a) ==
  /\ Goes(a, <<"connect", 0>>, <<"login", 0>>)
  /\ UNCHANGED <<config, server, dirs, remote, file, queue, test, attempt, trouble>>

(* _authenticate: the server takes the method and the secret.                *)
Granted(a, method) == method \in accepts /\ Uses(a).secret

Login(a) ==
  /\ \/ Granted(a, Uses(a).auth) /\ Goes(a, <<"login", 0>>, <<"session", 0>>)
     \/ /\ ~Granted(a, Uses(a).auth) /\ Uses(a).auth = "password"
        /\ Goes(a, <<"login", 0>>, <<"interactive", 0>>)
     \/ Granted(a, "interactive") /\ Goes(a, <<"interactive", 0>>, <<"session", 0>>)
  /\ UNCHANGED <<config, server, dirs, remote, file, queue, test, attempt, trouble>>

LoginFails(a) ==
  /\ \/ at[a] = <<"login", 0>> /\ Uses(a).auth = "key" /\ ~Granted(a, "key")
     \/ at[a] = <<"interactive", 0>> /\ ~Granted(a, "interactive")
  /\ Fails(a, "login") /\ UNCHANGED <<dirs, remote, trouble>>

OpenSftp(a) ==
  /\ Goes(a, <<"session", 0>>, <<"stat", 1>>)
  /\ UNCHANGED <<config, server, dirs, remote, file, queue, test, attempt, trouble>>

(* The test ends after _sftp_makedirs; the upload goes on to put.            *)
AfterSegment(a, k) ==
  IF k < Depth THEN <<"stat", k + 1>>
  ELSE IF a = "upload" THEN <<"put", 0>> ELSE Idle

(* _sftp_makedirs: stat, then mkdir where there is nothing.                  *)
Enters(a, k) ==
  /\ at' = [at EXCEPT ![a] = AfterSegment(a, k)]
  /\ proven' = IF AfterSegment(a, k) = Idle THEN proven \cup {asked} ELSE proven
  /\ UNCHANGED <<config, server, remote, file, queue, asked, attempt, trouble>>

Stat(a, k) ==
  /\ at[a] = <<"stat", k>> /\ k <= dirs
  /\ Enters(a, k) /\ UNCHANGED dirs

StatFails(a, k) ==
  /\ k > dirs /\ Goes(a, <<"stat", k>>, <<"mkdir", k>>)
  /\ UNCHANGED <<config, server, dirs, remote, file, queue, test, attempt, trouble>>

Mkdir(a, k) ==
  /\ at[a] = <<"mkdir", k>> /\ k > dirs /\ ~locked
  /\ dirs' = k /\ Enters(a, k)

MkdirFails(a, k) ==
  /\ at[a] = <<"mkdir", k>> /\ (k <= dirs \/ locked)
  /\ Fails(a, IF locked THEN "locked" ELSE "race") /\ UNCHANGED <<dirs, remote, trouble>>
-----------------------------------------------------------------------------
Holds(content) == remote' = [remote EXCEPT ![running.backend] = content]

UploadDone ==
  /\ at' = [at EXCEPT !["upload"] = Idle] /\ job' = "done"
  /\ UNCHANGED <<config, server, dirs, file, tries, test, attempt, trouble>>

(* SFTPClient.put opens the local file, then truncates the remote one, sends *)
(* the bytes, and asks for the size.  shutil.copy2 goes the same way.        *)
Truncate ==
  /\ file
  /\ \/ ~locked /\ Goes("upload", <<"put", 0>>, <<"putting", 0>>)
     \/ running.backend = "local" /\ Goes("upload", <<"copy", 0>>, <<"copying", 0>>)
  /\ Holds("part")
  /\ UNCHANGED <<config, server, dirs, file, queue, test, attempt, trouble>>

PutFails ==
  /\ at["upload"][1] \in {"put", "copy"}
  /\ \/ ~file /\ Fails("upload", "file")
     \/ file /\ locked /\ at["upload"][1] = "put" /\ Fails("upload", "locked")
  /\ UNCHANGED <<dirs, remote, trouble>>

Sent ==
  /\ Goes("upload", <<"putting", 0>>, <<"confirm", 0>>) /\ Holds("whole")
  /\ UNCHANGED <<config, server, dirs, file, queue, test, attempt, trouble>>

(* Mutation: the answer to the last write is taken for the end, unread.      *)
Unconfirmed == at["upload"] \in {<<"putting", 0>>, <<"confirm", 0>>} /\ UploadDone /\ UNCHANGED remote

Confirmed == at["upload"] = <<"confirm", 0>> /\ UploadDone /\ UNCHANGED remote

Copied == at["upload"] = <<"copying", 0>> /\ UploadDone /\ Holds("whole")

(* upload_file makes an object of the whole file or none.                    *)
Uploaded ==
  /\ at["upload"] = <<"copy", 0>> /\ running.backend = "s3" /\ file
  /\ UploadDone /\ Holds("whole")

(* A full disk ends a copy, a network that is down the upload to S3.         *)
CopyFails ==
  /\ \/ at["upload"] = <<"copying", 0>>
     \/ at["upload"] = <<"copy", 0>> /\ running.backend = "s3"
  /\ Troubled /\ Fails("upload", "copy") /\ UNCHANGED <<dirs, remote>>
-----------------------------------------------------------------------------
(* PUT /admin/delivery writes the file; settings.delivery stays.             *)
Save ==
  /\ saves < MaxSaves /\ saves' = saves + 1
  /\ \E c \in Configs \ {saved} : saved' = c
  /\ UNCHANGED <<running, server, dirs, remote, file, queue, at, test, attempt, trouble>>

(* Restart App: requests are answered and lifespan waits for the worker,     *)
(* then the file is read.                                                    *)
Restart ==
  /\ \A a \in Actors : at[a] = Idle
  /\ running # saved /\ running' = saved
  /\ UNCHANGED <<saved, saves, server, dirs, remote, file, queue, at, test, attempt, trouble>>

PowerLoss ==
  /\ Troubled
  /\ at' = [a \in Actors |-> Idle] /\ running' = saved
  /\ job' = IF job = "held" THEN "stranded" ELSE job
  /\ UNCHANGED <<saved, saves, server, dirs, remote, file, tries, test, attempt>>

(* The retention sweep or the operator deletes the picture.                  *)
FileDeleted ==
  /\ file /\ file' = FALSE
  /\ UNCHANGED <<config, server, dirs, remote, queue, at, test, attempt, trouble>>
-----------------------------------------------------------------------------
Connecting(a) ==
  \/ Connect(a) \/ Login(a) \/ LoginFails(a) \/ OpenSftp(a) \/ NetworkDrops(a)
  \/ \E k \in 1 .. Depth : Stat(a, k) \/ StatFails(a, k) \/ Mkdir(a, k) \/ MkdirFails(a, k)

Uploading ==
  Claim \/ Truncate \/ PutFails \/ Sent \/ Confirmed \/ Copied \/ Uploaded \/ CopyFails

Next ==
  \/ \E a \in Actors : Connecting(a)
  \/ Uploading \/ AskTest \/ Save \/ Restart \/ PowerLoss \/ FileDeleted

Spec == Init /\ [][Next]_vars

(* Threads go on; an attempt that failed is made again after its delay.      *)
FairSpec == Spec /\ WF_vars(Connecting("upload") \/ Uploading)
-----------------------------------------------------------------------------
(* A job that is done has its picture whole at a backend, whatever was lost, *)
(* retried, deleted or configured anew on the way: a guest's QR code leads   *)
(* to that file (backend.py:106-119, worker.py:92-105).                      *)
DoneIsWhole == job = "done" => \E b \in DOMAIN remote : remote[b] = "whole"

(* "Testing exactly what's saved" stands for the uploads after the restart:  *)
(* an attempt with a configuration that was tested fails neither at the      *)
(* login nor at making directories, but for what no test can promise, a      *)
(* network or a disk, a file that is gone, or a directory that exists and    *)
(* may not be written to (admin.py:440-464, backend.py:191-235).             *)
TestPredictsUpload == sure => why \in {"none", "network", "copy", "file", "locked"}

(* A truncated picture does not stay at a backend: it is sent again, unless  *)
(* its job is dead or was stranded, or the backend is no longer used         *)
(* (backend.py:83-90, 106-119).                                              *)
PartIsMended ==
  \A b \in {"local", "sftp"} :
    (remote[b] = "part") ~> (remote[b] = "whole" \/ job \in {"dead", "stranded"}
                             \/ running.backend # b)
=============================================================================
