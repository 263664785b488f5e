------------------------------ MODULE JobQueue ------------------------------
(* The jobs table (storage/queue.py), its two users, the upload worker       *)
(* (delivery/worker.py) and the print queue (printing/queue.py), and their   *)
(* start and stop in web/app.py's lifespan.  The table is on disk and        *)
(* survives the process; what a worker holds does not.                       *)
EXTENDS Integers, FiniteSets

CONSTANTS
  MaxJobs,      \* bound: jobs are numbered in the order of created_at
  Workers,      \* the run_worker loops
  Serves,       \* the kind each of them claims
  Sessions,     \* sessions that print
  MaxAttempts,  \* enqueue()'s max_attempts
  MaxBackoff,   \* MAX_BACKOFF_S in units of fail()'s backoff_base_s
  PrintLimit,   \* print_limit_per_session
  Threads,      \* TRUE: the workers are threads, not coroutines of one loop
  Faults,       \* the kinds of failure that happen
  MaxBoots      \* bound: stops and crashes of the process

Kinds == {"upload", "print"}
FaultKinds == {"outage", "error", "ambiguous", "storage", "crash"}

ASSUME QueueAssumption ==
  /\ MaxJobs \in Nat
  /\ Serves \in [Workers -> Kinds]
  /\ MaxAttempts \in Nat \ {0}
  /\ MaxBackoff \in Nat
  /\ PrintLimit \in Nat
  /\ Threads \in BOOLEAN
  /\ Faults \subseteq FaultKinds
  /\ MaxBoots \in Nat

JobIds == 1 .. MaxJobs
NoJob == 0
NoSession == "no session"

VARIABLES
  \* the jobs table
  created,     \* rows so far
  kind, status, attempts,
  due,         \* next_attempt_at - now, in units of backoff_base_s
  session,     \* the session_id in a print job's payload
  \* the workers
  phase, cand, job,
  \* the world
  online,      \* the upload target, the printer can be reached
  effects,     \* history: copies uploaded, sheets printed for a job
  \* the process
  mode, boots,
  stranded     \* history: jobs claimed by a worker that is gone

table   == <<created, kind, status, attempts, due, session>>
workers == <<phase, cand, job>>
process == <<mode, boots, stranded>>
vars    == <<table, workers, online, effects, process>>

TypeOK ==
  /\ created \in 0 .. MaxJobs
  /\ kind \in [JobIds -> Kinds \cup {"none"}]
  /\ status \in [JobIds -> {"none", "pending", "claimed", "done", "dead"}]
  /\ attempts \in [JobIds -> Nat]
  /\ due \in [JobIds -> Int]
  /\ session \in [JobIds -> Sessions \cup {NoSession}]
  /\ phase \in [Workers -> {"ready", "claiming", "busy", "delivered", "stopped", "died"}]
  /\ cand \in [Workers -> SUBSET JobIds]
  /\ job \in [Workers -> JobIds \cup {NoJob}]
  /\ online \in [Kinds -> BOOLEAN]
  /\ effects \in [JobIds -> Nat]
  /\ mode \in {"up", "stopping print", "stopping upload", "down"}
  /\ boots \in Nat
  /\ stranded \subseteq JobIds

Init ==
  /\ created = 0
  /\ kind = [j \in JobIds |-> "none"]
  /\ status = [j \in JobIds |-> "none"]
  /\ attempts = [j \in JobIds |-> 0]
  /\ due = [j \in JobIds |-> 0]
  /\ session = [j \in JobIds |-> NoSession]
  /\ phase = [w \in Workers |-> "ready"]
  /\ cand = [w \in Workers |-> {}]
  /\ job = [w \in Workers |-> NoJob]
  /\ online = [k \in Kinds |-> TRUE]
  /\ effects = [j \in JobIds |-> 0]
  /\ mode = "up" /\ boots = 0
  /\ stranded = {}
-----------------------------------------------------------------------------
(* enqueue(): a pending row, due at once.                                    *)
Enqueue(k, s) ==
  /\ mode = "up" /\ created < MaxJobs
  /\ created' = created + 1
  /\ kind' = [kind EXCEPT ![created + 1] = k]
  /\ status' = [status EXCEPT ![created + 1] = "pending"]
  /\ session' = [session EXCEPT ![created + 1] = s]
  /\ UNCHANGED <<attempts, due, workers, online, effects, process>>

(* Mutation: uploads are enqueued under a kind that no worker claims.        *)
EnqueueMisnamed == Enqueue("uploads", NoSession)

(* enqueue_upload(), called when a session is published.                     *)
EnqueueUpload == Enqueue("upload", NoSession)

PrintsOf(s) == {j \in JobIds : kind[j] = "print" /\ session[j] = s}

(* Mutation: the limit is off by one.                                        *)
SubmitOneMore(s) ==
  /\ Cardinality(PrintsOf(s)) <= PrintLimit
  /\ Enqueue("print", s)

(* PrintQueue.submit: every print job of the session counts, whatever became *)
(* of it; the count and the INSERT are one step of the event loop.           *)
SubmitPrint(s) ==
  /\ Cardinality(PrintsOf(s)) < PrintLimit
  /\ Enqueue("print", s)
-----------------------------------------------------------------------------
(* Mutation: nobody sets print_stop_event.                                   *)
UploadsStopOnly(w) == mode = "stopping upload"

(* aclose() and print_stop_event: who has been told to stop.                 *)
StopSet(w) ==
  \/ mode = "stopping upload"
  \/ mode = "stopping print" /\ Serves[w] = "print"

(* The rows claim()'s WHERE clause selects for a kind.                       *)
Eligible(k) == {j \in JobIds : status[j] = "pending" /\ due[j] <= 0 /\ kind[j] = k}

(* claim()'s SELECT.  With no eligible job the worker sleeps and polls again. *)
ClaimSelect(w) ==
  /\ phase[w] = "ready" /\ mode # "down" /\ ~StopSet(w)
  /\ Eligible(Serves[w]) # {}
  /\ cand' = [cand EXCEPT ![w] = Eligible(Serves[w])]
  /\ phase' = [phase EXCEPT ![w] = "claiming"]
  /\ UNCHANGED <<table, job, online, effects, process>>

(* The candidates are tried in the order of created_at.                      *)
NextCandidate(w, j) ==
  phase[w] = "claiming" /\ j \in cand[w] /\ \A i \in cand[w] : j <= i

(* Mutation: the UPDATE does not ask whether the row is still pending.       *)
ClaimUnchecked(w, j) ==
  /\ NextCandidate(w, j)
  /\ status' = [status EXCEPT ![j] = "claimed"]
  /\ job' = [job EXCEPT ![w] = j]
  /\ cand' = [cand EXCEPT ![w] = {}]
  /\ phase' = [phase EXCEPT ![w] = "busy"]
  /\ UNCHANGED <<created, kind, attempts, due, session, online, effects, process>>

(* claim()'s conditional UPDATE of a candidate: it wins the row ...          *)
ClaimWon(w, j) ==
  /\ NextCandidate(w, j)
  /\ status[j] = "pending"
  /\ status' = [status EXCEPT ![j] = "claimed"]
  /\ job' = [job EXCEPT ![w] = j]
  /\ cand' = [cand EXCEPT ![w] = {}]
  /\ phase' = [phase EXCEPT ![w] = "busy"]
  /\ UNCHANGED <<created, kind, attempts, due, session, online, effects, process>>

(* ... or someone else has; the next candidate, or None and back to polling. *)
ClaimLost(w, j) ==
  /\ NextCandidate(w, j)
  /\ status[j] # "pending"
  /\ cand' = [cand EXCEPT ![w] = @ \ {j}]
  /\ phase' = [phase EXCEPT ![w] = IF cand[w] = {j} THEN "ready" ELSE "claiming"]
  /\ UNCHANGED <<table, job, online, effects, process>>
-----------------------------------------------------------------------------
(* The handler's effect in the world: the file is at the target, the sheet   *)
(* is in the printer.                                                        *)
Deliver(w) ==
  /\ phase[w] = "busy" /\ online[Serves[w]]
  /\ effects' = [effects EXCEPT ![job[w]] = @ + 1]
  /\ phase' = [phase EXCEPT ![w] = "delivered"]
  /\ UNCHANGED <<table, cand, job, online, process>>

(* Between claim() and complete() or fail() the worker has a job in hand.    *)
Holding(w) == phase[w] \in {"busy", "delivered"}

(* The worker lets go of its job and polls again.                            *)
Release(w, next) ==
  /\ phase' = [phase EXCEPT ![w] = next]
  /\ job' = [job EXCEPT ![w] = NoJob]
  /\ UNCHANGED cand

(* complete(): the handler returned.                                         *)
Complete(w) ==
  /\ phase[w] = "delivered"
  /\ status' = [status EXCEPT ![job[w]] = "done"]
  /\ Release(w, "ready")
  /\ UNCHANGED <<created, kind, attempts, due, session, online, effects, process>>

Delay(n) == IF 2 ^ (n - 1) < MaxBackoff THEN 2 ^ (n - 1) ELSE MaxBackoff

(* The handler raises: before its effect, because the target is out of reach *)
(* or refuses, or after it, when the answer got lost.                        *)
HandlerRaises(w) ==
  \/ phase[w] = "busy" /\ (~online[Serves[w]] \/ "error" \in Faults)
  \/ phase[w] = "delivered" /\ "ambiguous" \in Faults

(* Mutation: one attempt too many.                                           *)
FailOneMore(w) ==
  /\ HandlerRaises(w)
  /\ LET j == job[w]
         n == attempts[j] + 1 IN
       /\ attempts' = [attempts EXCEPT ![j] = n]
       /\ \/ /\ n > MaxAttempts
             /\ status' = [status EXCEPT ![j] = "dead"]
             /\ UNCHANGED due
          \/ /\ n <= MaxAttempts
             /\ status' = [status EXCEPT ![j] = "pending"]
             /\ due' = [due EXCEPT ![j] = Delay(n)]
  /\ Release(w, "ready")
  /\ UNCHANGED <<created, kind, session, online, effects, process>>

(* fail(): dead letter at the limit, otherwise pending with backoff.         *)
Fail(w) ==
  /\ HandlerRaises(w)
  /\ LET j == job[w]
         n == attempts[j] + 1 IN
       /\ attempts' = [attempts EXCEPT ![j] = n]
       /\ \/ /\ n >= MaxAttempts
             /\ status' = [status EXCEPT ![j] = "dead"]
             /\ UNCHANGED due
          \/ /\ n < MaxAttempts
             /\ status' = [status EXCEPT ![j] = "pending"]
             /\ due' = [due EXCEPT ![j] = Delay(n)]
  /\ Release(w, "ready")
  /\ UNCHANGED <<created, kind, session, online, effects, process>>

(* complete() or fail() raises (disk full): nothing in run_worker catches    *)
(* it, the task ends and nobody starts another one.                          *)
WorkerDies(w) ==
  /\ "storage" \in Faults
  /\ phase[w] = "delivered" \/ HandlerRaises(w)
  /\ stranded' = stranded \cup {job[w]}
  /\ Release(w, "died")
  /\ UNCHANGED <<table, online, effects, mode, boots>>
-----------------------------------------------------------------------------
Tick ==
  /\ \E j \in JobIds : due[j] > 0
  /\ due' = [j \in JobIds |-> IF due[j] > 0 THEN due[j] - 1 ELSE due[j]]
  /\ UNCHANGED <<created, kind, status, attempts, session, workers, online,
                 effects, process>>

GoDown(k) ==
  /\ "outage" \in Faults /\ online[k]
  /\ online' = [online EXCEPT ![k] = FALSE]
  /\ UNCHANGED <<table, workers, effects, process>>

ComeBack(k) ==
  /\ ~online[k]
  /\ online' = [online EXCEPT ![k] = TRUE]
  /\ UNCHANGED <<table, workers, effects, process>>
-----------------------------------------------------------------------------
(* lifespan's shutdown: stop the print worker and wait for it, then the      *)
(* upload worker; each finishes the job it holds.                            *)
BeginStop ==
  /\ mode = "up" /\ boots < MaxBoots
  /\ mode' = "stopping print"
  /\ UNCHANGED <<table, workers, online, effects, boots, stranded>>

(* Mutation: aclose() cancels the task instead of letting it finish its job. *)
WorkerCancelled(w) ==
  /\ phase[w] \in {"ready", "busy"} /\ StopSet(w)
  /\ Release(w, "stopped")
  /\ UNCHANGED <<table, online, effects, process>>

(* run_worker's while condition, tested between jobs only.                   *)
WorkerStops(w) ==
  /\ phase[w] = "ready" /\ StopSet(w)
  /\ phase' = [phase EXCEPT ![w] = "stopped"]
  /\ UNCHANGED <<table, cand, job, online, effects, process>>

AllStopped(k) == \A w \in Workers : Serves[w] = k => phase[w] = "stopped"

PrintStopped ==
  /\ mode = "stopping print" /\ AllStopped("print")
  /\ mode' = "stopping upload"
  /\ UNCHANGED <<table, workers, online, effects, boots, stranded>>

UploadStopped ==
  /\ mode = "stopping upload" /\ AllStopped("upload")
  /\ mode' = "down"
  /\ UNCHANGED <<table, workers, online, effects, boots, stranded>>

(* The process ends as it stands: what the workers hold is lost.             *)
ProcessEnds ==
  /\ mode' = "down"
  /\ stranded' = stranded \cup {job[w] : w \in {v \in Workers : Holding(v)}}
  /\ phase' = [w \in Workers |-> "stopped"]
  /\ cand' = [w \in Workers |-> {}]
  /\ job' = [w \in Workers |-> NoJob]
  /\ UNCHANGED <<table, online, effects, boots>>

(* Power loss, SIGKILL, or systemd's stop timeout.                           *)
Crash ==
  /\ "crash" \in Faults /\ mode # "down" /\ boots < MaxBoots
  /\ ProcessEnds

(* Waiting for a worker task that died raises its exception: the rest of the *)
(* shutdown is skipped, and the upload worker is not waited for.             *)
StopFails ==
  /\ \E w \in Workers :
       /\ phase[w] = "died"
       /\ \/ mode = "stopping print" /\ Serves[w] = "print"
          \/ mode = "stopping upload" /\ Serves[w] = "upload"
  /\ ProcessEnds

(* Mutation: the start gives dead letters another chance.                    *)
BootRevives ==
  /\ mode = "down"
  /\ mode' = "up" /\ boots' = boots + 1
  /\ phase' = [w \in Workers |-> "ready"]
  /\ status' = [j \in JobIds |-> IF status[j] = "dead" THEN "pending" ELSE status[j]]
  /\ UNCHANGED <<created, kind, attempts, due, session, cand, job, online, effects,
                 stranded>>

(* Mutation: the start forgets the workers.                                  *)
BootIdle ==
  /\ mode = "down"
  /\ mode' = "up" /\ boots' = boots + 1
  /\ UNCHANGED <<table, workers, online, effects, stranded>>

(* systemd restarts the service; lifespan starts the workers and reads       *)
(* nothing back from the table.                                              *)
Boot ==
  /\ mode = "down"
  /\ mode' = "up" /\ boots' = boots + 1
  /\ phase' = [w \in Workers |-> "ready"]
  /\ UNCHANGED <<table, cand, job, online, effects, stranded>>
-----------------------------------------------------------------------------
(* In one event loop nothing runs between the statements of claim().         *)
Undisturbed == Threads \/ \A w \in Workers : phase[w] # "claiming"

ClaimStep(w) == \E j \in JobIds : ClaimWon(w, j) \/ ClaimLost(w, j)

WorkStep(w) ==
  \/ ClaimSelect(w)
  \/ Deliver(w) \/ Complete(w) \/ Fail(w) \/ WorkerDies(w) \/ WorkerStops(w)

WorkerStep(w) == ClaimStep(w) \/ (Undisturbed /\ WorkStep(w))

Client == EnqueueUpload \/ \E s \in Sessions : SubmitPrint(s)
World  == \E k \in Kinds : GoDown(k) \/ ComeBack(k)
Killed == Crash \/ (Undisturbed /\ StopFails)

Next ==
  \/ \E w \in Workers : WorkerStep(w)
  \/ Undisturbed /\ (Client \/ BeginStop \/ PrintStopped \/ UploadStopped)
  \/ Tick \/ World
  \/ Killed \/ Boot

Spec == Init /\ [][Next]_vars

(* The event loop runs every worker that can go on, handlers end, time       *)
(* passes, a stop goes through and systemd (Restart=always) boots again.     *)
Fairness ==
  /\ \A w \in Workers : WF_vars(WorkerStep(w))
  /\ WF_vars(Tick)
  /\ WF_vars(Undisturbed /\ (PrintStopped \/ UploadStopped \/ StopFails))
  /\ WF_vars(Boot)

FairSpec == Spec /\ Fairness
-----------------------------------------------------------------------------
(* Two claims never return the same job, and a job in hand is marked so in   *)
(* the table and is of the worker's kind (queue.py:15-19, 62-76).            *)
ClaimedByOne ==
  /\ \A w \in Workers : Holding(w) =>
       job[w] \in JobIds /\ status[job[w]] = "claimed" /\ kind[job[w]] = Serves[w]
  /\ \A w, v \in Workers : Holding(w) /\ Holding(v) /\ w # v => job[w] # job[v]

(* A row is 'claimed' only while a worker has the job in hand, or because a  *)
(* worker that had it is gone: no other path leaves a job stranded.          *)
ClaimedIsHeldOrStranded ==
  \A j \in JobIds : status[j] = "claimed" =>
    j \in stranded \/ \E w \in Workers : Holding(w) /\ job[w] = j

(* 'done' is written only for what really arrived, even when a worker is     *)
(* killed between the effect and complete() (queue.py:201-207).              *)
DoneWasDelivered == \A j \in JobIds : status[j] = "done" => effects[j] > 0

(* A second copy or sheet of one job needs a recorded failure in between:    *)
(* crashes and restarts alone never deliver anything twice.                  *)
OneCopyPerAttempt == \A j \in JobIds : effects[j] <= attempts[j] + 1

(* A job is dead-lettered exactly when all its attempts are used up          *)
(* (queue.py:136-148).                                                       *)
DeadIffSpent == \A j \in JobIds : status[j] = "dead" <=> attempts[j] >= MaxAttempts

(* A session never has more print jobs than its limit, dead ones included,   *)
(* across restarts and whatever the printer does (printing/queue.py:11-19).  *)
PrintLimitHolds == \A s \in Sessions : Cardinality(PrintsOf(s)) <= PrintLimit

(* The two verdicts are earned: done by a delivery, dead by as many failures *)
(* as there are attempts.                                                    *)
VerdictsJustified == DoneWasDelivered /\ DeadIffSpent

(* The two ways to too much paper: a job that is printed again without a     *)
(* failure on record, and a session with more jobs than its limit.           *)
CopiesBounded == OneCopyPerAttempt /\ PrintLimitHolds

(* claim() returns eligible jobs only: a failed job's backoff is over when   *)
(* it is tried again (queue.py:63, 131-134).                                 *)
NoEarlyClaim ==
  [][\A j \in JobIds : status[j] = "pending" /\ status'[j] = "claimed" => due[j] <= 0]_vars

(* Nothing touches a job that is done or dead: no late complete() or fail(), *)
(* no new claim after a restart, no further copy.                            *)
SettledIsFinal ==
  [][\A j \in JobIds : status[j] \in {"done", "dead"} =>
       status'[j] = status[j] /\ attempts'[j] = attempts[j] /\ effects'[j] = effects[j]]_vars

(* The table implements the promise: pending and claimed are both "queued".  *)
Fate == [j \in JobIds |-> IF status[j] = "none" THEN "absent"
                          ELSE IF status[j] \in {"pending", "claimed"} THEN "queued"
                          ELSE status[j]]

Durable == INSTANCE DurableQueue WITH Jobs <- JobIds, fate <- Fate, tries <- attempts

ImplementsDurableQueue == Durable!Spec

(* Short of a crash with the job in hand, and as long as its worker lives,   *)
(* every job is tried until it is done or, after its last attempt, kept as a *)
(* dead letter, through outages, stops and restarts (queue.py:119-130).      *)
JobsSettle ==
  \A j \in JobIds :
    status[j] = "pending" ~>
      \/ status[j] \in {"done", "dead"}
      \/ j \in stranded
      \/ \E w \in Workers : phase[w] = "died" /\ Serves[w] = kind[j]

(* A crash or power loss loses no pending work (db.py:3-5).                  *)
EveryJobSettles ==
  \A j \in JobIds : status[j] = "pending" ~> status[j] \in {"done", "dead"}

(* A graceful stop always gets through, whatever the workers are doing.      *)
StopEnds == mode \in {"stopping print", "stopping upload"} ~> mode = "down"
=============================================================================
