--------------------------- MODULE JobQueueProofs ---------------------------
(* Proofs about the job queue, for any number of jobs, workers and sessions, *)
(* any limits, coroutines or threads, and any failures and restarts.         *)
EXTENDS JobQueue, FiniteSetTheorems, TLAPS

(* A worker has a job exactly while it handles it.                           *)
HandOK == \A w \in Workers : Holding(w) <=> job[w] # NoJob

(* The candidates of a worker are of its kind.                               *)
CandidatesOK == \A w \in Workers : \A j \in cand[w] : kind[j] = Serves[w]

(* Whoever is told that workers stopped finds them stopped.                  *)
StopOK ==
  /\ mode = "stopping upload" => AllStopped("print")
  /\ mode = "down" => \A w \in Workers : phase[w] = "stopped"

(* Rows beyond created do not exist yet.                                     *)
RowsOK ==
  \A j \in JobIds : /\ status[j] = "none" <=> j > created
                    /\ kind[j] = "none" <=> j > created

(* What was delivered is covered by the attempts, with one to spare only     *)
(* once a delivery is in progress, complete or abandoned.                    *)
CoveredOK ==
  /\ \A j \in JobIds : status[j] \in {"none", "pending"} => effects[j] <= attempts[j]
  /\ \A w \in Workers : /\ phase[w] = "busy" => effects[job[w]] <= attempts[job[w]]
                        /\ phase[w] = "delivered" => effects[job[w]] > 0
-----------------------------------------------------------------------------
(* Backoff is a number.                                                      *)
LEMMA DelayType == ASSUME QueueAssumption, NEW n \in Nat \ {0} PROVE Delay(n) \in Int
  BY DEF QueueAssumption, Delay

(* A worker that handles a job has one.                                      *)
LEMMA HeldJob ==
  ASSUME TypeOK, HandOK, NEW w \in Workers, Holding(w)
  PROVE  job[w] \in JobIds
  BY DEF TypeOK, HandOK

(* Every step keeps the variables typed.                                     *)
LEMMA TypeStep ==
  ASSUME QueueAssumption, TypeOK, HandOK, [Next]_vars
  PROVE  TypeOK'
<1>1. ASSUME NEW k \in Kinds, NEW s \in Sessions \cup {NoSession}, Enqueue(k, s)
      PROVE  TypeOK'
  <2>1. created' \in 0 .. MaxJobs /\ created + 1 \in JobIds
    BY <1>1 DEF TypeOK, Enqueue, JobIds, QueueAssumption
  <2>2. /\ kind' \in [JobIds -> Kinds \cup {"none"}]
        /\ status' \in [JobIds -> {"none", "pending", "claimed", "done", "dead"}]
        /\ session' \in [JobIds -> Sessions \cup {NoSession}]
    BY <1>1, <2>1 DEF TypeOK, Enqueue
  <2> QED
    BY <1>1, <2>1, <2>2 DEF TypeOK, Enqueue, workers, process
<1>2. ASSUME NEW w \in Workers, NEW j \in JobIds, ClaimWon(w, j)
      PROVE  TypeOK'
  BY <1>2 DEF TypeOK, ClaimWon, process
<1>3. ASSUME NEW w \in Workers, NEW j \in JobIds, ClaimLost(w, j)
      PROVE  TypeOK'
  BY <1>3 DEF TypeOK, ClaimLost, table, process
<1>4. ASSUME NEW w \in Workers, ClaimSelect(w)
      PROVE  TypeOK'
  BY <1>4 DEF TypeOK, ClaimSelect, Eligible, table, process
<1>5. ASSUME NEW w \in Workers, Deliver(w)
      PROVE  TypeOK'
  <2>1. job[w] \in JobIds
    BY <1>5, HeldJob DEF Holding, Deliver
  <2>2. effects[job[w]] + 1 \in Nat
    <3>1. effects[job[w]] \in Nat
      BY <2>1 DEF TypeOK
    <3> QED BY <3>1
  <2>3. effects' \in [JobIds -> Nat]
    BY <1>5, <2>2 DEF TypeOK, Deliver
  <2> QED
    BY <1>5, <2>3 DEF TypeOK, Deliver, table, process
<1>6. ASSUME NEW w \in Workers, Complete(w)
      PROVE  TypeOK'
  BY <1>6 DEF TypeOK, Complete, Release, NoJob, process
<1>7. ASSUME NEW w \in Workers, Fail(w)
      PROVE  TypeOK'
  <2>1. job[w] \in JobIds
    BY <1>7, HeldJob DEF Holding, Fail, HandlerRaises
  <2> DEFINE n == attempts[job[w]] + 1
  <2>2. n \in Nat \ {0}
    <3>1. attempts[job[w]] \in Nat
      BY <2>1 DEF TypeOK
    <3> QED BY <3>1
  <2>3. Delay(n) \in Int
    BY <2>2, DelayType
  <2>4. attempts' \in [JobIds -> Nat]
    BY <1>7, <2>2 DEF TypeOK, Fail
  <2>5. due' \in [JobIds -> Int]
    BY <1>7, <2>3 DEF TypeOK, Fail
  <2>6. status' \in [JobIds -> {"none", "pending", "claimed", "done", "dead"}]
    BY <1>7 DEF TypeOK, Fail
  <2> QED
    BY <1>7, <2>4, <2>5, <2>6 DEF TypeOK, Fail, Release, NoJob, process
<1>8. ASSUME NEW w \in Workers, WorkerDies(w)
      PROVE  TypeOK'
  <2>1. job[w] \in JobIds
    BY <1>8, HeldJob DEF Holding, WorkerDies, HandlerRaises
  <2> QED
    BY <1>8, <2>1 DEF TypeOK, WorkerDies, Release, NoJob, table
<1>9. ASSUME NEW w \in Workers, WorkerStops(w)
      PROVE  TypeOK'
  BY <1>9 DEF TypeOK, WorkerStops, table, process
<1>10. ASSUME Tick
       PROVE  TypeOK'
  <2>1. ASSUME NEW j \in JobIds
        PROVE  due[j] \in Int /\ due[j] - 1 \in Int
    <3>1. due[j] \in Int
      BY DEF TypeOK
    <3> QED BY <3>1
  <2>2. due' \in [JobIds -> Int]
    BY <1>10, <2>1 DEF Tick
  <2> QED
    BY <1>10, <2>2 DEF TypeOK, Tick, workers, process
<1>11. ASSUME NEW k \in Kinds, GoDown(k) \/ ComeBack(k)
       PROVE  TypeOK'
  <2>1. online' \in [Kinds -> BOOLEAN]
    BY <1>11 DEF TypeOK, GoDown, ComeBack
  <2> QED
    BY <1>11, <2>1 DEF TypeOK, GoDown, ComeBack, table, workers, process
<1>12. ASSUME BeginStop \/ PrintStopped \/ UploadStopped
       PROVE  TypeOK'
  BY <1>12 DEF TypeOK, BeginStop, PrintStopped, UploadStopped, table, workers
<1>13. ASSUME Killed
       PROVE  TypeOK'
  <2>1. \A w \in Workers : Holding(w) => job[w] \in JobIds
    BY HeldJob
  <2> ProcessEnds
    BY <1>13 DEF Killed, Crash, StopFails
  <2>2. stranded' \subseteq JobIds
    <3>1. ProcessEnds
      OBVIOUS
    <3>2. \A w \in {v \in Workers : Holding(v)} : job[w] \in JobIds
      BY <2>1
    <3>3. stranded \subseteq JobIds
      BY DEF TypeOK
    <3> QED BY <3>1, <3>2, <3>3 DEF ProcessEnds
  <2>3. /\ phase' \in [Workers -> {"ready", "claiming", "busy", "delivered", "stopped", "died"}]
        /\ cand' \in [Workers -> SUBSET JobIds]
        /\ job' \in [Workers -> JobIds \cup {NoJob}]
    BY DEF ProcessEnds
  <2> QED
    BY <2>2, <2>3 DEF TypeOK, ProcessEnds, table
<1>14. ASSUME Boot
       PROVE  TypeOK'
  BY <1>14 DEF TypeOK, Boot, table
<1>15. ASSUME UNCHANGED vars
       PROVE  TypeOK'
  BY <1>15 DEF TypeOK, vars, table, workers, process
<1>16. Client => TypeOK'
  BY <1>1 DEF Client, EnqueueUpload, SubmitPrint, Kinds
<1>17. ASSUME NEW w \in Workers, WorkerStep(w)
       PROVE  TypeOK'
  BY <1>2, <1>3, <1>4, <1>5, <1>6, <1>7, <1>8, <1>9, <1>17
  DEF WorkerStep, ClaimStep, WorkStep
<1> QED
  BY <1>10, <1>11, <1>12, <1>13, <1>14, <1>15, <1>16, <1>17 DEF Next, World
-----------------------------------------------------------------------------
(* A worker's step leaves the other workers alone.                           *)
LEMMA OthersStay ==
  ASSUME TypeOK, NEW w \in Workers, WorkerStep(w) \/ WorkStep(w)
  PROVE  \A v \in Workers \ {w} :
           phase'[v] = phase[v] /\ cand'[v] = cand[v] /\ job'[v] = job[v]
<1>1. ASSUME NEW j \in JobIds, ClaimWon(w, j) \/ ClaimLost(w, j)
      PROVE  \A v \in Workers \ {w} :
               phase'[v] = phase[v] /\ cand'[v] = cand[v] /\ job'[v] = job[v]
  BY <1>1 DEF TypeOK, ClaimWon, ClaimLost
<1>2. ASSUME WorkStep(w)
      PROVE  \A v \in Workers \ {w} :
               phase'[v] = phase[v] /\ cand'[v] = cand[v] /\ job'[v] = job[v]
  BY <1>2 DEF TypeOK, WorkStep, ClaimSelect, Deliver, Complete, Fail,
     WorkerDies,
              WorkerStops, Release
<1> QED
  BY <1>1, <1>2 DEF WorkerStep, ClaimStep

(* Outside of the workers' steps a worker keeps its job, or the process ends. *)
LEMMA WorkersStay ==
  ASSUME [Next]_vars, ~\E w \in Workers : WorkerStep(w), ~Killed, ~Boot
  PROVE  UNCHANGED workers
  BY DEF Next, Client, EnqueueUpload, SubmitPrint, Enqueue, BeginStop,
     PrintStopped,
         UploadStopped, Tick, World, GoDown, ComeBack, vars

(* A worker has a job in hand exactly while it handles it.                   *)
LEMMA HandStep ==
  ASSUME TypeOK, HandOK, StopOK, [Next]_vars
  PROVE  HandOK'
<1>1. ASSUME NEW w \in Workers, WorkerStep(w)
      PROVE  HandOK'
  <2>1. NoJob \notin JobIds
    BY DEF NoJob, JobIds
  <2>2. Holding(w)' <=> job'[w] # NoJob
    <3>1. ASSUME NEW j \in JobIds, ClaimWon(w, j)
          PROVE  Holding(w)' <=> job'[w] # NoJob
      <4>1. phase'[w] = "busy" /\ job'[w] = j
        BY <3>1 DEF TypeOK, ClaimWon
      <4> QED BY <2>1, <4>1 DEF Holding
    <3>2. ASSUME NEW j \in JobIds, ClaimLost(w, j)
          PROVE  Holding(w)' <=> job'[w] # NoJob
      <4>1. phase[w] = "claiming" /\ phase'[w] \in {"claiming", "ready"} /\ job'[w] = job[w]
        BY <3>2 DEF TypeOK, ClaimLost, NextCandidate
      <4> QED BY <4>1 DEF HandOK, Holding
    <3>3. ASSUME Complete(w) \/ Fail(w) \/ WorkerDies(w)
          PROVE  Holding(w)' <=> job'[w] # NoJob
      <4>1. phase'[w] \in {"ready", "died"} /\ job'[w] = NoJob
        BY <3>3 DEF TypeOK, Complete, Fail, WorkerDies, Release
      <4> QED BY <4>1 DEF Holding
    <3>4. ASSUME ClaimSelect(w) \/ Deliver(w) \/ WorkerStops(w)
          PROVE  Holding(w)' <=> job'[w] # NoJob
      <4>1. /\ job'[w] = job[w]
            /\ \/ phase[w] = "busy" /\ phase'[w] = "delivered"
               \/ phase[w] = "ready" /\ phase'[w] \in {"claiming", "stopped"}
        BY <3>4 DEF TypeOK, ClaimSelect, Deliver, WorkerStops
      <4> QED BY <4>1 DEF HandOK, Holding
    <3> QED
      BY <1>1, <3>1, <3>2, <3>3, <3>4 DEF WorkerStep, ClaimStep, WorkStep
  <2> QED
    BY <1>1, <2>2, OthersStay DEF HandOK, Holding
<1>2. ASSUME Killed
      PROVE  HandOK'
  BY <1>2 DEF Killed, Crash, StopFails, ProcessEnds, HandOK, Holding
<1>3. ASSUME Boot
      PROVE  HandOK'
  BY <1>3 DEF Boot, HandOK, StopOK, Holding
<1>4. ASSUME UNCHANGED workers
      PROVE  HandOK'
  BY <1>4 DEF HandOK, Holding, workers
<1> QED
  BY <1>1, <1>2, <1>3, <1>4, WorkersStay

(* Whoever is told that all workers stopped finds them stopped.              *)
LEMMA StopStep ==
  ASSUME QueueAssumption, TypeOK, StopOK, [Next]_vars
  PROVE  StopOK'
<1>1. ASSUME NEW w \in Workers, WorkerStep(w)
      PROVE  StopOK'
  <2>1. mode' = mode /\ (phase[w] = "stopped" => phase'[w] = "stopped")
    <3>1. ASSUME NEW j \in JobIds, ClaimWon(w, j) \/ ClaimLost(w, j)
          PROVE  mode' = mode /\ phase[w] # "stopped"
      BY <3>1 DEF ClaimWon, ClaimLost, NextCandidate, process
    <3>2. ASSUME WorkStep(w)
          PROVE  mode' = mode /\ phase[w] # "stopped"
      BY <3>2 DEF WorkStep, ClaimSelect, Deliver, Complete, Fail,
         HandlerRaises,
                  WorkerDies, WorkerStops, process
    <3> QED BY <1>1, <3>1, <3>2 DEF WorkerStep, ClaimStep
  <2> QED
    BY <1>1, <2>1, OthersStay DEF StopOK, AllStopped
<1>2. ASSUME Killed
      PROVE  StopOK'
  BY <1>2 DEF Killed, Crash, StopFails, ProcessEnds, StopOK
<1>3. ASSUME Boot
      PROVE  StopOK'
  BY <1>3 DEF Boot, StopOK
<1>4. ASSUME UNCHANGED workers, BeginStop \/ PrintStopped \/ UploadStopped \/ UNCHANGED mode
      PROVE  StopOK'
  BY <1>4 DEF StopOK, AllStopped, BeginStop, PrintStopped, UploadStopped,
     workers,
              QueueAssumption, Kinds
<1>5. Client \/ Tick \/ World \/ UNCHANGED vars => UNCHANGED mode
  BY DEF Client, EnqueueUpload, SubmitPrint, Enqueue, Tick, World, GoDown,
     ComeBack,
         vars, process
<1> QED
  BY <1>1, <1>2, <1>3, <1>4, <1>5, WorkersStay DEF Next
-----------------------------------------------------------------------------
(* The table changes in four ways: a new row, a claim, a verdict on the job  *)
(* in a worker's hand, or a clock tick.                                      *)
TableStays == UNCHANGED <<created, kind, status, attempts, session>>

Verdict(w, st, n) ==
  /\ Holding(w)
  /\ status' = [status EXCEPT ![job[w]] = st]
  /\ attempts' = [attempts EXCEPT ![job[w]] = n]
  /\ UNCHANGED <<created, kind, session, effects>>

LEMMA WorkStepTable ==
  ASSUME TypeOK, HandOK, NEW w \in Workers, WorkStep(w)
  PROVE  \/ TableStays /\ (effects' = effects \/ Deliver(w))
         \/ Complete(w) /\ Verdict(w, "done", attempts[job[w]])
         \/ Fail(w) /\ attempts[job[w]] + 1 >= MaxAttempts
            /\ Verdict(w, "dead", attempts[job[w]] + 1)
         \/ Fail(w) /\ attempts[job[w]] + 1 < MaxAttempts
            /\ Verdict(w, "pending", attempts[job[w]] + 1)
<1>1. ClaimSelect(w) \/ Deliver(w) \/ WorkerDies(w) \/ WorkerStops(w)
      => TableStays /\ (effects' = effects \/ Deliver(w))
  BY DEF ClaimSelect, Deliver, WorkerDies, WorkerStops, TableStays, table
<1>2. ASSUME Complete(w)
      PROVE  Verdict(w, "done", attempts[job[w]])
  <2>1. attempts' = [attempts EXCEPT ![job[w]] = attempts[job[w]]]
    BY <1>2 DEF TypeOK, Complete
  <2> QED BY <1>2, <2>1 DEF Verdict, Complete, Holding
<1>3. ASSUME Fail(w)
      PROVE  \/ attempts[job[w]] + 1 >= MaxAttempts
                /\ Verdict(w, "dead", attempts[job[w]] + 1)
             \/ attempts[job[w]] + 1 < MaxAttempts
                /\ Verdict(w, "pending", attempts[job[w]] + 1)
  BY <1>3 DEF Fail, HandlerRaises, Verdict, Holding
<1> QED
  BY <1>1, <1>2, <1>3 DEF WorkStep

(* Everybody else leaves the table alone, but for new rows.                  *)
LEMMA OtherStepTable ==
  ASSUME [Next]_vars, ~\E w \in Workers : WorkerStep(w)
  PROVE  /\ \/ TableStays
            \/ EnqueueUpload
            \/ \E s \in Sessions : SubmitPrint(s)
         /\ effects' = effects
  BY DEF Next, Client, EnqueueUpload, SubmitPrint, Enqueue, BeginStop,
     PrintStopped,
         UploadStopped, Tick, World, GoDown, ComeBack, Killed, Crash, StopFails, ProcessEnds, Boot, TableStays, vars,
         table

(* Rows are created one after the other and never go away.                   *)
LEMMA RowsStep ==
  ASSUME QueueAssumption, TypeOK, HandOK, RowsOK, ClaimedByOne, [Next]_vars
  PROVE  RowsOK'
<1>1. ASSUME NEW k \in Kinds, NEW s \in Sessions \cup {NoSession}, Enqueue(k, s)
      PROVE  RowsOK'
  <2>1. created' = created + 1 /\ created + 1 \in JobIds /\ created \in Nat
    BY <1>1 DEF TypeOK, Enqueue, JobIds, QueueAssumption
  <2>2. \A j \in JobIds \ {created + 1} : kind'[j] = kind[j] /\ status'[j] = status[j]
    BY <1>1 DEF TypeOK, Enqueue
  <2>3. kind'[created + 1] # "none" /\ status'[created + 1] # "none"
    BY <1>1, <2>1 DEF TypeOK, Enqueue, Kinds
  <2>4. \A j \in JobIds \ {created + 1} : j > created + 1 <=> j > created
    BY <2>1 DEF JobIds
  <2>5. ~(created + 1 > created')
    BY <2>1
  <2> QED
    BY <2>1, <2>2, <2>3, <2>4, <2>5 DEF RowsOK
<1>2. ASSUME NEW j \in JobIds, NEW st \in {"pending", "claimed", "done", "dead"},
             status[j] # "none", status' = [status EXCEPT ![j] = st],
             UNCHANGED <<created, kind>>
      PROVE  RowsOK'
  <2>1. \A i \in JobIds : status'[i] = "none" <=> status[i] = "none"
    BY <1>2 DEF TypeOK
  <2> QED
    BY <1>2, <2>1 DEF RowsOK
<1>3. ASSUME NEW w \in Workers, NEW j \in JobIds, ClaimWon(w, j) \/ ClaimLost(w, j)
      PROVE  RowsOK'
  BY <1>2, <1>3 DEF ClaimWon, ClaimLost, RowsOK, table
<1>4. ASSUME NEW w \in Workers, WorkStep(w)
      PROVE  RowsOK'
  <2>1. ASSUME NEW st \in {"pending", "done", "dead"}, NEW n, Verdict(w, st, n)
        PROVE  RowsOK'
    BY <1>2, <2>1, HeldJob DEF Verdict, ClaimedByOne
  <2>2. TableStays => RowsOK'
    BY DEF TableStays, RowsOK
  <2> QED
    BY <1>4, <2>1, <2>2, WorkStepTable
<1>5. TableStays => RowsOK'
  BY DEF TableStays, RowsOK
<1> QED
  BY <1>1, <1>3, <1>4, <1>5, OtherStepTable
  DEF EnqueueUpload, SubmitPrint, WorkerStep, ClaimStep, Kinds

(* enqueue() never overwrites a row.                                         *)
LEMMA NotNew ==
  ASSUME QueueAssumption, TypeOK, RowsOK, NEW j \in JobIds,
         kind[j] # "none" \/ status[j] # "none"
  PROVE  j # created + 1
<1>1. ~(j > created)
  BY DEF RowsOK
<1>2. j \in Int
  BY DEF JobIds
<1>3. created \in 0 .. MaxJobs
  BY DEF TypeOK
<1> QED BY <1>1, <1>2, <1>3

(* A row keeps its kind, and a new row is nobody's candidate yet.            *)
LEMMA CandidatesStep ==
  ASSUME QueueAssumption, TypeOK, HandOK, RowsOK, CandidatesOK, [Next]_vars
  PROVE  CandidatesOK'
<1>1. \A w \in Workers : \A j \in cand[w] : kind'[j] = kind[j]
  <2>1. ASSUME NEW k \in Kinds, NEW s \in Sessions \cup {NoSession}, Enqueue(k, s),
               NEW w \in Workers, NEW j \in cand[w]
        PROVE  kind'[j] = kind[j]
    <3>1. kind[j] # "none" /\ j \in JobIds
      BY DEF CandidatesOK, TypeOK, QueueAssumption, Kinds
    <3>3. j # created + 1
      BY <3>1, NotNew
    <3> QED
      BY <2>1, <3>1, <3>3 DEF TypeOK, Enqueue
  <2>2. ASSUME NEW w \in Workers, WorkerStep(w)
        PROVE  kind' = kind
    BY <2>2, WorkStepTable
    DEF WorkerStep, ClaimStep, ClaimWon, ClaimLost, Verdict, TableStays, table
  <2> QED
    BY <2>1, <2>2, OtherStepTable
    DEF EnqueueUpload, SubmitPrint, TableStays, Kinds
<1>2. \A w \in Workers : \A j \in cand'[w] : j \in cand[w] \/ kind'[j] = Serves[w]
  <2>1. ASSUME NEW w \in Workers, NEW j \in JobIds, ClaimWon(w, j) \/ ClaimLost(w, j)
        PROVE  \A v \in Workers : cand'[v] \subseteq cand[v]
    <3>1. cand' = [cand EXCEPT ![w] = {}] \/ cand' = [cand EXCEPT ![w] = cand[w] \ {j}]
      BY <2>1 DEF ClaimWon, ClaimLost
    <3>2. cand \in [Workers -> SUBSET JobIds]
      BY DEF TypeOK
    <3>3. cand'[w] \subseteq cand[w] /\ \A v \in Workers \ {w} : cand'[v] = cand[v]
      BY <3>1, <3>2
    <3> QED BY <3>3
  <2>2. ASSUME NEW w \in Workers, WorkStep(w), ~ClaimSelect(w)
        PROVE  cand' = cand
    BY <2>2 DEF WorkStep, Deliver, Complete, Fail, WorkerDies, WorkerStops,
       Release
  <2>3. ASSUME NEW w \in Workers, ClaimSelect(w)
        PROVE  \A v \in Workers : \A j \in cand'[v] : j \in cand[v] \/ kind'[j] = Serves[v]
    BY <2>3 DEF TypeOK, ClaimSelect, Eligible, table
  <2>4. Killed \/ Boot => \A v \in Workers : cand'[v] \subseteq cand[v]
    BY DEF Killed, Crash, StopFails, ProcessEnds, Boot
  <2>5. UNCHANGED workers => cand' = cand
    BY DEF workers
  <2> QED
    BY <2>1, <2>2, <2>3, <2>4, <2>5, WorkersStay DEF WorkerStep, ClaimStep
<1> QED
  BY <1>1, <1>2 DEF CandidatesOK
-----------------------------------------------------------------------------
(* The conditional UPDATE takes a job nobody holds.                          *)
LEMMA ClaimedByOneStep ==
  ASSUME QueueAssumption, TypeOK, HandOK, RowsOK, CandidatesOK, ClaimedByOne,
         [Next]_vars
  PROVE  ClaimedByOne'
<1>1. ASSUME NEW w \in Workers, NEW j \in JobIds, ClaimWon(w, j)
      PROVE  ClaimedByOne'
  <2>1. \A v \in Workers : Holding(v) => job[v] # j
    BY <1>1 DEF ClaimWon, ClaimedByOne
  <2>2. \A v \in Workers \ {w} : /\ Holding(v)' <=> Holding(v)
                                 /\ job'[v] = job[v]
    BY <1>1 DEF TypeOK, ClaimWon, Holding
  <2>3. job'[w] = j /\ status'[j] = "claimed" /\ kind' = kind /\ kind[j] = Serves[w]
    BY <1>1 DEF TypeOK, ClaimWon, NextCandidate, CandidatesOK
  <2>4. \A i \in JobIds \ {j} : status'[i] = status[i]
    BY <1>1 DEF TypeOK, ClaimWon
  <2> QED
    BY <2>1, <2>2, <2>3, <2>4 DEF ClaimedByOne
<1>2. ASSUME NEW w \in Workers, NEW st, NEW n, Verdict(w, st, n), ~Holding(w)',
             \A v \in Workers \ {w} : phase'[v] = phase[v] /\ job'[v] = job[v]
      PROVE  ClaimedByOne'
  <2>1. \A v \in Workers : Holding(v)' => Holding(v) /\ v # w /\ job'[v] = job[v]
    BY <1>2 DEF Holding
  <2>2. \A v \in Workers \ {w} : Holding(v) => status'[job[v]] = status[job[v]]
    BY <1>2 DEF TypeOK, Verdict, ClaimedByOne
  <2>3. kind' = kind
    BY <1>2 DEF Verdict
  <2> QED
    BY <2>1, <2>2, <2>3 DEF ClaimedByOne
<1>3. ASSUME \A w \in Workers : Holding(w)' => Holding(w) /\ job'[w] = job[w],
             \A j \in JobIds : status[j] = "claimed" =>
               status'[j] = "claimed" /\ kind'[j] = kind[j]
      PROVE  ClaimedByOne'
  BY <1>3 DEF ClaimedByOne
<1>4. ASSUME NEW w \in Workers, WorkStep(w)
      PROVE  ClaimedByOne'
  <2>1. \A v \in Workers \ {w} : phase'[v] = phase[v] /\ job'[v] = job[v]
    BY <1>4, OthersStay
  <2>2. CASE \E st, n : (Complete(w) \/ Fail(w)) /\ Verdict(w, st, n)
    <3>1. ~Holding(w)'
      BY <2>2 DEF TypeOK, Complete, Fail, Release, Holding
    <3> QED
      BY <1>2, <2>1, <2>2, <3>1
  <2>3. CASE TableStays
    <3>1. Holding(w)' => Holding(w) /\ job'[w] = job[w]
      BY <1>4 DEF TypeOK, WorkStep, ClaimSelect, Deliver, Complete, Fail,
         WorkerDies,
                  WorkerStops, Release, Holding
    <3> QED
      BY <1>3, <2>1, <2>3, <3>1 DEF TableStays, Holding
  <2> QED
    BY <1>4, <2>2, <2>3, WorkStepTable
<1>5. ASSUME NEW w \in Workers, NEW j \in JobIds, ClaimLost(w, j)
      PROVE  ClaimedByOne'
  <2>1. \A v \in Workers : Holding(v)' => Holding(v) /\ job'[v] = job[v]
    BY <1>5 DEF TypeOK, ClaimLost, NextCandidate, Holding
  <2> QED
    BY <1>3, <1>5, <2>1 DEF ClaimLost, table
<1>6. ASSUME ~\E w \in Workers : WorkerStep(w)
      PROVE  ClaimedByOne'
  <2>1. \A w \in Workers : Holding(w)' => Holding(w) /\ job'[w] = job[w]
    BY <1>6, WorkersStay DEF Killed, Crash, StopFails, ProcessEnds, Boot,
       Holding, workers
  <2>2. \A j \in JobIds : status[j] = "claimed" =>
               status'[j] = "claimed" /\ kind'[j] = kind[j]
    <3>1. ASSUME NEW k \in Kinds, NEW s \in Sessions \cup {NoSession}, Enqueue(k, s),
                 NEW j \in JobIds, status[j] = "claimed"
          PROVE  status'[j] = "claimed" /\ kind'[j] = kind[j]
      <4>2. j # created + 1
        BY <3>1, NotNew
      <4> QED
        BY <3>1, <4>2 DEF TypeOK, Enqueue
    <3> QED
      BY <1>6, <3>1, OtherStepTable DEF EnqueueUpload, SubmitPrint,
         TableStays, Kinds
  <2> QED
    BY <1>3, <2>1, <2>2
<1> QED
  BY <1>1, <1>4, <1>5, <1>6 DEF WorkerStep, ClaimStep

(* A delivery is a change in the world.                                      *)
LEMMA DeliverAdds ==
  ASSUME TypeOK, HandOK, NEW w \in Workers, Deliver(w)
  PROVE  effects' # effects
<1>1. job[w] \in JobIds
  BY HeldJob DEF Deliver, Holding
<1>2. effects[job[w]] \in Nat
  BY <1>1 DEF TypeOK
<1>3. effects'[job[w]] = effects[job[w]] + 1
  BY <1>1 DEF TypeOK, Deliver
<1> QED BY <1>2, <1>3
-----------------------------------------------------------------------------
(* Deliveries: the one step that adds a copy starts from a job whose copies  *)
(* are covered, and the next attempt is counted before the job is free again. *)
Covered == CoveredOK /\ OneCopyPerAttempt /\ DoneWasDelivered

LEMMA CoveredStep ==
  ASSUME QueueAssumption, TypeOK, HandOK, RowsOK, ClaimedByOne, Covered, [Next]_vars
  PROVE  Covered'
<1>a. \A j \in JobIds : effects[j] \in Nat /\ attempts[j] \in Nat
  BY DEF TypeOK
<1>1. ASSUME UNCHANGED <<effects, attempts>>,
             \A j \in JobIds : \/ status'[j] = status[j]
                               \/ status'[j] = "pending" /\ status[j] = "none"
                               \/ status'[j] = "claimed",
             \A w \in Workers : Holding(w)' =>
               \/ phase'[w] = phase[w] /\ job'[w] = job[w]
               \/ phase'[w] = "busy" /\ job'[w] \in JobIds /\ status[job'[w]] = "pending"
      PROVE  Covered'
  <2>1. OneCopyPerAttempt' /\ DoneWasDelivered'
    BY <1>1 DEF Covered, OneCopyPerAttempt, DoneWasDelivered
  <2>2. \A j \in JobIds : status'[j] \in {"none", "pending"} => effects'[j] <= attempts'[j]
    BY <1>1 DEF Covered, CoveredOK
  <2>3. \A w \in Workers : /\ phase'[w] = "busy" => effects'[job'[w]] <= attempts'[job'[w]]
                           /\ phase'[w] = "delivered" => effects'[job'[w]] > 0
    BY <1>1 DEF Covered, CoveredOK, Holding
  <2> QED
    BY <2>1, <2>2, <2>3 DEF Covered, CoveredOK
<1>2. ASSUME NEW w \in Workers, NEW j \in JobIds, ClaimWon(w, j) \/ ClaimLost(w, j)
      PROVE  Covered'
  <2>1. CASE ClaimWon(w, j)
    BY <1>1, <2>1 DEF TypeOK, ClaimWon, Holding
  <2>2. CASE ClaimLost(w, j)
    BY <1>1, <2>2 DEF TypeOK, ClaimLost, Holding, table
  <2> QED BY <1>2, <2>1, <2>2
<1>3. ASSUME NEW w \in Workers, Deliver(w)
      PROVE  Covered'
  <2>1. /\ job[w] \in JobIds /\ effects[job[w]] <= attempts[job[w]]
        /\ status[job[w]] = "claimed"
    BY <1>3, HeldJob DEF Deliver, Holding, ClaimedByOne, Covered, CoveredOK
  <2>2. /\ effects'[job[w]] = effects[job[w]] + 1
        /\ \A j \in JobIds \ {job[w]} : effects'[j] = effects[j]
        /\ attempts' = attempts /\ status' = status /\ job' = job
    BY <1>3, <2>1 DEF TypeOK, Deliver, table
  <2>3. \A v \in Workers \ {w} : phase'[v] = phase[v] /\ (Holding(v) => job[v] # job[w])
    BY <1>3 DEF TypeOK, Deliver, ClaimedByOne, Holding
  <2>4. phase'[w] = "delivered"
    BY <1>3 DEF TypeOK, Deliver
  <2>5. effects'[job[w]] <= attempts[job[w]] + 1 /\ effects'[job[w]] > 0
    <3>1. effects[job[w]] \in Nat /\ attempts[job[w]] \in Nat
      BY <2>1, <1>a
    <3> QED BY <2>1, <2>2, <3>1
  <2>6. OneCopyPerAttempt'
    BY <2>2, <2>5 DEF Covered, OneCopyPerAttempt
  <2>7. DoneWasDelivered'
    BY <2>1, <2>2 DEF Covered, DoneWasDelivered
  <2>8. CoveredOK'
    <3>1. \A v \in Workers \ {w} : Holding(v) => job[v] \in JobIds
      BY HeldJob
    <3> QED
      BY <2>1, <2>2, <2>3, <2>4, <2>5, <3>1 DEF Covered, CoveredOK, Holding
  <2> QED BY <2>6, <2>7, <2>8 DEF Covered
<1>4. ASSUME NEW w \in Workers, NEW st \in {"pending", "dead", "done"}, NEW n,
             Verdict(w, st, n),
             \/ st = "done" /\ phase[w] = "delivered" /\ n = attempts[job[w]]
             \/ st # "done" /\ n = attempts[job[w]] + 1,
             \A v \in Workers : Holding(v)' =>
               v # w /\ phase'[v] = phase[v] /\ job'[v] = job[v]
      PROVE  Covered'
  <2>1. job[w] \in JobIds
    BY <1>4, HeldJob DEF Verdict
  <2>2. /\ effects' = effects
        /\ attempts'[job[w]] = n /\ status'[job[w]] = st
        /\ \A j \in JobIds \ {job[w]} : attempts'[j] = attempts[j] /\ status'[j] = status[j]
    BY <1>4, <2>1 DEF TypeOK, Verdict
  <2>3. /\ effects[job[w]] <= attempts[job[w]] + 1
        /\ effects[job[w]] \in Nat /\ attempts[job[w]] \in Nat
    BY <2>1, <1>a DEF Covered, OneCopyPerAttempt
  <2>4. /\ st # "done" => effects[job[w]] <= n
        /\ st = "done" => effects[job[w]] > 0 /\ n = attempts[job[w]]
        /\ effects[job[w]] <= n + 1
    BY <1>4, <2>3 DEF Covered, CoveredOK
  <2>5. OneCopyPerAttempt'
    BY <2>2, <2>4 DEF Covered, OneCopyPerAttempt
  <2>6. DoneWasDelivered'
    BY <1>4, <2>2, <2>4 DEF Covered, DoneWasDelivered
  <2>7. \A v \in Workers : Holding(v)' => job'[v] \in JobIds /\ job'[v] # job[w]
    BY <1>4 DEF Verdict, Holding, ClaimedByOne
  <2>8. CoveredOK'
    BY <1>4, <2>2, <2>4, <2>7 DEF Covered, CoveredOK, Holding
  <2> QED BY <2>5, <2>6, <2>8 DEF Covered
<1>5. ASSUME NEW w \in Workers, WorkStep(w)
      PROVE  Covered'
  <2>1. \A v \in Workers \ {w} : phase'[v] = phase[v] /\ job'[v] = job[v]
    BY <1>5, OthersStay
  <2>2. ASSUME NEW st \in {"pending", "dead", "done"}, NEW n, Verdict(w, st, n),
               \/ st = "done" /\ Complete(w) /\ n = attempts[job[w]]
               \/ st # "done" /\ Fail(w) /\ n = attempts[job[w]] + 1
        PROVE  Covered'
    <3>1. ~Holding(w)'
      BY <2>2 DEF TypeOK, Complete, Fail, Release, Holding
    <3>2. \A v \in Workers : Holding(v)' => v # w /\ phase'[v] = phase[v] /\ job'[v] = job[v]
      BY <2>1, <3>1
    <3>3. Complete(w) => phase[w] = "delivered"
      BY DEF Complete
    <3> QED
      BY <1>4, <2>2, <3>2, <3>3
  <2>3. CASE TableStays /\ effects' = effects
    <3>1. Holding(w)' => phase'[w] = phase[w] /\ job'[w] = job[w]
      BY <1>5, <2>3, DeliverAdds DEF TypeOK, WorkStep, ClaimSelect, Complete,
         Fail,
         WorkerDies, WorkerStops, Release, Holding
    <3> QED
      BY <1>1, <2>1, <2>3, <3>1 DEF TableStays
  <2> QED
    BY <1>3, <1>5, <2>2, <2>3, WorkStepTable
<1>6. ASSUME ~\E w \in Workers : WorkerStep(w)
      PROVE  Covered'
  <2>1. \A w \in Workers : Holding(w)' => phase'[w] = phase[w] /\ job'[w] = job[w]
    BY <1>6, WorkersStay DEF Killed, Crash, StopFails, ProcessEnds, Boot,
       Holding, workers
  <2>2. effects' = effects /\ attempts' = attempts
    BY <1>6, OtherStepTable DEF TableStays, EnqueueUpload, SubmitPrint, Enqueue
  <2>3. \A j \in JobIds : \/ status'[j] = status[j]
                          \/ status'[j] = "pending" /\ status[j] = "none"
    <3>1. ASSUME NEW k \in Kinds, NEW s \in Sessions \cup {NoSession}, Enqueue(k, s),
                 NEW j \in JobIds
          PROVE  \/ status'[j] = status[j]
                 \/ status'[j] = "pending" /\ status[j] = "none"
      BY <3>1, NotNew DEF TypeOK, Enqueue
    <3> QED
      BY <1>6, <3>1, OtherStepTable DEF EnqueueUpload, SubmitPrint,
         TableStays, Kinds
  <2> QED
    BY <1>1, <2>1, <2>2, <2>3
<1> QED
  BY <1>2, <1>5, <1>6 DEF WorkerStep, ClaimStep
-----------------------------------------------------------------------------
(* What any step does to a row: nothing, INSERT, a claim, or the verdict of  *)
(* the worker that has the job in hand.                                      *)
RowStep(j) ==
  \/ status'[j] = status[j] /\ attempts'[j] = attempts[j]
  \/ status[j] = "none" /\ status'[j] = "pending" /\ attempts'[j] = attempts[j]
  \/ status[j] = "pending" /\ status'[j] = "claimed" /\ attempts'[j] = attempts[j]
  \/ status[j] = "claimed" /\ status'[j] = "done" /\ attempts'[j] = attempts[j]
  \/ /\ status[j] = "claimed" /\ attempts'[j] = attempts[j] + 1
     /\ status'[j] = IF attempts[j] + 1 >= MaxAttempts THEN "dead" ELSE "pending"

(* The row a step changes, if it changes one.                                *)
OneRowChanges ==
  \/ UNCHANGED <<status, attempts>>
  \/ \E j \in JobIds : /\ RowStep(j)
                       /\ status' = [status EXCEPT ![j] = status'[j]]
                       /\ attempts' = [attempts EXCEPT ![j] = attempts'[j]]

LEMMA RowChange ==
  ASSUME QueueAssumption, TypeOK, HandOK, RowsOK, ClaimedByOne, [Next]_vars
  PROVE  OneRowChanges
<1>1. ASSUME NEW k \in Kinds, NEW s \in Sessions \cup {NoSession}, Enqueue(k, s)
      PROVE  OneRowChanges
  <2>1. created + 1 \in JobIds
    BY <1>1 DEF TypeOK, Enqueue, JobIds, QueueAssumption
  <2>2. status[created + 1] = "none"
    <3>1. created \in 0 .. MaxJobs /\ MaxJobs \in Nat
      BY DEF TypeOK, QueueAssumption
    <3>2. created + 1 > created
      BY <3>1
    <3> QED BY <2>1, <3>2 DEF RowsOK
  <2>3. status'[created + 1] = "pending" /\ attempts' = attempts
    BY <1>1, <2>1 DEF TypeOK, Enqueue
  <2>4. /\ status' = [status EXCEPT ![created + 1] = status'[created + 1]]
        /\ attempts' = [attempts EXCEPT ![created + 1] = attempts'[created + 1]]
    BY <1>1, <2>1, <2>3 DEF TypeOK, Enqueue
  <2> QED
    BY <2>1, <2>2, <2>3, <2>4 DEF OneRowChanges, RowStep
<1>2. ASSUME NEW w \in Workers, NEW j \in JobIds, ClaimWon(w, j) \/ ClaimLost(w, j)
      PROVE  OneRowChanges
  <2>1. CASE ClaimLost(w, j)
    BY <2>1 DEF ClaimLost, table, OneRowChanges
  <2>2. CASE ClaimWon(w, j)
    <3>1. status'[j] = "claimed" /\ attempts' = attempts
      BY <2>2 DEF TypeOK, ClaimWon
    <3>2. /\ status' = [status EXCEPT ![j] = status'[j]]
          /\ attempts' = [attempts EXCEPT ![j] = attempts'[j]]
      BY <2>2, <3>1 DEF TypeOK, ClaimWon
    <3> QED
      BY <2>2, <3>1, <3>2 DEF OneRowChanges, RowStep, ClaimWon
  <2> QED BY <1>2, <2>1, <2>2
<1>3. ASSUME NEW w \in Workers, NEW st \in {"pending", "dead", "done"}, NEW n,
             Verdict(w, st, n),
             \/ st = "done" /\ n = attempts[job[w]]
             \/ st = "dead" /\ n = attempts[job[w]] + 1 /\ n >= MaxAttempts
             \/ st = "pending" /\ n = attempts[job[w]] + 1 /\ n < MaxAttempts
      PROVE  OneRowChanges
  <2>1. job[w] \in JobIds /\ status[job[w]] = "claimed"
    BY <1>3, HeldJob DEF Verdict, ClaimedByOne
  <2>2. status'[job[w]] = st /\ attempts'[job[w]] = n
    BY <1>3, <2>1 DEF TypeOK, Verdict
  <2>3. /\ status' = [status EXCEPT ![job[w]] = status'[job[w]]]
        /\ attempts' = [attempts EXCEPT ![job[w]] = attempts'[job[w]]]
    BY <1>3, <2>2 DEF Verdict
  <2>4. attempts[job[w]] \in Nat /\ MaxAttempts \in Nat
    BY <2>1 DEF TypeOK, QueueAssumption
  <2>5. RowStep(job[w])
    BY <1>3, <2>1, <2>2, <2>4 DEF RowStep
  <2> QED
    BY <2>1, <2>3, <2>5 DEF OneRowChanges
<1>4. ASSUME NEW w \in Workers, WorkStep(w)
      PROVE  OneRowChanges
  BY <1>3, <1>4, WorkStepTable DEF TableStays, OneRowChanges
<1> QED
  BY <1>1, <1>2, <1>4, OtherStepTable
  DEF EnqueueUpload, SubmitPrint, TableStays, OneRowChanges, WorkerStep, ClaimStep, Kinds

(* A dead letter is one whose attempts are used up, and no other.            *)
LEMMA SpentStep ==
  ASSUME QueueAssumption, TypeOK, DeadIffSpent, OneRowChanges
  PROVE  DeadIffSpent'
<1>1. ASSUME NEW j \in JobIds, RowStep(j)
      PROVE  status'[j] = "dead" <=> attempts'[j] >= MaxAttempts
  <2>1. attempts[j] \in Nat /\ MaxAttempts \in Nat
    BY DEF TypeOK, QueueAssumption
  <2>2. status[j] = "dead" <=> attempts[j] >= MaxAttempts
    BY DEF DeadIffSpent
  <2> QED BY <1>1, <2>1, <2>2 DEF RowStep
<1>2. \A i \in JobIds :
        \/ status'[i] = status[i] /\ attempts'[i] = attempts[i]
        \/ RowStep(i)
  BY DEF TypeOK, OneRowChanges
<1> QED
  BY <1>1, <1>2 DEF DeadIffSpent

(* A claimed row without a worker is one a lost worker left behind.          *)
LEMMA AccountStep ==
  ASSUME QueueAssumption, TypeOK, HandOK, StopOK, RowsOK, ClaimedByOne,
         ClaimedIsHeldOrStranded, [Next]_vars
  PROVE  ClaimedIsHeldOrStranded'
<1>1. ASSUME stranded \subseteq stranded',
             \A j \in JobIds : status'[j] = "claimed" => status[j] = "claimed",
             \A w \in Workers : Holding(w) =>
               \/ Holding(w)' /\ job'[w] = job[w]
               \/ job[w] \in stranded'
               \/ status'[job[w]] # "claimed"
      PROVE  ClaimedIsHeldOrStranded'
  BY <1>1 DEF ClaimedIsHeldOrStranded
<1>2. ASSUME NEW w \in Workers, NEW j \in JobIds, ClaimWon(w, j)
      PROVE  ClaimedIsHeldOrStranded'
  <2>1. /\ stranded' = stranded /\ Holding(w)' /\ job'[w] = j /\ ~Holding(w)
        /\ \A v \in Workers \ {w} : phase'[v] = phase[v] /\ job'[v] = job[v]
        /\ \A i \in JobIds \ {j} : status'[i] = status[i]
    BY <1>2 DEF TypeOK, ClaimWon, NextCandidate, Holding, process
  <2> QED
    BY <2>1 DEF ClaimedIsHeldOrStranded, Holding
<1>3. ASSUME NEW w \in Workers, NEW j \in JobIds, ClaimLost(w, j)
      PROVE  ClaimedIsHeldOrStranded'
  <2>1. /\ stranded' = stranded /\ status' = status /\ job' = job
        /\ \A v \in Workers : Holding(v)' <=> Holding(v)
    BY <1>3 DEF TypeOK, ClaimLost, NextCandidate, Holding, process, table
  <2> QED
    BY <2>1 DEF ClaimedIsHeldOrStranded
<1>4. ASSUME NEW w \in Workers, WorkStep(w)
      PROVE  ClaimedIsHeldOrStranded'
  <2>1. \A v \in Workers \ {w} : phase'[v] = phase[v] /\ job'[v] = job[v]
    BY <1>4, OthersStay
  <2>2. stranded \subseteq stranded'
    BY <1>4 DEF WorkStep, ClaimSelect, Deliver, Complete, Fail, WorkerDies,
       WorkerStops,
                process
  <2>3. \A j \in JobIds : status'[j] = "claimed" => status[j] = "claimed"
    <3>1. ASSUME NEW st \in {"pending", "dead", "done"}, NEW n, Verdict(w, st, n),
                 NEW j \in JobIds, status'[j] = "claimed"
          PROVE  status[j] = "claimed"
      BY <3>1 DEF TypeOK, Verdict
    <3> QED
      BY <1>4, <3>1, WorkStepTable DEF TableStays
  <2>4. Holding(w) => \/ Holding(w)' /\ job'[w] = job[w]
                      \/ job[w] \in stranded'
                      \/ status'[job[w]] # "claimed"
    <3>1. CASE ClaimSelect(w) \/ WorkerStops(w)
      BY <3>1 DEF ClaimSelect, WorkerStops, Holding
    <3>2. CASE Deliver(w)
      BY <3>2 DEF TypeOK, Deliver, Holding
    <3>3. CASE WorkerDies(w)
      BY <3>3 DEF WorkerDies
    <3>4. ASSUME NEW st \in {"pending", "dead", "done"}, NEW n, Verdict(w, st, n)
          PROVE  status'[job[w]] # "claimed"
      BY <3>4, HeldJob DEF TypeOK, Verdict
    <3>5. CASE Complete(w) \/ Fail(w)
      <4>1. Complete(w) \/ Fail(w) => ~TableStays
        <5>1. job[w] \in JobIds /\ attempts[job[w]] \in Nat /\ status[job[w]] = "claimed"
          BY <3>5, HeldJob DEF TypeOK, Complete, Fail, HandlerRaises, Holding,
             ClaimedByOne
        <5>2. attempts[job[w]] + 1 # attempts[job[w]]
          BY <5>1
        <5> QED
          BY <5>1, <5>2 DEF TypeOK, Complete, Fail, TableStays
      <4> QED
        BY <1>4, <3>4, <3>5, <4>1, WorkStepTable
    <3> QED
      BY <1>4, <3>1, <3>2, <3>3, <3>5 DEF WorkStep
  <2> QED
    BY <1>1, <2>1, <2>2, <2>3, <2>4 DEF Holding
<1>5. ASSUME Killed
      PROVE  ClaimedIsHeldOrStranded'
  BY <1>1, <1>5 DEF Killed, Crash, StopFails, ProcessEnds, table
<1>6. ASSUME Boot
      PROVE  ClaimedIsHeldOrStranded'
  BY <1>1, <1>6 DEF Boot, StopOK, Holding, table
<1>7. ASSUME ~\E w \in Workers : WorkerStep(w), ~Killed, ~Boot
      PROVE  ClaimedIsHeldOrStranded'
  <2>1. UNCHANGED workers
    BY <1>7, WorkersStay
  <2>2. stranded' = stranded
    BY <1>7 DEF Next, Client, EnqueueUpload, SubmitPrint, Enqueue, BeginStop,
       PrintStopped, UploadStopped, Tick, World, GoDown, ComeBack, vars, process
  <2>3. \A j \in JobIds : status'[j] = "claimed" => status[j] = "claimed"
    <3>1. ASSUME NEW k \in Kinds, NEW s \in Sessions \cup {NoSession}, Enqueue(k, s),
                 NEW j \in JobIds, status'[j] = "claimed"
          PROVE  status[j] = "claimed"
      BY <3>1 DEF TypeOK, Enqueue
    <3> QED
      BY <1>7, <3>1, OtherStepTable DEF EnqueueUpload, SubmitPrint,
         TableStays, Kinds
  <2> QED
    BY <1>1, <2>1, <2>2, <2>3 DEF workers, Holding
<1> QED
  BY <1>2, <1>3, <1>4, <1>5, <1>6, <1>7 DEF WorkerStep, ClaimStep
-----------------------------------------------------------------------------
(* The print jobs of a session are finitely many.                            *)
LEMMA PrintsFinite ==
  ASSUME QueueAssumption, NEW s
  PROVE  IsFiniteSet(PrintsOf(s)) /\ Cardinality(PrintsOf(s)) \in Nat
<1>1. IsFiniteSet(JobIds)
  BY FS_Interval DEF JobIds, QueueAssumption
<1>2. PrintsOf(s) \subseteq JobIds
  BY DEF PrintsOf
<1> QED
  BY <1>1, <1>2, FS_Subset, FS_CardinalityType

(* A print is admitted only below the limit, and nothing else adds one.      *)
LEMMA PrintLimitStep ==
  ASSUME QueueAssumption, TypeOK, HandOK, RowsOK, PrintLimitHolds, [Next]_vars
  PROVE  PrintLimitHolds'
<1>1. ASSUME kind' = kind, session' = session
      PROVE  PrintLimitHolds'
  <2>1. \A s \in Sessions : PrintsOf(s)' = PrintsOf(s)
    BY <1>1 DEF PrintsOf
  <2> QED BY <2>1 DEF PrintLimitHolds
<1>2. ASSUME NEW k \in Kinds, NEW t \in Sessions \cup {NoSession}, Enqueue(k, t),
             k = "print" => Cardinality(PrintsOf(t)) < PrintLimit
      PROVE  PrintLimitHolds'
  <2>1. created + 1 \in JobIds
    BY <1>2 DEF TypeOK, Enqueue, JobIds, QueueAssumption
  <2>2. \A j \in JobIds \ {created + 1} : kind'[j] = kind[j] /\ session'[j] = session[j]
    BY <1>2 DEF TypeOK, Enqueue
  <2>3. kind'[created + 1] = k /\ session'[created + 1] = t
    BY <1>2, <2>1 DEF TypeOK, Enqueue
  <2>4. ASSUME NEW s \in Sessions
        PROVE  Cardinality(PrintsOf(s))' <= PrintLimit
    <3>1. created + 1 \notin PrintsOf(s)
      BY NotNew DEF PrintsOf
    <3>2. CASE k = "print" /\ s = t
      <4>1. PrintsOf(s)' = PrintsOf(s) \cup {created + 1}
        BY <2>1, <2>2, <2>3, <3>1, <3>2 DEF PrintsOf
      <4>2. Cardinality(PrintsOf(s))' = Cardinality(PrintsOf(s)) + 1
        BY <3>1, <4>1, PrintsFinite, FS_AddElement
      <4>3. Cardinality(PrintsOf(s)) \in Nat /\ PrintLimit \in Nat
        BY PrintsFinite DEF QueueAssumption
      <4> QED BY <1>2, <3>2, <4>2, <4>3
    <3>3. CASE ~(k = "print" /\ s = t)
      <4>1. PrintsOf(s)' = PrintsOf(s)
        BY <2>1, <2>2, <2>3, <3>1, <3>3 DEF PrintsOf
      <4> QED BY <4>1 DEF PrintLimitHolds
    <3> QED BY <3>2, <3>3
  <2> QED BY <2>4 DEF PrintLimitHolds
<1>3. ASSUME NEW w \in Workers, WorkerStep(w)
      PROVE  kind' = kind /\ session' = session
  BY <1>3, WorkStepTable
  DEF WorkerStep, ClaimStep, ClaimWon, ClaimLost, Verdict, TableStays, table
<1> QED
  BY <1>1, <1>2, <1>3, OtherStepTable DEF EnqueueUpload, SubmitPrint,
     TableStays, Kinds
-----------------------------------------------------------------------------
(* The inductive invariant.                                                  *)
IInv ==
  /\ TypeOK
  /\ HandOK
  /\ CandidatesOK
  /\ StopOK
  /\ RowsOK
  /\ ClaimedByOne
  /\ Covered
  /\ DeadIffSpent
  /\ ClaimedIsHeldOrStranded
  /\ PrintLimitHolds

LEMMA InitIInv == ASSUME QueueAssumption, Init PROVE IInv
<1>1. TypeOK
  BY DEF Init, TypeOK, QueueAssumption, Kinds
<1>2. HandOK /\ CandidatesOK /\ StopOK /\ ClaimedByOne
  BY DEF Init, HandOK, CandidatesOK, StopOK, ClaimedByOne, Holding
<1>3. RowsOK
  BY DEF Init, RowsOK, JobIds
<1>4. Covered
  BY DEF Init, Covered, CoveredOK, OneCopyPerAttempt, DoneWasDelivered
<1>5. DeadIffSpent /\ ClaimedIsHeldOrStranded
  BY DEF Init, DeadIffSpent, ClaimedIsHeldOrStranded, QueueAssumption
<1>6. PrintLimitHolds
  <2>1. \A s \in Sessions : PrintsOf(s) = {}
    BY DEF Init, PrintsOf
  <2> QED
    BY <2>1, FS_EmptySet DEF PrintLimitHolds, QueueAssumption
<1> QED
  BY <1>1, <1>2, <1>3, <1>4, <1>5, <1>6 DEF IInv

LEMMA InductiveIInv == ASSUME QueueAssumption, IInv, [Next]_vars PROVE IInv'
<1>1. TypeOK' /\ HandOK' /\ StopOK'
  BY TypeStep, HandStep, StopStep DEF IInv
<1>2. RowsOK' /\ CandidatesOK'
  BY RowsStep, CandidatesStep DEF IInv
<1>3. ClaimedByOne' /\ Covered'
  BY ClaimedByOneStep, CoveredStep DEF IInv
<1>4. DeadIffSpent'
  BY RowChange, SpentStep DEF IInv
<1>5. ClaimedIsHeldOrStranded'
  BY AccountStep DEF IInv
<1>6. PrintLimitHolds'
  BY PrintLimitStep DEF IInv
<1> QED
  BY <1>1, <1>2, <1>3, <1>4, <1>5, <1>6 DEF IInv

LEMMA Invariance == Spec => []IInv
<1>1. Init => IInv
  BY InitIInv, QueueAssumption
<1>2. IInv /\ [Next]_vars => IInv'
  BY InductiveIInv, QueueAssumption
<1> QED
  BY <1>1, <1>2, PTL DEF Spec

(* The variables keep their types.                                           *)
THEOREM TypeCorrect == Spec => []TypeOK
  BY Invariance, PTL DEF IInv

(* No two workers, coroutines or threads, ever hold the same job, and a job  *)
(* in hand is marked as claimed (claim()'s conditional UPDATE).              *)
THEOREM NoDoubleClaim == Spec => []ClaimedByOne
  BY Invariance, PTL DEF IInv

(* 'done' is only ever written for what arrived, through any crash.          *)
THEOREM DoneIsDelivered == Spec => []DoneWasDelivered
<1>1. IInv => DoneWasDelivered
  BY DEF IInv, Covered
<1> QED BY <1>1, Invariance, PTL

(* Crashes and restarts never duplicate a delivery: every copy but one is    *)
(* paid for by a recorded failed attempt.                                    *)
THEOREM CopiesArePaidFor == Spec => []OneCopyPerAttempt
<1>1. IInv => OneCopyPerAttempt
  BY DEF IInv, Covered
<1> QED BY <1>1, Invariance, PTL

(* Dead letters are the jobs whose attempts are used up, and no others.      *)
THEOREM DeadLettersAreSpent == Spec => []DeadIffSpent
  BY Invariance, PTL DEF IInv

(* A claimed row is in a worker's hand, or a lost worker left it behind.     *)
THEOREM ClaimsAccountedFor == Spec => []ClaimedIsHeldOrStranded
  BY Invariance, PTL DEF IInv

(* Together: done and dead are earned, for any number of workers and jobs.   *)
THEOREM VerdictsEarned == Spec => []VerdictsJustified
  BY DoneIsDelivered, DeadLettersAreSpent, PTL DEF VerdictsJustified

(* The session print limit holds for any number of sessions and jobs.        *)
THEOREM PrintsLimited == Spec => []PrintLimitHolds
  BY Invariance, PTL DEF IInv

(* Together: no job and no session prints more than it may.                  *)
THEOREM PaperBounded == Spec => []CopiesBounded
  BY CopiesArePaidFor, PrintsLimited, PTL DEF CopiesBounded
-----------------------------------------------------------------------------
(* A job that is done or dead keeps its verdict, its attempts and its copies. *)
THEOREM VerdictIsFinal == Spec => SettledIsFinal
<1>1. ASSUME IInv, [Next]_vars
      PROVE  \A j \in JobIds : status[j] \in {"done", "dead"} =>
               status'[j] = status[j] /\ attempts'[j] = attempts[j] /\ effects'[j] = effects[j]
  <2>1. OneRowChanges
    BY <1>1, RowChange, QueueAssumption DEF IInv
  <2>2. \A j \in JobIds : status[j] \in {"done", "dead"} =>
          status'[j] = status[j] /\ attempts'[j] = attempts[j]
    BY <1>1, <2>1 DEF OneRowChanges, RowStep, IInv, TypeOK
  <2>3. ASSUME NEW j \in JobIds, status[j] # "claimed", NEW w \in Workers, Deliver(w)
        PROVE  effects'[j] = effects[j]
    <3>1. j # job[w]
      BY <1>1, <2>3 DEF IInv, ClaimedByOne, Deliver, Holding
    <3> QED
      BY <1>1, <2>3, <3>1 DEF IInv, TypeOK, Deliver
  <2>4. effects' = effects \/ \E w \in Workers : Deliver(w)
    <3>1. \A w \in Workers : WorkerStep(w) => effects' = effects \/ Deliver(w)
      BY <1>1, WorkStepTable
      DEF IInv, WorkerStep, ClaimStep, ClaimWon, ClaimLost, Verdict
    <3> QED
      BY <1>1, <3>1, OtherStepTable
  <2> QED
    BY <2>2, <2>3, <2>4
<1>2. IInv /\ [Next]_vars =>
        [\A j \in JobIds : status[j] \in {"done", "dead"} =>
           status'[j] = status[j] /\ attempts'[j] = attempts[j] /\ effects'[j] = effects[j]]_vars
  BY <1>1
<1> QED
  BY <1>2, Invariance, PTL DEF Spec, SettledIsFinal
-----------------------------------------------------------------------------
(* Each change of a row is a step of the promised queue, or none.            *)
LEMMA RefinesStep ==
  ASSUME QueueAssumption, TypeOK, DeadIffSpent, OneRowChanges
  PROVE  Durable!Next \/ UNCHANGED <<Fate, attempts>>
<1>1. CASE UNCHANGED <<status, attempts>>
  BY <1>1 DEF Fate
<1>2. ASSUME NEW j \in JobIds, RowStep(j),
             status' = [status EXCEPT ![j] = status'[j]],
             attempts' = [attempts EXCEPT ![j] = attempts'[j]]
      PROVE  Durable!Next \/ UNCHANGED <<Fate, attempts>>
  <2>a. /\ attempts = [i \in JobIds |-> attempts[i]]
        /\ attempts' = [i \in JobIds |-> attempts'[i]]
    BY <1>2 DEF TypeOK
  <2>b. /\ Fate = [i \in JobIds |-> Fate[i]]
        /\ Fate' = [i \in JobIds |-> Fate'[i]]
    BY DEF Fate
  <2>c. \A i \in JobIds : status'[i] = status[i] => Fate'[i] = Fate[i]
    BY DEF Fate
  <2>d. \A i \in JobIds \ {j} : status'[i] = status[i] /\ attempts'[i] = attempts[i]
    BY <1>2 DEF TypeOK
  <2>1. /\ Fate' = [Fate EXCEPT ![j] = Fate'[j]]
        /\ attempts' = [attempts EXCEPT ![j] = attempts'[j]]
    BY <2>a, <2>b, <2>c, <2>d
  <2>2. CASE Fate'[j] = Fate[j] /\ attempts'[j] = attempts[j]
    BY <2>2, <2>a, <2>b, <2>c, <2>d
  <2>3. CASE status[j] = "none" /\ status'[j] = "pending" /\ attempts'[j] = attempts[j]
    <3>0. attempts' = attempts
      BY <2>3, <2>a, <2>d
    <3>1. Fate[j] = "absent" /\ Fate'[j] = "queued" /\ attempts' = attempts
      BY <2>3, <3>0 DEF Fate
    <3>2. Durable!Accept(j)
      BY <2>1, <3>1 DEF Durable!Accept
    <3> QED BY <3>2 DEF Durable!Next
  <2>4. CASE status[j] = "claimed" /\ status'[j] = "done" /\ attempts'[j] = attempts[j]
    <3>0. attempts' = attempts
      BY <2>4, <2>a, <2>d
    <3>1. Fate[j] = "queued" /\ Fate'[j] = "done" /\ attempts' = attempts
      BY <2>4, <3>0 DEF Fate
    <3>2. Durable!Succeed(j)
      BY <2>1, <3>1 DEF Durable!Succeed
    <3> QED BY <3>2 DEF Durable!Next
  <2>5. CASE /\ status[j] = "claimed" /\ attempts'[j] = attempts[j] + 1
             /\ status'[j] = IF attempts[j] + 1 >= MaxAttempts THEN "dead" ELSE "pending"
    <3>0. attempts[j] \in Nat /\ MaxAttempts \in Nat
      BY DEF TypeOK, QueueAssumption
    <3>1. Fate[j] = "queued" /\ attempts' = [attempts EXCEPT ![j] = @ + 1]
      BY <2>1, <2>5 DEF TypeOK, Fate
    <3>2. CASE attempts[j] + 1 >= MaxAttempts
      <4>1. Fate' = [Fate EXCEPT ![j] = "dead"]
        BY <2>1, <2>5, <3>2 DEF Fate
      <4>2. Durable!GiveUp(j)
        BY <3>1, <3>2, <4>1 DEF Durable!GiveUp
      <4> QED BY <4>2 DEF Durable!Next
    <3>3. CASE attempts[j] + 1 < MaxAttempts
      <4>1. Fate'[j] = "queued"
        BY <2>5, <3>0, <3>3 DEF Fate
      <4>2. Fate' = Fate
        BY <2>1, <3>1, <4>1 DEF Fate
      <4>3. Durable!Retry(j)
        BY <3>1, <3>3, <4>2 DEF Durable!Retry
      <4> QED BY <4>3 DEF Durable!Next
    <3> QED BY <3>0, <3>2, <3>3
  <2>6. status[j] = "pending" /\ status'[j] = "claimed" => Fate'[j] = Fate[j]
    BY DEF Fate
  <2>7. status'[j] = status[j] => Fate'[j] = Fate[j]
    BY DEF Fate
  <2> QED
    BY <1>2, <2>2, <2>3, <2>4, <2>5, <2>6, <2>7 DEF RowStep
<1> QED
  BY <1>1, <1>2 DEF OneRowChanges

(* The jobs table, its workers, crashes and restarts implement the promised  *)
(* queue: nothing accepted is lost, nothing is tried more than MaxAttempts   *)
(* times, and only what is spent is given up.                                *)
THEOREM QueueRefinesPromise == Spec => ImplementsDurableQueue
<1>1. Init => Durable!Init
  BY DEF Init, Durable!Init, Fate
<1>2. IInv /\ [Next]_vars => [Durable!Next]_(Durable!vars)
  BY RowChange, RefinesStep, QueueAssumption DEF IInv, Durable!vars
<1> QED
  BY <1>1, <1>2, Invariance, PTL DEF Spec, ImplementsDurableQueue, Durable!Spec
-----------------------------------------------------------------------------
(* In one event loop, what claim() selected is still due when it updates.    *)
FreshOK ==
  \A w \in Workers : /\ cand[w] # {} => phase[w] = "claiming"
                     /\ ~Threads => \A j \in cand[w] : due[j] <= 0

LEMMA FreshStep ==
  ASSUME TypeOK, StopOK, FreshOK, [Next]_vars
  PROVE  FreshOK'
<1>1. ASSUME NEW w \in Workers, NEW j \in JobIds, ClaimWon(w, j) \/ ClaimLost(w, j)
      PROVE  FreshOK'
  <2>1. due' = due /\ cand'[w] \subseteq cand[w] /\ (cand'[w] # {} => phase'[w] = "claiming")
    <3>1. CASE ClaimWon(w, j)
      BY <3>1 DEF TypeOK, ClaimWon
    <3>2. CASE ClaimLost(w, j)
      <4>1. due' = due /\ cand'[w] = cand[w] \ {j}
        BY <3>2 DEF TypeOK, ClaimLost, table
      <4>2. phase'[w] = IF cand[w] = {j} THEN "ready" ELSE "claiming"
        BY <3>2 DEF TypeOK, ClaimLost
      <4> QED BY <4>1, <4>2
    <3> QED BY <1>1, <3>1, <3>2
  <2>2. \A v \in Workers \ {w} : phase'[v] = phase[v] /\ cand'[v] = cand[v]
    BY <1>1 DEF TypeOK, ClaimWon, ClaimLost
  <2> QED
    BY <2>1, <2>2 DEF FreshOK
<1>2. ASSUME NEW w \in Workers, Undisturbed, WorkStep(w)
      PROVE  FreshOK'
  <2>1. \A v \in Workers \ {w} : phase'[v] = phase[v] /\ cand'[v] = cand[v]
    BY <1>2, OthersStay
  <2>2. CASE ClaimSelect(w)
    <3>1. due' = due /\ phase'[w] = "claiming" /\ \A j \in cand'[w] : due[j] <= 0
      BY <2>2 DEF TypeOK, ClaimSelect, Eligible, table
    <3> QED
      BY <2>1, <3>1 DEF FreshOK
  <2>3. CASE ~ClaimSelect(w)
    <3>1. cand' = cand /\ phase[w] # "claiming"
      BY <1>2, <2>3 DEF WorkStep, Deliver, Complete, Fail, HandlerRaises,
         WorkerDies,
                        WorkerStops, Release
    <3>2. cand'[w] = {}
      BY <3>1 DEF FreshOK
    <3>3. ~Threads => \A v \in Workers : cand'[v] = {}
      BY <1>2, <3>1 DEF Undisturbed, FreshOK
    <3> QED
      BY <2>1, <3>2, <3>3 DEF FreshOK
  <2> QED BY <2>2, <2>3
<1>3. ASSUME Tick
      PROVE  FreshOK'
  <2>1. ASSUME NEW j \in JobIds, due[j] <= 0
        PROVE  due'[j] <= 0
    <3>1. due[j] \in Int
      BY DEF TypeOK
    <3>2. due'[j] = IF due[j] > 0 THEN due[j] - 1 ELSE due[j]
      BY <1>3 DEF Tick
    <3> QED BY <2>1, <3>1, <3>2
  <2>2. cand' = cand /\ phase' = phase
    BY <1>3 DEF Tick, workers
  <2> QED
    BY <2>1, <2>2 DEF FreshOK, TypeOK
<1>4. ASSUME Killed \/ Boot
      PROVE  FreshOK'
  <2>1. \A w \in Workers : cand'[w] = {}
    BY <1>4 DEF Killed, Crash, StopFails, ProcessEnds, Boot, StopOK, FreshOK
  <2> QED BY <2>1 DEF FreshOK
<1>5. ASSUME UNCHANGED <<workers, due>>
      PROVE  FreshOK'
  BY <1>5 DEF FreshOK, workers
<1>6. Client \/ BeginStop \/ PrintStopped \/ UploadStopped \/ World \/ UNCHANGED vars
      => UNCHANGED <<workers, due>>
  BY DEF Client, EnqueueUpload, SubmitPrint, Enqueue, BeginStop, PrintStopped,
         UploadStopped, World, GoDown, ComeBack, vars, table
<1> QED
  BY <1>1, <1>2, <1>3, <1>4, <1>5, <1>6 DEF Next, WorkerStep, ClaimStep

(* With the workers as coroutines of one event loop, as web/app.py runs      *)
(* them, no job is claimed before its backoff is over.                       *)
THEOREM OneLoopClaimsDue == ASSUME ~Threads PROVE Spec => NoEarlyClaim
<1>1. Init => FreshOK
  BY DEF Init, FreshOK
<1>2. ASSUME IInv, FreshOK, [Next]_vars
      PROVE  \A j \in JobIds : status[j] = "pending" /\ status'[j] = "claimed" => due[j] <= 0
  <2>1. ASSUME NEW j \in JobIds, status[j] = "pending", status'[j] = "claimed"
        PROVE  \E w \in Workers : j \in cand[w]
    <3>1. ASSUME NEW w \in Workers, NEW i \in JobIds, ClaimWon(w, i)
          PROVE  j \in cand[w]
      BY <1>2, <2>1, <3>1 DEF IInv, TypeOK, ClaimWon, NextCandidate
    <3>2. ASSUME NEW w \in Workers, NEW i \in JobIds, ClaimLost(w, i)
          PROVE  FALSE
      BY <2>1, <3>2 DEF ClaimLost, table
    <3>3. ASSUME NEW w \in Workers, NEW st \in {"pending", "dead", "done"}, NEW n,
                 Verdict(w, st, n)
          PROVE  FALSE
      BY <1>2, <2>1, <3>3 DEF IInv, TypeOK, Verdict
    <3>4. ASSUME NEW w \in Workers, WorkStep(w)
          PROVE  FALSE
      BY <1>2, <2>1, <3>3, <3>4, WorkStepTable DEF IInv, TableStays
    <3>5. ASSUME NEW k \in Kinds, NEW s \in Sessions \cup {NoSession}, Enqueue(k, s)
          PROVE  FALSE
      BY <1>2, <2>1, <3>5 DEF IInv, TypeOK, Enqueue
    <3> QED
      BY <1>2, <2>1, <3>1, <3>2, <3>4, <3>5, OtherStepTable
      DEF EnqueueUpload, SubmitPrint, TableStays, WorkerStep, ClaimStep, Kinds
  <2> QED
    BY <1>2, <2>1 DEF FreshOK
<1>3. IInv /\ FreshOK /\ [Next]_vars => FreshOK'
  BY FreshStep DEF IInv
<1>4. IInv /\ FreshOK /\ [Next]_vars =>
        [\A j \in JobIds : status[j] = "pending" /\ status'[j] = "claimed" => due[j] <= 0]_vars
  BY <1>2
<1> QED
  BY <1>1, <1>3, <1>4, Invariance, PTL DEF Spec, NoEarlyClaim
=============================================================================
