---------------------------- MODULE JobQueueProofs ----------------------------
(***************************************************************************)
(* Proofs about JobQueue, for any number of workers, jobs, attempts and    *)
(* dropped jobs.                                                           *)
(*                                                                         *)
(* finishJob overwrites whatever status it finds, so none of this follows  *)
(* from the queue alone.  It follows from what the holder of a job knows   *)
(* of it (GoodHold) and from the fact that it is the only holder.          *)
(***************************************************************************)
EXTENDS JobQueue, SequenceTheorems, FiniteSetTheorems, TLAPS

\* What is true of every row of the table.
GoodJob(x) ==
  /\ x.attempts <= MaxAttempts
  /\ x.status = "pending" => x.attempts < MaxAttempts
  /\ x.status = "failed" => x.attempts = MaxAttempts
  /\ x.checks <= x.attempts
  /\ x.status = "completed" /\ ~SilentErrors => x.checks > 0
  /\ ~x.due => x.status = "pending"

\* What a worker in state q may rely on, x being the job it holds.
GoodHold(q, x) ==
  /\ q.pc # "failing" \/ ~LostReplies => x.status = "processing"
  /\ x.status # "pending"
  /\ q.pc = "claimed" => x.checks < x.attempts
  /\ q.pc = "checked" => x.checks > 0
  /\ q.silent => SilentErrors

Exclusive ==
  \A v, w \in Holding : worker[v].job = worker[w].job => v = w

\* INSERT statements are PostgreSQL's.
OnlyPostgresInserts == storageDriver = "json" => \A e \in Enqueuers : enqueuing[e] = NoKey

IInv ==
  /\ TypeOK
  /\ OnlyPostgresInserts
  /\ Exclusive
  /\ \A j \in DOMAIN jobs : GoodJob(jobs[j])
  /\ \A w \in Holding : /\ worker[w].job \in DOMAIN jobs
                        /\ GoodHold(worker[w], jobs[worker[w].job])

-----------------------------------------------------------------------------

\* Every row of the table is a job.
LEMMA JobAt ==
  ASSUME TypeOK, NEW j \in DOMAIN jobs
  PROVE  j \in Nat /\ jobs[j] \in Job
BY LenProperties, ElementOfSeq DEF TypeOK

\* One row of the table is replaced, the others are left alone.
Replaces(j, x) ==
  /\ jobs' \in Seq(Job)
  /\ DOMAIN jobs' = DOMAIN jobs
  /\ jobs'[j] = x
  /\ \A i \in DOMAIN jobs \ {j} : jobs'[i] = jobs[i]

\* An update of one row replaces it.
LEMMA ReplacedBy ==
  ASSUME TypeOK, NEW j \in DOMAIN jobs, NEW x \in Job,
         jobs' = [jobs EXCEPT ![j] = x]
  PROVE  Replaces(j, x)
BY LenProperties, ExceptSeq DEF TypeOK, Replaces

\* A step that leaves the table alone replaces a row by itself.
LEMMA ReplacedByItself ==
  ASSUME TypeOK, NEW j \in DOMAIN jobs, jobs' = jobs
  PROVE  Replaces(j, jobs[j])
BY DEF TypeOK, Replaces

\* What a worker's step does beside the table and itself.
Aside == losses' \in Nat /\ UNCHANGED <<storageDriver, enqueuing>>

\* A worker that is alone with job j may rewrite it and go on, if it leaves a
\* good row and keeps what it relies on.
LEMMA HolderMoves ==
  ASSUME IInv, NEW w \in Workers, NEW j \in DOMAIN jobs, NEW x \in Job,
         NEW next \in Worker,
         Replaces(j, x), GoodJob(x),
         worker' = [worker EXCEPT ![w] = next], Aside,
         \A v \in Holding \ {w} : worker[v].job # j,
         next.pc # "idle" => next.job = j /\ GoodHold(next, x)
  PROVE  IInv'
<1>1. worker \in [Workers -> Worker]
  BY DEF IInv, TypeOK
<1>2. /\ worker' \in [Workers -> Worker]
      /\ worker'[w] = next
      /\ \A v \in Workers \ {w} : worker'[v] = worker[v]
  BY <1>1
<1>3. TypeOK'
  BY <1>2 DEF IInv, TypeOK, Replaces, Aside
<1>4. Holding' \ {w} = Holding \ {w} /\ (w \in Holding' => next.pc # "idle")
  BY <1>2 DEF Holding
<1>5. Exclusive'
  BY <1>2, <1>4 DEF IInv, Exclusive, Holding
<1>6. \A i \in DOMAIN jobs' : GoodJob(jobs'[i])
  BY DEF IInv, Replaces
<1>7. ASSUME NEW v \in Holding'
      PROVE  worker'[v].job \in DOMAIN jobs' /\ GoodHold(worker'[v], jobs'[worker'[v].job])
  <2>1. CASE v = w
    BY <1>2, <1>4, <1>7, <2>1 DEF Replaces
  <2>2. CASE v # w
    BY <1>2, <1>4, <1>7, <2>2 DEF IInv, Replaces, Holding
  <2> QED
    BY <2>1, <2>2
<1> QED
  BY <1>3, <1>5, <1>6, <1>7 DEF IInv, OnlyPostgresInserts, Aside, GoodJob, GoodHold

\* What the worker at work on a job knows.
LEMMA HolderKnows ==
  ASSUME IInv, NEW w \in Workers, worker[w].pc # "idle"
  PROVE  /\ worker[w].job \in DOMAIN jobs
         /\ jobs[worker[w].job] \in Job /\ GoodJob(jobs[worker[w].job])
         /\ GoodHold(worker[w], jobs[worker[w].job])
         /\ \A v \in Holding \ {w} : worker[v].job # worker[w].job
         /\ worker[w] \in Worker
         /\ losses \in Nat
BY JobAt DEF IInv, Exclusive, Holding, TypeOK

\* An idle worker is well formed.
LEMMA IdleWorker == Idle \in Worker /\ Idle.pc = "idle"
BY DEF Idle, Worker, NoJob

-----------------------------------------------------------------------------

\* The empty table with idle workers is a good start.
LEMMA IInvInit == Init => IInv
<1> SUFFICES ASSUME Init PROVE IInv
  OBVIOUS
<1>1. TypeOK
  BY IdleWorker DEF Init, TypeOK
<1>2. Holding = {}
  BY DEF Init, Holding, Idle
<1> QED
  BY <1>1, <1>2 DEF IInv, Exclusive, Init, OnlyPostgresInserts

\* A step that inserts a job for key and touches no worker.
Inserts(key) ==
  /\ jobs' = Append(jobs, NewJob(key))
  /\ UNCHANGED <<storageDriver, worker, losses>>

\* Both drivers insert in the end.
LEMMA InsertsByDriver ==
  ASSUME IInv
  PROVE  /\ \A key \in Keys : Enqueue(key) => Inserts(key) /\ UNCHANGED enqueuing
         /\ \A e \in Enqueuers : Insert(e) => enqueuing[e] \in Keys /\ Inserts(enqueuing[e])
BY DEF IInv, TypeOK, Enqueue, Insert, Inserts

\* The table after an insert.
LEMMA Appended ==
  ASSUME IInv, NEW key \in Keys, Inserts(key)
  PROVE  /\ NewJob(key) \in Job /\ GoodJob(NewJob(key)) /\ NewJob(key).key = key
         /\ jobs' \in Seq(Job) /\ Len(jobs) \in Nat
         /\ DOMAIN jobs = 1..Len(jobs) /\ DOMAIN jobs' = 1..(Len(jobs) + 1)
         /\ \A i \in 1..Len(jobs) : jobs'[i] = jobs[i]
         /\ jobs'[Len(jobs) + 1] = NewJob(key)
<1>1. NewJob(key) \in Job /\ GoodJob(NewJob(key)) /\ NewJob(key).key = key
  BY QueueAssumption DEF Job, GoodJob, NewJob
<1> QED
  BY <1>1, AppendProperties, LenProperties DEF Inserts, IInv, TypeOK

\* A new job is a good row that nobody holds.
LEMMA InsertsKeeps ==
  ASSUME IInv, NEW key \in Keys, Inserts(key),
         enqueuing' \in [Enqueuers -> Keys \cup {NoKey}], OnlyPostgresInserts'
  PROVE  IInv'
<1>1. /\ jobs' \in Seq(Job)
      /\ \A i \in DOMAIN jobs : i \in DOMAIN jobs' /\ jobs'[i] = jobs[i]
      /\ \A i \in DOMAIN jobs' : GoodJob(jobs'[i])
  BY Appended DEF IInv
<1>2. worker' = worker /\ losses' = losses /\ storageDriver' = storageDriver /\ Holding' = Holding
  BY DEF Inserts, Holding
<1> QED
  BY <1>1, <1>2 DEF IInv, TypeOK, Exclusive, GoodJob, GoodHold

\* Whatever becomes of an enqueue, rows and workers stay good.
LEMMA EnqueueKeeps ==
  ASSUME IInv,
         \/ \E key \in Keys : Enqueue(key) \/ \E e \in Enqueuers : BeginEnqueue(e, key)
         \/ \E e \in Enqueuers : Insert(e) \/ InsertFails(e)
  PROVE  IInv'
<1>1. ASSUME NEW key \in Keys, Enqueue(key) PROVE IInv'
  BY <1>1, InsertsByDriver, InsertsKeeps DEF IInv, TypeOK, OnlyPostgresInserts, Inserts
<1>2. ASSUME NEW e \in Enqueuers, Insert(e) PROVE IInv'
  <2>1. enqueuing' \in [Enqueuers -> Keys \cup {NoKey}] /\ OnlyPostgresInserts'
    BY <1>2 DEF Insert, IInv, TypeOK, OnlyPostgresInserts
  <2> QED
    BY <1>2, <2>1, InsertsByDriver, InsertsKeeps
<1>3. ASSUME NEW e \in Enqueuers, NEW key \in Keys, BeginEnqueue(e, key)
      PROVE  IInv'
  <2>1. enqueuing' \in [Enqueuers -> Keys \cup {NoKey}] /\ OnlyPostgresInserts'
    BY <1>3 DEF BeginEnqueue, IInv, TypeOK, OnlyPostgresInserts
  <2>2. UNCHANGED <<storageDriver, jobs, worker, losses>> /\ Holding' = Holding
    BY <1>3 DEF BeginEnqueue, Holding
  <2> QED
    BY <2>1, <2>2 DEF IInv, TypeOK, Exclusive, GoodJob, GoodHold
<1>4. ASSUME NEW e \in Enqueuers, InsertFails(e) PROVE IInv'
  <2>1. enqueuing' \in [Enqueuers -> Keys \cup {NoKey}] /\ OnlyPostgresInserts'
    BY <1>4 DEF InsertFails, IInv, TypeOK, OnlyPostgresInserts
  <2>2. UNCHANGED <<storageDriver, jobs, worker, losses>> /\ Holding' = Holding
    BY <1>4 DEF InsertFails, Holding
  <2> QED
    BY <2>1, <2>2 DEF IInv, TypeOK, Exclusive, GoodJob, GoodHold
<1> QED
  BY <1>1, <1>2, <1>3, <1>4

\* The end of a back-off keeps the invariant: nobody holds a pending job.
LEMMA ComesDueKeeps ==
  ASSUME IInv, NEW j \in DOMAIN jobs, ComesDue(j)
  PROVE  IInv'
<1> DEFINE x == [jobs[j] EXCEPT !.due = TRUE]
<1>1. jobs[j] \in Job /\ GoodJob(jobs[j]) /\ jobs[j].status = "pending"
  BY JobAt DEF IInv, ComesDue, GoodJob
<1>2. x \in Job /\ GoodJob(x)
  BY <1>1 DEF Job, GoodJob
<1>3. jobs' = [jobs EXCEPT ![j] = x]
  BY DEF ComesDue
<1>4. Replaces(j, x)
  BY <1>2, <1>3, ReplacedBy DEF IInv
<1>5. UNCHANGED <<storageDriver, enqueuing, worker, losses>> /\ Holding' = Holding
  BY DEF ComesDue, Holding
<1>6. \A w \in Holding : worker[w].job # j
  BY <1>1 DEF IInv, GoodHold
<1>7. \A i \in DOMAIN jobs' : GoodJob(jobs'[i])
  BY <1>2, <1>4 DEF IInv, Replaces
<1>8. \A w \in Holding : /\ worker[w].job \in DOMAIN jobs'
                         /\ GoodHold(worker[w], jobs'[worker[w].job])
  BY <1>4, <1>6 DEF IInv, Replaces
<1> QED
  BY <1>4, <1>5, <1>7, <1>8 DEF IInv, TypeOK, OnlyPostgresInserts, Exclusive, Replaces, GoodJob, GoodHold

\* claimJob takes a pending job, which no worker holds.
LEMMA ClaimKeeps ==
  ASSUME IInv, NEW w \in Workers, Claim(w)
  PROVE  IInv'
<1>1. PICK j \in DOMAIN jobs :
        /\ Candidate(j)
        /\ jobs' = [jobs EXCEPT ![j] = [@ EXCEPT !.status = "processing",
                                                 !.attempts = jobs[j].attempts + 1]]
        /\ worker' = [worker EXCEPT ![w] = [Idle EXCEPT !.pc = "claimed", !.job = j]]
  BY DEF Claim
<1> DEFINE x == [jobs[j] EXCEPT !.status = "processing", !.attempts = jobs[j].attempts + 1]
           next == [Idle EXCEPT !.pc = "claimed", !.job = j]
<1>2. j \in Nat /\ jobs[j] \in Job /\ GoodJob(jobs[j])
      /\ jobs[j].status = "pending" /\ jobs[j].due
  BY <1>1, JobAt DEF IInv, Candidate, Claimable
<1>3. x \in Job /\ GoodJob(x) /\ next \in Worker
  <2>1. x \in Job
    <3>1. jobs[j].attempts + 1 \in Nat /\ jobs[j] \in Job
      BY <1>2 DEF Job
    <3> QED
      BY <3>1 DEF Job
  <2>2. GoodJob(x)
    BY <1>2, QueueAssumption DEF Job, GoodJob
  <2>3. next \in Worker
    BY <1>2 DEF Worker, Idle, NoJob
  <2> QED
    BY <2>1, <2>2, <2>3
<1>4. GoodHold(next, x) /\ next.job = j
  BY <1>2 DEF Job, GoodJob, GoodHold, Idle
<1>5. /\ jobs' = [jobs EXCEPT ![j] = x]
      /\ worker' = [worker EXCEPT ![w] = next]
  BY <1>1
<1> HIDE DEF x, next
<1>6. Replaces(j, x)
  BY <1>3, <1>5, ReplacedBy DEF IInv
<1>7. \A v \in Holding \ {w} : worker[v].job # j
  BY <1>2 DEF IInv, GoodHold
<1>8. Aside
  BY DEF Claim, IInv, TypeOK, Aside
<1> QED
  BY <1>3, <1>4, <1>5, <1>6, <1>7, <1>8, HolderMoves

\* The rows the holder of a job may leave behind.
LEMMA CompletedRow ==
  ASSUME NEW x \in Job, GoodJob(x), x.status # "pending", x.checks > 0 \/ SilentErrors
  PROVE  /\ [x EXCEPT !.status = "completed"] \in Job
         /\ GoodJob([x EXCEPT !.status = "completed"])
BY QueueAssumption DEF Job, GoodJob

\* A run that has attempts left may add its verdict.
LEMMA CheckedRow ==
  ASSUME NEW x \in Job, GoodJob(x), x.checks < x.attempts
  PROVE  /\ [x EXCEPT !.checks = x.checks + 1] \in Job
         /\ GoodJob([x EXCEPT !.checks = x.checks + 1])
BY QueueAssumption DEF Job, GoodJob

\* A refused job is failed after its last attempt, and pending before.
LEMMA RefusedRow ==
  ASSUME NEW x \in Job, GoodJob(x), x.status # "pending"
  PROVE  LET y == IF x.attempts >= MaxAttempts
                    THEN [x EXCEPT !.status = "failed"]
                    ELSE [x EXCEPT !.status = "pending", !.due = FALSE]
         IN  y \in Job /\ GoodJob(y)
<1>1. CASE x.attempts >= MaxAttempts
  BY <1>1, QueueAssumption DEF Job, GoodJob
<1>2. CASE ~(x.attempts >= MaxAttempts)
  <2> DEFINE y == [x EXCEPT !.status = "pending", !.due = FALSE]
  <2>1. x.attempts \in Nat /\ x.attempts < MaxAttempts
    BY <1>2, QueueAssumption DEF Job
  <2>2. y \in Job /\ y.status = "pending" /\ y.attempts = x.attempts /\ y.checks = x.checks
    BY DEF Job
  <2> HIDE DEF y
  <2>3. GoodJob(y)
    BY <2>1, <2>2 DEF GoodJob
  <2> QED
    BY <1>2, <2>2, <2>3 DEF y
<1> QED
  BY <1>1, <1>2

\* A check writes one verdict at most, made or failed.
LEMMA CheckKeeps ==
  ASSUME IInv, NEW w \in Workers,
         Check(w) \/ \E silent \in BOOLEAN : CheckFails(w, silent)
  PROVE  IInv'
<1>1. PICK j \in DOMAIN jobs : j = worker[w].job
  BY HolderKnows DEF Check, CheckFails
<1> DEFINE x == [jobs[j] EXCEPT !.checks = jobs[j].checks + 1]
<1>2. /\ jobs[j] \in Job /\ GoodJob(jobs[j]) /\ GoodHold(worker[w], jobs[j])
      /\ \A v \in Holding \ {w} : worker[v].job # j
      /\ worker[w] \in Worker /\ Aside /\ worker[w].pc = "claimed"
  BY <1>1, HolderKnows DEF Check, CheckFails, Aside
<1>3. jobs[j].status = "processing" /\ jobs[j].checks < jobs[j].attempts
  BY <1>2 DEF GoodHold
<1>4. x \in Job /\ GoodJob(x) /\ x.status = "processing" /\ x.checks > 0
  <2>1. x \in Job /\ GoodJob(x)
    BY <1>2, <1>3, CheckedRow
  <2> QED
    BY <1>2, <1>3, <2>1 DEF Job
<1>5. jobs' = [jobs EXCEPT ![j] = x] => Replaces(j, x)
  BY <1>4, ReplacedBy DEF IInv
<1>6. jobs' = jobs => Replaces(j, jobs[j])
  BY ReplacedByItself DEF IInv
<1>9. Checked(worker[w].job) = [jobs EXCEPT ![j] = x]
  BY <1>1 DEF Checked
<1> HIDE DEF x
<1>7. CASE Check(w)
  <2> DEFINE next == [worker[w] EXCEPT !.pc = "checked", !.silent = FALSE]
  <2>1. next \in Worker /\ next.job = j /\ GoodHold(next, x)
    BY <1>1, <1>2, <1>4 DEF Worker, GoodHold
  <2>2. Replaces(j, x) /\ worker' = [worker EXCEPT ![w] = next]
    BY <1>9, <1>5, <1>7 DEF Check, Moves
  <2> HIDE DEF next
  <2> QED
    BY <1>2, <1>4, <2>1, <2>2, HolderMoves
<1>8. ASSUME NEW silent \in BOOLEAN, CheckFails(w, silent)
      PROVE  IInv'
  <2> DEFINE next == [worker[w] EXCEPT !.pc = "failing", !.silent = silent]
  <2>1. next \in Worker /\ next.job = j /\ GoodHold(next, x) /\ GoodHold(next, jobs[j])
    BY <1>1, <1>2, <1>3, <1>4, <1>8 DEF Worker, GoodHold, CheckFails
  <2>2. worker' = [worker EXCEPT ![w] = next]
    BY <1>8 DEF CheckFails, Moves
  <2> HIDE DEF next
  <2>3. CASE jobs' = jobs
    BY <1>2, <1>6, <2>1, <2>2, <2>3, HolderMoves
  <2>4. CASE jobs' = [jobs EXCEPT ![j] = x]
    BY <1>2, <1>4, <1>5, <2>1, <2>2, <2>4, HolderMoves
  <2> QED
    BY <1>9, <1>8, <2>3, <2>4 DEF CheckFails
<1> QED
  BY <1>7, <1>8

\* finishJob completes the job its worker holds and has checked.
LEMMA FinishKeeps ==
  ASSUME IInv, NEW w \in Workers,
         Finish(w) \/ \E silent \in BOOLEAN : FinishFails(w, silent)
  PROVE  IInv'
<1>1. PICK j \in DOMAIN jobs : j = worker[w].job
  BY HolderKnows DEF Finish, FinishFails
<1> DEFINE x == [jobs[j] EXCEPT !.status = "completed"]
<1>2. /\ jobs[j] \in Job /\ GoodJob(jobs[j]) /\ GoodHold(worker[w], jobs[j])
      /\ \A v \in Holding \ {w} : worker[v].job # j
      /\ worker[w] \in Worker /\ Aside /\ worker[w].pc = "checked"
  BY <1>1, HolderKnows DEF Finish, FinishFails, Aside
<1>3. jobs[j].status = "processing" /\ jobs[j].checks > 0
  BY <1>2 DEF GoodHold
<1>4. x \in Job /\ GoodJob(x) /\ x.status = "completed"
  <2>1. x \in Job /\ GoodJob(x)
    BY <1>2, <1>3, CompletedRow
  <2> QED
    BY <1>2, <2>1 DEF Job
<1>5. jobs' = [jobs EXCEPT ![j] = x] => Replaces(j, x)
  BY <1>4, ReplacedBy DEF IInv
<1>6. jobs' = jobs => Replaces(j, jobs[j])
  BY ReplacedByItself DEF IInv
<1>9. Completed(worker[w].job) = [jobs EXCEPT ![j] = x]
  BY <1>1 DEF Completed
<1> HIDE DEF x
<1>7. CASE Finish(w)
  <2>1. Replaces(j, x) /\ worker' = [worker EXCEPT ![w] = Idle]
    BY <1>9, <1>5, <1>7 DEF Finish
  <2> QED
    BY <1>2, <1>4, <2>1, IdleWorker, HolderMoves
<1>8. ASSUME NEW silent \in BOOLEAN, FinishFails(w, silent)
      PROVE  IInv'
  <2> DEFINE next == [worker[w] EXCEPT !.pc = "failing", !.silent = silent]
  <2>1. next \in Worker /\ next.job = j /\ GoodHold(next, jobs[j])
    BY <1>1, <1>2, <1>3, <1>8 DEF Worker, GoodHold, FinishFails
  <2>2. worker' = [worker EXCEPT ![w] = next]
    BY <1>8 DEF FinishFails, Moves
  <2>3. jobs' = jobs \/ (LostReplies /\ jobs' = [jobs EXCEPT ![j] = x])
    <3>1. jobs' = jobs \/ (LostReplies /\ jobs' = Completed(worker[w].job))
      BY <1>8 DEF FinishFails, LosesReplies
    <3> QED
      BY <1>9, <3>1
  <2>4. next.pc = "failing" /\ (next.silent => SilentErrors)
    BY <1>2, <1>8 DEF FinishFails, Worker
  <2> HIDE DEF next
  <2>5. CASE jobs' = jobs
    BY <1>2, <1>6, <2>1, <2>2, <2>5, HolderMoves
  <2>6. CASE LostReplies /\ jobs' = [jobs EXCEPT ![j] = x]
    <3>1. GoodHold(next, x)
      BY <1>4, <2>6, <2>4 DEF GoodHold
    <3> QED
      BY <1>2, <1>4, <1>5, <2>1, <2>2, <2>6, <3>1, HolderMoves
  <2> QED
    BY <2>3, <2>5, <2>6
<1> QED
  BY <1>7, <1>8

\* The catch block settles or returns the job its worker holds.
LEMMA ReportKeeps ==
  ASSUME IInv, NEW w \in Workers, Report(w)
  PROVE  IInv'
<1>1. PICK j \in DOMAIN jobs : j = worker[w].job
  BY HolderKnows DEF Report
<1>2. /\ jobs[j] \in Job /\ GoodJob(jobs[j]) /\ GoodHold(worker[w], jobs[j])
      /\ \A v \in Holding \ {w} : worker[v].job # j
      /\ Aside
  BY <1>1, HolderKnows DEF Report, Aside
<1>3. worker' = [worker EXCEPT ![w] = Idle]
  BY DEF Report
<1>4. CASE NoMessage(w)
  <2> DEFINE x == [jobs[j] EXCEPT !.status = "completed"]
  <2>1. jobs[j].status # "pending" /\ SilentErrors
    BY <1>2, <1>4 DEF GoodHold, NoMessage
  <2>2. x \in Job /\ GoodJob(x)
    BY <1>2, <2>1, CompletedRow
  <2>3. jobs' = [jobs EXCEPT ![j] = x]
    BY <1>1, <1>4 DEF Report, Completed
  <2>4. Replaces(j, x)
    BY <2>2, <2>3, ReplacedBy DEF IInv
  <2> QED
    BY <1>2, <1>3, <2>2, <2>4, IdleWorker, HolderMoves
<1>5. CASE ~NoMessage(w)
  <2> DEFINE x == IF jobs[j].attempts >= MaxAttempts
                    THEN [jobs[j] EXCEPT !.status = "failed"]
                    ELSE [jobs[j] EXCEPT !.status = "pending", !.due = FALSE]
  <2>1. x \in Job /\ GoodJob(x)
    BY <1>2, RefusedRow DEF GoodHold
  <2>2. jobs' = [jobs EXCEPT ![j] = x]
    BY <1>1, <1>5 DEF Report, Refused
  <2>3. Replaces(j, x)
    BY <2>1, <2>2, ReplacedBy DEF IInv
  <2> QED
    BY <1>2, <1>3, <2>1, <2>3, IdleWorker, HolderMoves
<1> QED
  BY <1>4, <1>5

\* A dropped job has no holder and stays as it is.
LEMMA DropKeeps ==
  ASSUME IInv, NEW w \in Workers, Drop(w)
  PROVE  IInv'
<1>1. PICK j \in DOMAIN jobs : j = worker[w].job
  BY HolderKnows DEF Drop
<1>2. /\ jobs[j] \in Job /\ GoodJob(jobs[j])
      /\ \A v \in Holding \ {w} : worker[v].job # j
      /\ Aside
  BY <1>1, HolderKnows DEF Drop, Aside
<1>3. Replaces(j, jobs[j])
  BY ReplacedByItself DEF IInv, Drop
<1>4. worker' = [worker EXCEPT ![w] = Idle]
  BY DEF Drop
<1> QED
  BY <1>2, <1>3, <1>4, IdleWorker, HolderMoves

\* Every step of queue and workers keeps the invariant.
LEMMA IInvStep ==
  ASSUME IInv, [Next]_vars
  PROVE  IInv'
<1>1. CASE UNCHANGED vars
  <2>1. /\ jobs' = jobs /\ worker' = worker /\ losses' = losses /\ Holding' = Holding
        /\ storageDriver' = storageDriver /\ enqueuing' = enqueuing
    BY <1>1 DEF vars, Holding
  <2> QED
    BY <2>1 DEF IInv, TypeOK, OnlyPostgresInserts, Exclusive, GoodJob, GoodHold
<1> QED
  BY <1>1, EnqueueKeeps, ComesDueKeeps, ClaimKeeps, CheckKeeps, FinishKeeps,
     ReportKeeps, DropKeeps DEF Next, Work

\* Rows are good, and a job has one holder, who knows its status.
THEOREM InductiveInvariant == Spec => []IInv
BY IInvInit, IInvStep, PTL DEF Spec

\* Rows and workers stay well formed.
THEOREM TypeCorrect == Spec => []TypeOK
BY InductiveInvariant, PTL DEF IInv

\* However many workers poll the table, finishJob is called only by the one
\* worker that holds the job, and finds it processing (unless the reply to an
\* earlier finishJob was lost).
THEOREM ExclusiveClaims == Spec => []OneWorkerPerJob
<1>1. IInv => OneWorkerPerJob
  BY DEF IInv, Exclusive, OneWorkerPerJob, GoodHold
<1> QED
  BY <1>1, InductiveInvariant, PTL

\* max_attempts bounds the runs of every job and the verdicts they write,
\* whatever fails and however often; no job fails before its last attempt.
THEOREM BoundedRetries == Spec => []RetriesBounded
<1>1. IInv => RetriesBounded
  BY DEF IInv, GoodJob, RetriesBounded
<1> QED
  BY <1>1, InductiveInvariant, PTL

\* Where every error has a message, a completed job has left its verdict.
THEOREM CompletedMeansChecked ==
  ASSUME ~SilentErrors
  PROVE  Spec => []CompletedWasChecked
<1>1. IInv => CompletedWasChecked
  BY DEF IInv, GoodJob, CompletedWasChecked
<1> QED
  BY <1>1, InductiveInvariant, PTL

\* Where no reply is lost, a step leaves a settled row alone: its holder has let
\* it go, and nobody claims it again.
LEMMA SettledStep ==
  ASSUME ~LostReplies, IInv, NEW j \in DOMAIN jobs, Settled(j), [Next]_vars
  PROVE  jobs'[j] = jobs[j]
<1>1. \A w \in Holding : worker[w].job # j
  BY DEF IInv, GoodHold, Settled
<1>2. ASSUME NEW i \in DOMAIN jobs, NEW x, jobs' = [jobs EXCEPT ![i] = x], i # j
      PROVE  jobs'[j] = jobs[j]
  BY <1>2, JobAt DEF IInv, TypeOK
<1>3. ASSUME NEW key \in Keys, Inserts(key) PROVE jobs'[j] = jobs[j]
  BY <1>3, Appended
<1>4. ASSUME NEW i \in DOMAIN jobs, ComesDue(i) PROVE jobs'[j] = jobs[j]
  BY <1>2, <1>4 DEF ComesDue, IInv, GoodJob, Settled
<1>5. ASSUME NEW w \in Workers, Claim(w) PROVE jobs'[j] = jobs[j]
  BY <1>2, <1>5 DEF Claim, Candidate, Claimable, Settled
<1>6. ASSUME NEW w \in Workers, worker[w].pc # "idle",
             jobs' \in {jobs, Checked(worker[w].job), Completed(worker[w].job),
                        Refused(worker[w].job)}
      PROVE  jobs'[j] = jobs[j]
  <2>1. worker[w].job \in DOMAIN jobs /\ worker[w].job # j
    BY <1>1, <1>6, HolderKnows DEF Holding
  <2> QED
    BY <1>2, <1>6, <2>1 DEF Checked, Completed, Refused
<1>7. ASSUME NEW w \in Workers, Work(w) \/ Drop(w), ~Claim(w)
      PROVE  /\ worker[w].pc # "idle"
             /\ jobs' \in {jobs, Checked(worker[w].job), Completed(worker[w].job),
                           Refused(worker[w].job)}
  BY <1>7 DEF Work, Check, CheckFails, Finish, FinishFails, Report, Drop
<1>8. CASE jobs' = jobs
  BY <1>8
<1>9. ASSUME NEW e \in Enqueuers, InsertFails(e) \/ \E key \in Keys : BeginEnqueue(e, key)
      PROVE  jobs' = jobs
  BY <1>9 DEF InsertFails, BeginEnqueue
<1> QED
  BY <1>3, <1>4, <1>5, <1>6, <1>7, <1>8, <1>9, InsertsByDriver DEF Next, Work, vars

\* The step inserts a row.
Enqueued == (\E key \in Keys : Enqueue(key)) \/ (\E e \in Enqueuers : Insert(e))

\* A step that inserts nothing leaves every row its key.
LEMMA KeysStep ==
  ASSUME IInv, [Next]_vars, ~Enqueued
  PROVE  DOMAIN jobs' = DOMAIN jobs /\ \A j \in DOMAIN jobs : jobs'[j].key = jobs[j].key
<1>1. \A j \in DOMAIN jobs : jobs[j] \in Job
  BY JobAt DEF IInv
<1>2. ASSUME NEW i \in DOMAIN jobs, NEW x, x.key = jobs[i].key, jobs' = [jobs EXCEPT ![i] = x]
      PROVE  DOMAIN jobs' = DOMAIN jobs /\ \A j \in DOMAIN jobs : jobs'[j].key = jobs[j].key
  BY <1>2
<1>3. ASSUME NEW i \in DOMAIN jobs, ComesDue(i)
      PROVE  DOMAIN jobs' = DOMAIN jobs /\ \A j \in DOMAIN jobs : jobs'[j].key = jobs[j].key
  <2>1. [jobs[i] EXCEPT !.due = TRUE].key = jobs[i].key
    BY <1>1 DEF Job
  <2> QED
    BY <1>2, <1>3, <2>1 DEF ComesDue
<1>4. ASSUME NEW w \in Workers, Claim(w)
      PROVE  DOMAIN jobs' = DOMAIN jobs /\ \A j \in DOMAIN jobs : jobs'[j].key = jobs[j].key
  <2>1. PICK i \in DOMAIN jobs :
          jobs' = [jobs EXCEPT ![i] = [@ EXCEPT !.status = "processing",
                                                !.attempts = jobs[i].attempts + 1]]
    BY <1>4 DEF Claim
  <2>2. [jobs[i] EXCEPT !.status = "processing", !.attempts = jobs[i].attempts + 1].key = jobs[i].key
    BY <1>1 DEF Job
  <2> QED
    BY <1>2, <2>1, <2>2
<1>5. ASSUME NEW i \in DOMAIN jobs, jobs' \in {Checked(i), Completed(i), Refused(i)}
      PROVE  DOMAIN jobs' = DOMAIN jobs /\ \A j \in DOMAIN jobs : jobs'[j].key = jobs[j].key
  <2>1. /\ [jobs[i] EXCEPT !.checks = jobs[i].checks + 1].key = jobs[i].key
        /\ [jobs[i] EXCEPT !.status = "completed"].key = jobs[i].key
        /\ [jobs[i] EXCEPT !.status = "failed"].key = jobs[i].key
        /\ [jobs[i] EXCEPT !.status = "pending", !.due = FALSE].key = jobs[i].key
    BY <1>1 DEF Job
  <2> QED
    BY <1>2, <1>5, <2>1 DEF Checked, Completed, Refused
<1>6. ASSUME NEW w \in Workers, Work(w) \/ Drop(w), ~Claim(w)
      PROVE  \/ jobs' = jobs
             \/ /\ worker[w].job \in DOMAIN jobs
                /\ jobs' \in {Checked(worker[w].job), Completed(worker[w].job), Refused(worker[w].job)}
  <2>1. worker[w].pc # "idle"
    BY <1>6 DEF Work, Check, CheckFails, Finish, FinishFails, Report, Drop
  <2>2. worker[w].job \in DOMAIN jobs
    BY <2>1, HolderKnows
  <2> QED
    BY <1>6, <2>2 DEF Work, Check, CheckFails, Finish, FinishFails, Report, Drop
<1>7. CASE jobs' = jobs
  BY <1>7
<1>8. ASSUME NEW e \in Enqueuers, InsertFails(e) \/ \E key \in Keys : BeginEnqueue(e, key)
      PROVE  jobs' = jobs
  BY <1>8 DEF InsertFails, BeginEnqueue
<1> QED
  BY <1>3, <1>4, <1>5, <1>6, <1>7, <1>8 DEF Next, Work, Enqueued, vars

\* Where no reply is lost, a step that inserts nothing makes no job live.
LEMMA NothingRevives ==
  ASSUME ~LostReplies, IInv, [Next]_vars, ~Enqueued, NEW key
  PROVE  LiveJobsOf(key)' \subseteq LiveJobsOf(key)
<1>1. DOMAIN jobs' = DOMAIN jobs /\ \A j \in DOMAIN jobs : jobs'[j].key = jobs[j].key
  BY KeysStep
<1>2. \A j \in DOMAIN jobs : Settled(j) => jobs'[j] = jobs[j]
  BY SettledStep
<1>3. \A j \in DOMAIN jobs : Live(j) \/ Settled(j)
  BY JobAt DEF IInv, Live, Settled, Job
<1> QED
  BY <1>1, <1>2, <1>3 DEF LiveJobsOf, Live, Settled

\* An insert adds one live job to those of its key.
LEMMA OneMore ==
  ASSUME IInv, NEW key \in Keys, Inserts(key), NEW k \in Keys
  PROVE  LiveJobsOf(k)' = IF k = key THEN LiveJobsOf(k) \cup {Len(jobs) + 1} ELSE LiveJobsOf(k)
<1>1. /\ NewJob(key).key = key /\ NewJob(key).status = "pending"
      /\ Len(jobs) \in Nat
      /\ DOMAIN jobs = 1..Len(jobs) /\ DOMAIN jobs' = DOMAIN jobs \cup {Len(jobs) + 1}
      /\ \A i \in DOMAIN jobs : jobs'[i] = jobs[i]
      /\ jobs'[Len(jobs) + 1] = NewJob(key)
  <2>1. /\ NewJob(key).key = key /\ NewJob(key).status = "pending"
    BY DEF NewJob
  <2>2. /\ Len(jobs) \in Nat
        /\ DOMAIN jobs = 1..Len(jobs) /\ DOMAIN jobs' = 1..(Len(jobs) + 1)
        /\ \A i \in 1..Len(jobs) : jobs'[i] = jobs[i]
        /\ jobs'[Len(jobs) + 1] = NewJob(key)
    BY Appended
  <2>3. 1..(Len(jobs) + 1) = 1..Len(jobs) \cup {Len(jobs) + 1}
    BY <2>2
  <2> QED
    BY <2>1, <2>2, <2>3
<1> QED
  BY <1>1 DEF LiveJobsOf, Live

\* What is counted can be counted.
LEMMA CountsAreFinite ==
  ASSUME IInv, NEW key \in Keys
  PROVE  /\ IsFiniteSet(LiveJobsOf(key)) /\ Cardinality(LiveJobsOf(key)) \in Nat
         /\ IsFiniteSet(InsertsOf(key)) /\ Cardinality(InsertsOf(key)) \in Nat
         /\ Cardinality(InsertsOf(key)) <= Cardinality(Enqueuers)
         /\ Cardinality(Enqueuers) \in Nat
<1>1. IsFiniteSet(DOMAIN jobs)
  BY LenProperties, FS_Interval DEF IInv, TypeOK
<1>2. LiveJobsOf(key) \subseteq DOMAIN jobs /\ InsertsOf(key) \subseteq Enqueuers
  BY DEF LiveJobsOf, InsertsOf
<1>3. IsFiniteSet(LiveJobsOf(key)) /\ IsFiniteSet(InsertsOf(key))
  BY <1>1, <1>2, FS_Subset, QueueAssumption
<1> QED
  BY <1>2, <1>3, FS_Subset, FS_CardinalityType, QueueAssumption

\* Fewer live jobs, and no more inserts: the bounds still hold.
LEMMA FewerLive ==
  ASSUME IInv, IInv', LivePerKeyBounded, storageDriver' = storageDriver, NEW key \in Keys,
         LiveJobsOf(key)' \subseteq LiveJobsOf(key), InsertsOf(key)' \subseteq InsertsOf(key)
  PROVE  /\ storageDriver = "json" => Cardinality(LiveJobsOf(key)') <= 1
         /\ storageDriver = "postgres" =>
              Cardinality(LiveJobsOf(key)') + Cardinality(InsertsOf(key)') <= Cardinality(Enqueuers)
<1>1. /\ Cardinality(LiveJobsOf(key)') <= Cardinality(LiveJobsOf(key))
      /\ Cardinality(InsertsOf(key)') <= Cardinality(InsertsOf(key))
      /\ Cardinality(LiveJobsOf(key)') \in Nat /\ Cardinality(InsertsOf(key)') \in Nat
  BY CountsAreFinite, FS_Subset, FS_CardinalityType
<1>2. /\ storageDriver = "json" => Cardinality(LiveJobsOf(key)) <= 1
      /\ storageDriver = "postgres" =>
           Cardinality(LiveJobsOf(key)) + Cardinality(InsertsOf(key)) <= Cardinality(Enqueuers)
  BY DEF LivePerKeyBounded
<1> QED
  BY <1>1, <1>2, CountsAreFinite

\* Where no reply is lost, two live jobs share a dedupe key only if both were being
\* inserted by PostgreSQL when there was none: a retried or a dropped job keeps its
\* key taken, and a settled one never comes back for it.
THEOREM LiveJobsBounded ==
  ASSUME ~LostReplies
  PROVE  Spec => []LivePerKeyBounded
<1>1. Init => LivePerKeyBounded
  <2> SUFFICES ASSUME Init, NEW key \in Keys
               PROVE  /\ LiveJobsOf(key) = {} /\ InsertsOf(key) = {}
    <3>1. Cardinality(Enqueuers) \in Nat /\ Cardinality({}) = 0
      BY FS_EmptySet, FS_CardinalityType, QueueAssumption
    <3>2. 0 <= 1 /\ 0 + 0 <= Cardinality(Enqueuers)
      BY <3>1
    <3> QED
      BY <3>1, <3>2, Zenon DEF LivePerKeyBounded
  <2> QED
    BY QueueAssumption DEF Init, LiveJobsOf, InsertsOf
<1>2. ASSUME IInv, IInv', LivePerKeyBounded, [Next]_vars PROVE LivePerKeyBounded'
  <2>0. storageDriver' = storageDriver
    BY <1>2 DEF Next, Work, vars, Enqueue, BeginEnqueue, Insert, InsertFails, ComesDue, Claim,
                Check, CheckFails, Finish, FinishFails, Report, Drop
  <2> SUFFICES ASSUME NEW k \in Keys
               PROVE  /\ storageDriver = "json" => Cardinality(LiveJobsOf(k)') <= 1
                      /\ storageDriver = "postgres" =>
                           Cardinality(LiveJobsOf(k)') + Cardinality(InsertsOf(k)') <= Cardinality(Enqueuers)
    BY <2>0 DEF LivePerKeyBounded
  <2>1. ASSUME NEW key \in Keys, Enqueue(key)
        PROVE  Cardinality(LiveJobsOf(k)') <= 1 /\ storageDriver = "json"
    <3>1. storageDriver = "json" /\ Inserts(key) /\ LiveJobsOf(key) = {}
      BY <1>2, <2>1, InsertsByDriver DEF Enqueue, NoDuplicate, LiveJobsOf
    <3>2. CASE k = key
      <4>1. LiveJobsOf(k)' = {Len(jobs) + 1}
        BY <1>2, <3>1, <3>2, OneMore
      <4>2. Cardinality({Len(jobs) + 1}) = 1
        BY FS_Singleton
      <4> QED
        BY <3>1, <4>1, <4>2
    <3>3. CASE k # key
      BY <1>2, <3>1, <3>3, OneMore DEF LivePerKeyBounded
    <3> QED
      BY <3>1, <3>2, <3>3
  <2>2. ASSUME NEW e \in Enqueuers, Insert(e)
        PROVE  /\ storageDriver # "json"
               /\ storageDriver = "postgres" =>
                    Cardinality(LiveJobsOf(k)') + Cardinality(InsertsOf(k)') <= Cardinality(Enqueuers)
    <3>1. /\ storageDriver # "json" /\ enqueuing[e] \in Keys /\ Inserts(enqueuing[e])
          /\ enqueuing' = [enqueuing EXCEPT ![e] = NoKey]
          /\ enqueuing \in [Enqueuers -> Keys \cup {NoKey}]
      BY <1>2, <2>2, InsertsByDriver DEF Insert, IInv, TypeOK, OnlyPostgresInserts
    <3>2. CASE k = enqueuing[e]
      <4>1. LiveJobsOf(k)' = LiveJobsOf(k) \cup {Len(jobs) + 1} /\ Len(jobs) + 1 \notin LiveJobsOf(k)
        BY <1>2, <3>1, <3>2, OneMore, Appended DEF LiveJobsOf
      <4>2. InsertsOf(k)' = InsertsOf(k) \ {e} /\ e \in InsertsOf(k)
        BY <3>1, <3>2, QueueAssumption DEF InsertsOf
      <4>3. Cardinality(LiveJobsOf(k)') = Cardinality(LiveJobsOf(k)) + 1
        BY <1>2, <4>1, CountsAreFinite, FS_AddElement
      <4>4. Cardinality(InsertsOf(k)') = Cardinality(InsertsOf(k)) - 1
        BY <1>2, <4>2, CountsAreFinite, FS_RemoveElement
      <4>5. storageDriver = "postgres" =>
              Cardinality(LiveJobsOf(k)) + Cardinality(InsertsOf(k)) <= Cardinality(Enqueuers)
        BY <1>2 DEF LivePerKeyBounded
      <4> QED
        BY <1>2, <3>1, <4>3, <4>4, <4>5, CountsAreFinite
    <3>3. CASE k # enqueuing[e]
      <4>1. LiveJobsOf(k)' = LiveJobsOf(k) /\ InsertsOf(k)' \subseteq InsertsOf(k)
        BY <1>2, <3>1, <3>3, OneMore, QueueAssumption DEF InsertsOf
      <4> QED
        BY <1>2, <2>0, <3>1, <4>1, FewerLive
    <3> QED
      BY <3>2, <3>3
  <2>3. ASSUME NEW e \in Enqueuers, NEW key \in Keys, BeginEnqueue(e, key)
        PROVE  /\ storageDriver = "postgres"
               /\ Cardinality(LiveJobsOf(k)') + Cardinality(InsertsOf(k)') <= Cardinality(Enqueuers)
    <3>1. /\ storageDriver = "postgres" /\ LiveJobsOf(k)' = LiveJobsOf(k)
          /\ enqueuing' = [enqueuing EXCEPT ![e] = key]
          /\ enqueuing \in [Enqueuers -> Keys \cup {NoKey}]
          /\ LiveJobsOf(key) = {}
      BY <1>2, <2>3 DEF BeginEnqueue, NoDuplicate, LiveJobsOf, Live, IInv, TypeOK
    <3>2. CASE k = key
      <4>1. Cardinality(LiveJobsOf(k)') = 0
        BY <3>1, <3>2, FS_EmptySet
      <4>2. /\ Cardinality(InsertsOf(k)') \in Nat
            /\ Cardinality(InsertsOf(k)') <= Cardinality(Enqueuers)
            /\ Cardinality(Enqueuers) \in Nat
        <5>1. InsertsOf(k)' \subseteq Enqueuers
          BY DEF InsertsOf
        <5> QED
          BY <5>1, FS_Subset, FS_CardinalityType, QueueAssumption
      <4> QED
        BY <3>1, <4>1, <4>2
    <3>3. CASE k # key
      <4>1. LiveJobsOf(k)' \subseteq LiveJobsOf(k) /\ InsertsOf(k)' \subseteq InsertsOf(k)
        BY <3>1, <3>3 DEF InsertsOf
      <4> QED
        BY <1>2, <2>0, <3>1, <4>1, FewerLive
    <3> QED
      BY <3>2, <3>3
  <2>4. CASE /\ ~Enqueued
             /\ ~\E e \in Enqueuers, key \in Keys : BeginEnqueue(e, key)
    <3>1. LiveJobsOf(k)' \subseteq LiveJobsOf(k)
      BY <1>2, <2>4, NothingRevives
    <3>2. InsertsOf(k)' \subseteq InsertsOf(k)
      <4>1. \/ enqueuing' = enqueuing
            \/ \E e \in Enqueuers : enqueuing' = [enqueuing EXCEPT ![e] = NoKey]
        BY <1>2, <2>4 DEF Next, Work, vars, Enqueued, InsertFails, ComesDue, Claim, Check,
                          CheckFails, Finish, FinishFails, Report, Drop
      <4> QED
        BY <1>2, <4>1, QueueAssumption DEF InsertsOf, IInv, TypeOK
    <3> QED
      BY <1>2, <2>0, <3>1, <3>2, FewerLive
  <2> QED
    BY <2>1, <2>2, <2>3, <2>4 DEF Enqueued
<1> QED
  BY <1>1, <1>2, InductiveInvariant, PTL DEF Spec

\* Where no reply is lost, completed and failed are final.  (With PostgreSQL a
\* lost reply to finishJob lets the catch block reopen a completed job.)
THEOREM SettledIsFinal ==
  ASSUME ~LostReplies
  PROVE  Spec => SettledStays
<1> DEFINE Stays == \A j \in DOMAIN jobs : Settled(j) => jobs'[j] = jobs[j]
<1>1. IInv /\ [Next]_vars => [Stays]_vars
  BY SettledStep
<1> QED
  BY <1>1, InductiveInvariant, PTL DEF Spec, SettledStays

=============================================================================
