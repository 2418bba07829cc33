------------------------------- MODULE JobQueue -------------------------------
(***************************************************************************)
(* The durable job queue (enqueueJob, claimJob and finishJob of            *)
(* src/storage.js) and the workers that empty it (src/job-worker.js).      *)
(*                                                                         *)
(* Each call of the queue is one transaction; a worker stands between two  *)
(* of them.  A call may fail, a worker may die while it holds a job, and   *)
(* with PostgreSQL the connection may break after a commit, so that the    *)
(* caller sees an error although its change was made.                      *)
(*                                                                         *)
(* One call is not as atomic as it looks: with PostgreSQL, enqueueJob      *)
(* looks for a duplicate in its snapshot and inserts, and nothing in the   *)
(* schema keeps another one from inserting in between.                     *)
(***************************************************************************)
EXTENDS Naturals, Sequences, FiniteSets

CONSTANTS
  Drivers,       \* what storageDriver may be
  Workers,       \* the server processes that run a job worker
  Enqueuers,     \* connections that can enqueue at the same time (PostgreSQL)
  Keys,          \* dedupe keys
  NoKey,         \* the connection has no INSERT under way
  MaxAttempts,   \* max_attempts of every job
  MaxJobs,       \* bound: jobs a behaviour enqueues
  MaxLosses,     \* bound: times a worker drops the job it holds
  LostReplies,   \* may PostgreSQL commit a call that is reported as failed?
  SilentErrors   \* may a failure have an empty message (an AggregateError)?

ASSUME QueueAssumption ==
  /\ MaxAttempts \in Nat \ {0}
  /\ MaxJobs \in Nat
  /\ MaxLosses \in Nat
  /\ Drivers \subseteq {"json", "postgres"}
  /\ IsFiniteSet(Enqueuers) /\ NoKey \notin Keys
  /\ LostReplies \in BOOLEAN /\ SilentErrors \in BOOLEAN

VARIABLES
  storageDriver,
  jobs,      \* marginlift_jobs or db.jobs, in the order they were inserted
  enqueuing, \* the key each connection is inserting a job for
  worker,    \* what each worker is doing, and with which job
  losses     \* how many jobs were dropped so far

vars == <<storageDriver, jobs, enqueuing, worker, losses>>

NoJob == 0

Idle == [pc |-> "idle", job |-> NoJob, silent |-> FALSE]

\* "due" is available_at <= now; "checks" counts the evidence_integrity_checked
\* entries that runs of this job appended to db.auditLog.
Job == [key : Keys, status : {"pending", "processing", "completed", "failed"},
        attempts : Nat, due : BOOLEAN, checks : Nat]

Worker == [pc : {"idle", "claimed", "checked", "failing"}, job : Nat, silent : BOOLEAN]

TypeOK ==
  /\ storageDriver \in Drivers
  /\ jobs \in Seq(Job)
  /\ enqueuing \in [Enqueuers -> Keys \cup {NoKey}]
  /\ worker \in [Workers -> Worker]
  /\ losses \in Nat

Init ==
  /\ storageDriver \in Drivers
  /\ jobs = <<>>
  /\ enqueuing = [e \in Enqueuers |-> NoKey]
  /\ worker = [w \in Workers |-> Idle]
  /\ losses = 0

Live(j) == jobs[j].status \in {"pending", "processing"}

Settled(j) == jobs[j].status \in {"completed", "failed"}

Claimable(j) == jobs[j].status = "pending" /\ jobs[j].due

\* Mutant: any job that is not settled is a candidate.
Unsettled(j) == Live(j) /\ jobs[j].due

\* Mutant: a job that was tried before is not a candidate.
Untried(j) == Claimable(j) /\ jobs[j].attempts = 0

\* The WHERE clause of claimJob.
Candidate(j) == Claimable(j)

-----------------------------------------------------------------------------
(* src/storage.js                                                          *)

\* Mutant: a processing job does not count as a duplicate.
NotWaiting(key) ==
  \A j \in DOMAIN jobs : jobs[j].key = key => jobs[j].status # "pending"

NoDuplicate(key) == \A j \in DOMAIN jobs : jobs[j].key = key => ~Live(j)

\* The job that enqueueJob builds.
NewJob(key) ==
  [key |-> key, status |-> "pending", attempts |-> 0, due |-> TRUE, checks |-> 0]

\* enqueueJob with the JSON file: test and push are one mutator of transact.
Enqueue(key) ==
  /\ storageDriver = "json"
  /\ Len(jobs) < MaxJobs
  /\ NoDuplicate(key)
  /\ jobs' = Append(jobs, NewJob(key))
  /\ UNCHANGED <<storageDriver, enqueuing, worker, losses>>

\* enqueueJob with PostgreSQL: the statement's snapshot has no live job of the key.
BeginEnqueue(e, key) ==
  /\ storageDriver = "postgres"
  /\ enqueuing[e] = NoKey
  /\ NoDuplicate(key)
  /\ enqueuing' = [enqueuing EXCEPT ![e] = key]
  /\ UNCHANGED <<storageDriver, jobs, worker, losses>>

\* The row it inserts whatever was committed since.
Insert(e) ==
  /\ enqueuing[e] # NoKey
  /\ Len(jobs) < MaxJobs
  /\ jobs' = Append(jobs, NewJob(enqueuing[e]))
  /\ enqueuing' = [enqueuing EXCEPT ![e] = NoKey]
  /\ UNCHANGED <<storageDriver, worker, losses>>

\* The statement fails, or its process ends before it is sent off.
InsertFails(e) ==
  /\ enqueuing[e] # NoKey
  /\ enqueuing' = [enqueuing EXCEPT ![e] = NoKey]
  /\ UNCHANGED <<storageDriver, jobs, worker, losses>>

\* The back-off of a retried job is over.
ComesDue(j) ==
  /\ ~jobs[j].due
  /\ jobs' = [jobs EXCEPT ![j].due = TRUE]
  /\ UNCHANGED <<storageDriver, enqueuing, worker, losses>>

\* claimJob: the oldest candidate becomes ours.
Claim(w) ==
  /\ worker[w].pc = "idle"
  /\ \E j \in DOMAIN jobs :
       /\ Candidate(j)
       /\ \A i \in 1..(j - 1) : ~Candidate(i)
       /\ jobs' = [jobs EXCEPT ![j] = [@ EXCEPT !.status = "processing",
                                                !.attempts = jobs[j].attempts + 1]]
       /\ worker' = [worker EXCEPT ![w] = [Idle EXCEPT !.pc = "claimed", !.job = j]]
  /\ UNCHANGED <<storageDriver, enqueuing, losses>>

\* finishJob(id)
\* Mutant: a status the table does not know.
Done(j) == [jobs EXCEPT ![j] = [@ EXCEPT !.status = "done"]]

Completed(j) == [jobs EXCEPT ![j] = [@ EXCEPT !.status = "completed"]]

\* finishJob(id, error) of an error that has a message.
\* Mutant: one attempt too many.
RetriedOnceMore(j) ==
  [jobs EXCEPT ![j] =
     IF jobs[j].attempts > MaxAttempts
       THEN [jobs[j] EXCEPT !.status = "failed"]
       ELSE [jobs[j] EXCEPT !.status = "pending", !.due = FALSE]]

Refused(j) ==
  [jobs EXCEPT ![j] =
     IF jobs[j].attempts >= MaxAttempts
       THEN [jobs[j] EXCEPT !.status = "failed"]
       ELSE [jobs[j] EXCEPT !.status = "pending", !.due = FALSE]]

-----------------------------------------------------------------------------
(* src/job-worker.js                                                       *)

\* A mutator's change of the JSON file is one rename; only a COMMIT's answer gets lost.
LosesReplies == LostReplies /\ storageDriver = "postgres"

Moves(w, pc, silent) ==
  worker' = [worker EXCEPT ![w] = [@ EXCEPT !.pc = pc, !.silent = silent]]

Checked(j) == [jobs EXCEPT ![j] = [@ EXCEPT !.checks = jobs[j].checks + 1]]

\* Both chains are verified and the verdict is appended to the audit log.
Check(w) ==
  /\ worker[w].pc = "claimed"
  /\ jobs' = Checked(worker[w].job)
  /\ Moves(w, "checked", FALSE)
  /\ UNCHANGED <<storageDriver, enqueuing, losses>>

\* The read, the type test or the append throws; the append may have been made.
CheckFails(w, silent) ==
  /\ worker[w].pc = "claimed"
  /\ silent => SilentErrors
  /\ \/ UNCHANGED jobs
     \/ LosesReplies /\ jobs' = Checked(worker[w].job)
  /\ Moves(w, "failing", silent)
  /\ UNCHANGED <<storageDriver, enqueuing, losses>>

Finish(w) ==
  /\ worker[w].pc = "checked"
  /\ jobs' = Completed(worker[w].job)
  /\ worker' = [worker EXCEPT ![w] = Idle]
  /\ UNCHANGED <<storageDriver, enqueuing, losses>>

\* finishJob throws inside the try block; it may have completed the job.
FinishFails(w, silent) ==
  /\ worker[w].pc = "checked"
  /\ silent => SilentErrors
  /\ \/ UNCHANGED jobs
     \/ LosesReplies /\ jobs' = Completed(worker[w].job)
  /\ Moves(w, "failing", silent)
  /\ UNCHANGED <<storageDriver, enqueuing, losses>>

\* Mutant: an error without a message is taken for success whatever it says.
TakenForSuccess(w) == TRUE

\* finishJob(id, error.message) takes an empty message for no error.
NoMessage(w) == worker[w].silent

\* The catch block.
Report(w) ==
  /\ worker[w].pc = "failing"
  /\ jobs' = IF NoMessage(w) THEN Completed(worker[w].job)
                             ELSE Refused(worker[w].job)
  /\ worker' = [worker EXCEPT ![w] = Idle]
  /\ UNCHANGED <<storageDriver, enqueuing, losses>>

\* The process dies and is restarted, or the catch block's finishJob throws and
\* tick only logs it: nobody remembers the job.
Drop(w) ==
  /\ worker[w].pc # "idle"
  /\ losses < MaxLosses
  /\ losses' = losses + 1
  /\ worker' = [worker EXCEPT ![w] = Idle]
  /\ UNCHANGED <<storageDriver, enqueuing, jobs>>

-----------------------------------------------------------------------------
Work(w) ==
  \/ Claim(w)
  \/ Check(w)
  \/ \E silent \in BOOLEAN : CheckFails(w, silent)
  \/ Finish(w)
  \/ \E silent \in BOOLEAN : FinishFails(w, silent)
  \/ Report(w)

Next ==
  \/ \E key \in Keys : Enqueue(key) \/ \E e \in Enqueuers : BeginEnqueue(e, key)
  \/ \E e \in Enqueuers : Insert(e) \/ InsertFails(e)
  \/ \E j \in DOMAIN jobs : ComesDue(j)
  \/ \E w \in Workers : Work(w) \/ Drop(w)

Spec == Init /\ [][Next]_vars

\* setInterval fires every two seconds and every await settles, so a worker
\* that can work does; time passes, so a back-off ends.  Nothing else is fair.
Fairness ==
  /\ \A w \in Workers : WF_vars(Work(w))
  /\ \A j \in 1..MaxJobs : WF_vars(j \in DOMAIN jobs /\ ComesDue(j))

FairSpec == Spec /\ Fairness

-----------------------------------------------------------------------------
(* Properties                                                              *)

Holding == {w \in Workers : worker[w].pc # "idle"}

\* finishJob does not look at the status it overwrites.  It is right to trust
\* its caller: a job is held by one worker at most (FOR UPDATE SKIP LOCKED, the
\* JSON write queue) and is processing until that worker's finishJob.
OneWorkerPerJob ==
  /\ \A w \in Holding :
       /\ worker[w].job \in DOMAIN jobs
       /\ worker[w].pc # "failing" => jobs[worker[w].job].status = "processing"
       /\ jobs[worker[w].job].status # "pending"
  /\ \A v, w \in Holding : worker[v].job = worker[w].job => v = w

\* docs/sprint4-production-platform.md: retry is bounded.  No job is claimed more
\* often than MaxAttempts, none is given up before, and however often replies
\* are lost its runs write at most one verdict per attempt.
RetriesBounded ==
  \A j \in DOMAIN jobs :
    /\ jobs[j].attempts <= MaxAttempts
    /\ jobs[j].status = "failed" => jobs[j].attempts = MaxAttempts
    /\ jobs[j].checks <= jobs[j].attempts

\* A job that failed is reported as failed with its last error
\* (docs/sprint4-production-platform.md), so a job reported as completed has
\* left a verdict in the audit log.
CompletedWasChecked ==
  \A j \in DOMAIN jobs : jobs[j].status = "completed" => jobs[j].checks > 0

LiveJobsOf(key) == {j \in DOMAIN jobs : jobs[j].key = key /\ Live(j)}

InsertsOf(key) == {e \in Enqueuers : enqueuing[e] = key}

\* enqueueJob: with the JSON file two pending or processing jobs never share a
\* dedupe key, retries and dropped jobs included.  With PostgreSQL they may, but
\* only as many as could be inserted at the same time: while one is live, nobody
\* begins another, and no settled job comes back beside it.
LivePerKeyBounded ==
  \A key \in Keys :
    /\ storageDriver = "json" => Cardinality(LiveJobsOf(key)) <= 1
    /\ storageDriver = "postgres" =>
         Cardinality(LiveJobsOf(key)) + Cardinality(InsertsOf(key)) <= Cardinality(Enqueuers)

\* A settled job is never run or settled again, although finishJob would let it.
SettledStays ==
  [][\A j \in DOMAIN jobs : Settled(j) => jobs'[j] = jobs[j]]_vars

\* docs/production-readiness-audit.md: the queue is durable and retries.  Every
\* job that was enqueued ends completed or failed.
EveryJobSettles ==
  \A j \in 1..MaxJobs : (j \in DOMAIN jobs) ~> (j \in DOMAIN jobs /\ Settled(j))

\* A job dropped by its worker is processing with nobody to finish it.
Dropped(j) ==
  /\ jobs[j].status = "processing"
  /\ \A w \in Holding : worker[w].job # j

\* Nothing reclaims it: a dropped job stays as it is and keeps its key taken,
\* and each other job still settles.
DroppedOrSettled ==
  /\ \A j \in 1..MaxJobs :
       (j \in DOMAIN jobs) ~> (j \in DOMAIN jobs /\ (Settled(j) \/ Dropped(j)))
  /\ [][\A j \in DOMAIN jobs : Dropped(j) => Dropped(j)']_vars

=============================================================================
