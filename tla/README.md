# MarginLift in TLA+

MarginLift plans retention campaigns: a company uploads customer data, registers
a pilot with a random control group, uploads the outcome and takes the result
through a documented acceptance. The server (`src/server.js`) keeps everything in
one document that is read as a snapshot (`readDb`) and changed by a function
inside a transaction (`transact`); around it there are a durable job queue, a
store of encrypted files, a Python scorer and a set of scripts.

This directory holds TLA+ specifications of the parts whose state and
concurrency are easy to get wrong, the configurations that check them with TLC,
and proofs checked with TLAPS. Paths below are relative to the repository root.

## 1. Inventory

Concurrency is the same everywhere: one Node process, many requests, each of
them atomic between two `await`s. A handler typically reads a snapshot, decides,
awaits something (a file, the scorer, another read) and then runs its mutator in
`transact`. Only the mutator is serialised with other mutators (the JSON write
queue, or `SELECT ... FOR UPDATE` on the single PostgreSQL row). What was decided
before it may be stale.

| Component | State | Operations | Talks to | What is hard | What makes it correct |
|---|---|---|---|---|---|
| Experiment registry (`src/server.js`, `src/experiment.js`) | `customerAnalyses`, `experiments`, `outcomes` | import customers, register pilot, import outcome, look up current analysis/experiment/outcome | document store, artifact store, job queue | decisions on stale snapshots, stamps drawn before the commit | one open pilot, outcome versions form a chain, status and latest outcome agree with the outcomes |
| Document store (`src/storage.js`) | JSON file or PostgreSQL row | `readDb`, `transact` | everything | failing mutators, crash around the rename, COMMIT whose reply is lost | one atomic document, every call settles |
| Job queue and worker (`src/storage.js`, `src/job-worker.js`) | `marginlift_jobs` / `db.jobs`; the job a worker holds | enqueue, claim, check, finish, retry | document store, evidence chains | several workers, overlapping inserts, death while holding a job, lost replies, errors without text | one holder per job, bounded retries, settled is final, every job settles |
| Pilot decision contract (`src/pilot-contract.js`) | `pilotContracts` | create, update with transition, approval and terms | acceptance | approval patched out of step with the stage, compared as it came and stored trimmed | a stage is reached one by one, with approval and lock on record |
| Business impact ledger (`src/business-impact-ledger.js`) | `businessImpactLedgers` | create, update, submit, verify, reject | acceptance | a new draft hides a verified one; both of its statuses | what finance signed is backed |
| Pilot control room (`src/pilot-control-room.js`) | `pilotWorkflows` | create, transition, evidence, blockers, milestones | acceptance | claims at the creation, a new workflow hides the old | a rehearsal is earned by stages |
| Pilot acceptance (`src/production-acceptance.js`) | `pilotAcceptances` | create, ten actions, certify, reject | the three records and the registry, all read before the transaction | claims in the create request, order of actions, stale context, a mutator that changes and throws | gates, evidence and recorded signatures behind each stage, closed records stay, what the server states was true |
| Workbench (`src/app.js`) | what each page fetched and drew | press, reload, draw | the records above | stale pages, lost replies, several requests under way | a request takes a record where it said, once |
| Outcome audit and decision gates (`src/experiment.js`, `src/decision-engine.js`, `src/pilot.js`) | `experiments`, `outcomes` | register, import an outcome, decide, claim | registry | day boundaries, order of the gates | "scale" only on a randomized, closed, whole study |
| Retention workspace and contact policy (`src/retention-product.js`, `src/contact-policy.js`, ...) | configuration, retention analyses, shadow runs | configure, preview, import, shadow run, export | document store | configuration replaced while a file is analysed; permission spread over rows | only permitted customers are exported; a fresh workspace is current |
| Circuit breaker (`src/server.js`, `src/orchestrator.js`, `src/drift-monitor.js`) | `orchestrationHalts`, `orchestrationLogs` | trigger, trip, reset | scorer, outcomes | the latch is read before the scorer is awaited | only runs under way when the latch opens still send; a reset holds; a measured breach halts |
| Evidence chains (`src/audit-log.js`, `src/decision-ledger.js`) | `auditLog`, `decisionLedger` | append, verify | every mutator | chains of several organizations in one list | the verification blames whom it should |
| Artifact store (`src/artifact-store.js`, `src/server.js`) | files, `artifacts` | persist, read, delete | document store | two stores without a common transaction | metadata always names a readable file |
| Backups (`ops/vm/backup.sh`, `ops/vm/verify-backup.sh`) | dumps, archives, `status.json` | back up, prune, verify | artifact store, PostgreSQL | two files that are not one snapshot, overlapping runs | a whole pair stays, and it restores |
| Sessions and access (`src/server.js`, `src/auth.js`, `src/access-control.js`) | `users`, `sessions`, `memberships` | signup, login, logout, members, roles, operators' scripts | everything | a role judged before the body is awaited | sessions end with their password; owners stay |
| Rate limiter (`src/server.js`) | in-memory counters | check | sessions | window boundary, sweep | at most twice `max` in any window |
| Migrations (`src/storage-migrations.js`, `scripts/migrate-storage.js`) | `marginlift_schema_migrations` | plan, run, validate | PostgreSQL | two releases at once | a server runs on its own schema |
| Model registry (`api/mlops`) | `registry.json`, versions | register, promote, rollback, retrain | scorer | index without a lock, bounded history | production passed the gate |
| Shadow mode, training, billing | logs, examples, monthly reports | append, cap, generate | scorer, breaker | reports made twice, runs stored late, rounded sums | nothing is billed twice |
| Analytics, reports, scorer | none (pure) | statistics over rows | registry | floating point | out of reach, see section 7 |

`PROJECT.json` lists the components with their status and every hazard with the
line where it bites.

## 2. Modules

| Module | Models | State |
|---|---|---|
| `ExperimentRegistry` | the three handlers of the registry, split at their awaits | the three collections, the clock of `createdAt`, one record per request |
| `ExperimentPromise` | what `docs/experiment-registry.md` promises: registering and accepting are indivisible | the number of analyses, the experiments with theirs, the open pilots, the accepted outcomes |
| `DocumentStore` | `transact` in both drivers, with failures, lost replies and crashes | the document, the temporary file, the chain of promises or the row's holder, each call's stage, copy and answer |
| `DocumentPromise` | one atomic document, whose callers may be left in doubt | the document, each call's answer |
| `JobQueue` | queue and worker | jobs, the inserts under way, what each worker holds, how many jobs were dropped |
| `PilotContract`, `ImpactLedger`, `ControlRoom` | the three records of a pilot, one action per request | the records of the organization, oldest first |
| `PilotRecords` | the three of them in one document | |
| `PilotSituation` | what the records, analyses and experiments of an organization come to for whoever looks from outside, and what one transaction may make of it | none: operators on a situation |
| `PilotSources` | `PilotRecords` as `PilotEvidence` and `PilotWorkbench` each describe it | |
| `PilotAcceptance` | the acceptance record, the control room's critical flag, the requests | records, the one written last, the flag, one record per request |
| `PilotEvidence` | the reads behind a created acceptance and a package, while everybody else goes on | the sources, what a request has read and what was so meanwhile, the acceptance |
| `PilotWorkbench` | browser pages before the four records | what each page knows and shows, its requests, the stage of each record |
| `OutcomeGates` | registration, outcome audit, decision and claim | the day, the experiment, its outcomes |
| `Retention` | configuration, import, decision queue, contact policy, shadow runs | the configuration, analyses, shadow runs, one record per request |
| `CircuitBreaker` | trigger, scorer's halt decision, log, latch, reset | latch, latest outcome, log, one record per request, count of runs that sent under an open latch |
| `EvidenceChain` | both hash chains, and their verification | the log; which organizations' records were tampered with |
| `ArtifactFiles` | upload, removal, download | files, metadata, one record per request; history of failures |
| `Backups` | the two scripts beside `ArtifactFiles` | the pair of files of each run, the verifier, the status, the date |
| `Access` | accounts, sessions, roles, operators' scripts | accounts, sessions, clock, what each request authenticated as |
| `RateLimiter` | `checkRateLimit` | the table, the clock; what was let through when |
| `Migrations` | servers and scripts that migrate one database | what is applied, relations, snapshots, one record per starter |
| `ModelRegistry` | `registry.py`, `retrain.py`, `rollback.py` | the index, the shared temporary file, artifacts, one record per program; who passed the gate |
| `UsageBilling` | logs of runs, training examples, events, monthly reports | the logs, reports, what is being made |
| `MCStorage`, `MCPlatform` | TLC instances: parts that share no state, one of them per behaviour | which part |
| `MCExperimentRegistry`, `MCJobQueue`, `MCPilotAcceptance`, `MCCircuitBreaker` | TLC instances | |
| `ExperimentRegistryProofs`, `JobQueueProofs`, `DocumentStoreProofs`, `PilotRecordsProofs`, `PilotAcceptanceProofs` | proofs, each about the modules it is named after; those of `PilotRecords` also about `PilotSources` and `PilotWorkbench` | |
| `LimitsProofs` | proofs about `CircuitBreaker`, `RateLimiter` and `UsageBilling` | |
| `EvidenceProofs` | proofs about `Retention`, `OutcomeGates`, `PilotEvidence` and `EvidenceChain` | |
| `OperationsProofs` | proofs about `Migrations`, `ModelRegistry`, `Access`, `ArtifactFiles` and `Backups` | |

### ExperimentRegistry

A request is `idle` or stands between two awaits of its handler, holding what it
computed (`target`, `version`, `prior`, `created`). `OnboardStart/OnboardCommit`
are `importCustomerAnalysis`; `RegisterStart`, `RegisterRefused` or
`RegisterCheck`, `RegisterCommit` are `registerProspectiveExperiment`, whose 409
is decided on the second read; `OutcomeRead`, `OutcomeStamp`, `OutcomeCommit` are
`importOutcomeAnalysis`. `Fail` is every other way out: a 4xx, a failing
transaction, the end of the process. An id is the position in its collection
(collections are only appended to). `createdAt` is a clock that never gives the
same stamp twice; two stamps in one millisecond are left out. The two reads of
the second stage of a registration (`db` and `getCurrentExperiment`) are one step:
an experiment that is `registered` in the later one has no outcome in the
earlier one either. `appendDecision`, the audit entry, the artifact and the job
of each commit are not state of this module. The customer dataset, the outcome
rows and the statistics are data; what remains of an assignment is whether it
opens as `draft` or `blocked`, of an outcome file whether it is accepted
(`OutcomeCommit`) or not (`Fail`).

### JobQueue

`Claim`, `Completed` and `Refused` are `claimJob`, `finishJob(id)` and
`finishJob(id, error)`. `enqueueJob` is one step in the JSON store (`Enqueue`), where
the test for a duplicate is inside `transact`. In PostgreSQL it is two: the
`INSERT ... WHERE NOT EXISTS` looks in the snapshot of its statement
(`BeginEnqueue`) and the row appears later (`Insert`, `InsertFails`), because no
unique index and no lock keeps another insert of the same key away. `enqueuing`
holds the key of each insert under way; `Enqueuers` are the connections that can
have one. `Check/CheckFails`, `Finish/FinishFails` and `Report` are the try and
catch blocks of `runJob`.
`LostReplies` says whether PostgreSQL may report a call as failed after it was made
(the connection is lost after the commit); with the JSON store that cannot happen.
`SilentErrors` says whether an error may have an empty message. `Drop` is the end
of the process, or a failing `finishJob` in the catch block, which `tick` only
logs. The back-off is a flag `due` that time sets. Jobs stand in the order of their
insertion, where `claimJob` orders by `created_at`. Of the JSON store only one process
is real; more workers of it are allowed, which adds behaviours.
The two chains' verdict is only counted (`checks`).

### PilotAcceptance

`touched` is the record with the newest `updatedAt`, the one
`findLatestAcceptance` returns; the timestamp is taken inside the mutator, so it is
the record written last. `Gather` is `getPilotAcceptanceSourceContext`; every
action then judges the record as it is and the control room as it was gathered.
`CertifyBlocked` changes the record in memory and throws: `RolledBack` is what
`transact` makes of it. `Refused` is every 4xx. `SetBlockers` stands for all
requests that change whether the control room shows an open critical blocker.
`Create` takes what `normalizeAcceptanceRecord` takes from the body of the
create request: the status of each criterion and whether it is required
(`CreatedCriteria`), both signatures, a package and the word on the certification
(`Claims`). Only the lifecycle and the audit events are the server's. What a record
says of itself is therefore no evidence of what happened, and the properties speak
of the stages, the criteria that were verified by an action (`checked`) and the
events (`trail`): customer and executive are asked anew on the way, so a signature
behind a stage is one that was recorded, whatever was claimed. A COMMIT whose reply is lost
is the action followed by nothing: the answer is not part of the state.

### CircuitBreaker

A request is what its handler holds between awaits: the reading in the body, the
latest outcome and the latch of the snapshot (`Trigger`). What follows from it
(`CausalDrift`, `Breaker`, `Halted`, `HaltReason`) are operators on that record,
as `evaluateCircuitBreaker` and the scorer are functions of it. `Decide` is the
scorer's answer, which refuses a negative drift; `Commit` is the mutator that
appends the log and sets the latch; `Fail` is a scorer that times out or
answers with an error, or a failing transaction. `leaked` is a history variable.
An outcome is the record as `importOutcomeAnalysis` stores it, its two profits
reduced to their drift. The commands are reduced to whether the run is halted:
a run that is not sends to every persuadable customer. Authentication and the
checks of the audience change no state and are left out; other organizations
have a latch of their own.

### DocumentStore

A mutator appends its own name to the document, so what it saw is what precedes
it. `Call`, `Read`, `Mutate` (or `Throw`), `Store`, `Rename` and `Return` are the
JSON path: the chain of promises is `queue`, the temporary file `tmp`. In the
PostgreSQL path `holder` has the row; `CommitRow` may take effect and still be
reported as failed. `Crash` ends the process: the calls get no answer, the
temporary file stays, the file and the row are what was renamed or committed.
`Promise!Apply` and `Promise!Answer` may come apart, but an answer of success
only after the mutator took effect.

### PilotContract, ImpactLedger, ControlRoom, PilotRecords

Each of their handlers is one mutator in `transact`, so a request is one step,
however much it carries: `UpdateContract` takes a direct transition, an approval
patch, an approver and new terms together, and a text may be padded (`Worded`): the
target is compared as it came (`Counts`, `TargetOf`) and stored trimmed (`Patched`). `TransitionLedger` takes
figures and signature, of which an empty one clears what is stored (`Words`), `CreateWorkflow` claimed stages and blockers. `Normalized` is what
`normalizeWorkflow` makes of the stages on every write. What the lock protects
of a contract is one value, what a ledger calculates another. Identifiers are
positions; the newest record is the one written last.

### PilotEvidence

The reads of `getPilotAcceptanceSourceContext`, before a creation and before every
action alike, in any order where the code starts them together (`ReadSource`,
`ReadAnalysis`; `unread` says which are still to come), then experiment, outcome
and room, then the transaction. A request holds what it has read so far, the rest is
as in `Idling`. `OthersMove` is everybody else, as `PilotSituation` says: the next stage of a
contract, a ledger or a room, or a new one (`MoveRecord`), a new analysis, a registration on any analysis, an outcome
(`MoveStudy`). `held`
collects what was so at some moment of the request; the property asks nothing
stronger, because nothing stronger is promised. The requests name contract,
ledger and workflow as the user interface does. A creation may claim the status of criteria (`Claimed`) and
name an experiment and an outcome of its own (`Named`); `submitted` are the criteria whose status is the context's.

### PilotWorkbench

A page has what it fetched (`known`, the code's `currentPilotLifecycle`) and what it
shows (`rendered`); `Fetch`, `Learn` and `Draw` are the two awaits between them.
`Naming` says which stage a button's request names, from what the page knows,
not from what it shows. A request reaches the server or is lost (`GiveUp`,
`Abandon`); either way the page may press again. Busy buttons are the pressed
ones only. `Takes` and `Written` are the server: which request it takes with the newest
record at some stage, and what becomes of the records.

### PilotSituation, PilotSources

`PilotEvidence` and `PilotWorkbench` are about the clients of contracts, ledgers, rooms and
experiments, and describe these by a few of their fields. What they assume of them is stated of the
modules that model them in full. `SeenRecords` and `SeenStages` are the records of `PilotRecords` as an acceptance
and as a page see them, and `MovesAsSeen` says that every request, whatever mix of target, patch, claims and
figures it carries, moves them as `MoveRecord`, and as `Takes` and `Written`, allow. `SeenStudies` and
`StudiesMoveAsRead` say the same of `ExperimentRegistry` and `MoveStudy`.

### OutcomeGates

Files are given as a set of rows sequences, their intervals by another set: the
model checks the gates, not the statistics. The sample ratio test compares
integers with the critical values of its p-value. Cost is never reported, so its guardrail is
always unavailable and `Guardrails` does not fail on it.

### Retention

`QueueOf` is the whole way from rows to decisions: clean, group by customer and
product, cycle, due date, state, action, contact permission. `Sorted` is `sort`: each thing stands
at the place after all those that precede it, which says the same as a sorting operator and can be reasoned about. A request that
imports reads the configuration, works (`BeginImportRetention`) and stores
(`StoreAnalysis`), writing the configuration it read back. A hash is the value.
`Readiness` is what the readiness of the newest file comes to, `Behavioral` the
behavioral workspace drawn from it: its status, its guardrails and which
interventions are open. The handler gives it no experiment, so what it says of
running experiments never depends on any.

### Access, RateLimiter, EvidenceChain, Migrations

`Authenticate` fixes user and role before the body is awaited; everything after
uses them. Password rotation and demotion by the operators' scripts come in
between. In the limiter a call is atomic; the table is swept inside the call that
finds it too large; `passed` counts, for each caller and moment, what got through. A
chain's hash is what precedes the record and the record itself, so equal hashes mean equal content;
`Edited`, `Removed` and `Cut` are changes behind the program's back, and cutting the newest
records is what no chain can show. A migration is a transaction whose first
statement waits for the other migration; planning is done before it.

### ArtifactFiles, Backups

An artifact's identifier is used once. `Persist` may leave nothing, a part or the
whole file, `StoreFails` may be a commit whose reply was lost (`doubted`), `CutOff`
is a failing unlink or the end of the process (`faulty`). A backup's steps follow
`After`; each command opens its file before it works, so a failure leaves a
partial one. pg_dump's content is the metadata at its start; tar lists the
directory and then reads file by file. `Picks` takes the newest dump and the
newest archive, whichever runs they are of. Files of one day count as equally
new. No backup takes longer than files are kept.

### ModelRegistry, UsageBilling

A program reads the index, changes its copy, opens the temporary file (which
another one may be writing), dumps and replaces. A challenger is reduced to
whether it beats chance and the champion. Bills are worked out on a snapshot
(`MakeReports`) and stored later; `MonthlyReport` takes the runs of the month that
were stored by then, and rounds their sum (`Rounded`): runs are counted in parts of the unit a report is in.

## 3. Runs

Bounds are named constants.

| Run | Bounds | States | What it shows |
|---|---|---|---|
| `ExperimentRegistryConcurrent` | 2 requests, 4 stamps | 31,217 | `SupersedesChain` and `StatusTracksOutcomes` survive every interleaving of two handlers, and the studies move as `PilotEvidence` assumes (`StudiesMoveAsRead`) |
| `ExperimentRegistrySequential` | 1 request, 6 stamps | 73,892 | one request at a time, the registry implements `ExperimentPromise`, and newest-by-date agrees with latest-by-id (`LookupsAgree`) |
| `ExperimentRegistryVersions` | 2 requests, 3 stamps | violation | two outcomes with one version |
| `ExperimentRegistryPilots` | 2 requests, 3 stamps | violation | two open pilots |
| `JobQueueWorkers` | both drivers, 2 workers, 1 enqueuer, 2 keys, 3 jobs, 2 attempts, 1 loss, lost replies (PostgreSQL) | 146,834 | one holder, bounded retries, completed means checked |
| `JobQueueFair` | both drivers (JSON with 2 keys, PostgreSQL with 2 enqueuers of 1 key), 2 workers, 3 jobs, 2 attempts, 1 loss, no lost replies, silent errors, fair; 3 calls of `transact`, fair | 131,473 | both halves of `src/storage.js`: one live job per key in JSON and no more than inserts can overlap in PostgreSQL (`LivePerKeyBounded`), settled is final, a job settles unless it is dropped; `DocumentStore` implements `DocumentPromise`, and every call settles |
| `JobQueueCrash` | 1 job, 1 loss | violation | a crash leaves a job processing for ever |
| `JobQueueSilent` | 1 job, silent errors | violation | a failure is stored as completed |
| `PilotAcceptanceConcurrent` | 2 requests; 2 criteria for one record, 1 worked on of two; 4 ways to create a criterion, 2 claims | 634,330 | the gates, the rollback, that a status has what backs it, and that what is signed or closed does not change |
| `PilotAcceptanceStale` | 2 requests, 1 record | violation | a blocker opened after the reads is not seen |
| `Platform` | below | 701,364 | the other parts, each against its clients, failures and crashes |
| `CircuitBreakerMeasured` | 1 request, 1 log entry | violation | a bad outcome never halts a trigger |

`Platform` and `JobQueueFair` check parts that share no state. A behaviour is one
of one part and leaves the others in an initial state, so the states of the run
are the sum of the parts' and every property is checked of the part it is about.

| Part of `Platform` | Bounds | States | Properties |
|---|---|---|---|
| contract | 2 contracts, 2 terms, 1 actor, any text padded or not | 937 | `EvidenceEarned`, `MovesAsSeen` |
| ledger | 2 ledgers, 2 figures | 5,853 | `EvidenceEarned`, `MovesAsSeen` |
| room | 2 workflows, 1 blocker, 1 milestone, evidence for one stage | 24,597 | `EvidenceEarned`, `MovesAsSeen` |
| evidence | 4 situations, 1 move of the others, 2 requests, 2 sets of claims, any study named | 45,307 | `EvidenceWasTrue` |
| workbench | 2 pages (of two starts that differ only in which page is which, one), 2 records, 2 presses, all four kinds | 163,314 | `ClickKeepsItsWord` |
| gates | 4 customers, 1 treatment, 18 files, 7 results, 3 days | 6,484 | `ScaleClimbedTheLadder` |
| retention | 2 files, 2 settings, 2 requests, 2 analyses, 1 shadow run | 49,005 | `AudiencePermitted`, `FreshIsCurrent` |
| access | 2 users, 1 organization, 2 requests, 1 session at a time, 2 passwords | 52,178 | `AccessHolds` |
| limiter | 2 callers, 2 attempts in a window of 2, table swept beyond 1 key, clock to 4 | 6,462 | `TwiceTheLimit` |
| chain | 2 organizations, 2 payloads, 4 records, both logs | 18,258 | `ChainTellsTheTruth` |
| backups | 2 artifacts with 2 handlers; beside 1 backup 1 artifact; without files 2 backups, verification, 2 days, kept for 1 | 33,579 | `ArtifactsAccounted`, `BackupsRestorable` |
| migrations | 2 versions, 2 checksums, 2 starters of any release | 11,856 | `ReadyOnItsSchema` |
| models | 2 models, 2 programs, 1 entry of history | 168,955 | `ProductionPassedGate` |
| usage | 1 client, 2 runs that cost half a unit or a unit, 2 generators, 2 months; without runs, 1 example and 1 event | 15,467 | `NothingBilledTwice` |
| breaker | 2 triggers, 3 log entries, 3 readings, 1 outcome drift | 99,112 | `LeaksBounded`, `TripLogged`, `ResetHolds` |

Why the bounds are enough. Every race of the registry is between two handlers
that overlap; four stamps allow an import, a registration and two outcomes, and
six in sequence allow two analyses, each with a pilot and outcomes. Two workers and three jobs
let one job be retried and dropped while the others overtake it, two enqueuers insert
one key twice, and two attempts reach both outcomes of `finishJob`. Three calls of `transact` are one that works,
one that waits and one that follows. The claims of a created acceptance are none and all, with a
criterion that starts missing, submitted, verified without evidence or not required. Two acceptance records are a closed and an
active one, and two contracts, ledgers or workflows a hidden and a shown one.
Two pages are enough for one of them to be stale, two presses for a retry. The
files of the gates break one gate each. Two generators and two months can make
one report twice and a late run fall between two; half units show the rounding. Two programs can each lose the other's
index and write into each other's temporary file; a history of one entry forgets
at once. Two triggers reach one that sends after the other tripped the latch; a
third log entry shows a breach after a reset. A clock to 4 holds two windows that meet, and a stretch across them. The readings are one the
scorer refuses and two beyond the threshold, and a trigger without a reading is
below it. Two backups can overlap, and the second one delete the first. The
proofs of section 5 remove the bounds for the invariants they cover.

`CHECK_DEADLOCK FALSE` stands where a bound runs out (`MaxClock`, `MaxJobs`,
`MaxAttempts`, the calls of `transact` and the bounds of the platform's parts) and an idle system stands
still. Everything else is checked for deadlock.

## 4. Fairness

Only `JobQueueFair` and `JobQueueCrash` assume any. `startJobWorker` calls `tick` every
two seconds, a tick claims whatever is due, and every await of `runJob` settles,
one way or the other; so each worker's next step is weakly fair. A back-off ends
because time passes. Nothing is assumed of enqueuing, of which call fails, or of
`Drop`. That a call does not fail for ever need not be assumed: attempts are
bounded. Of `transact` (`StoreFairness`) it is assumed that a call which has its turn
goes on, because file and database calls return or fail; nothing is assumed of
crashes, of failures, or of the order in which PostgreSQL grants the row.

## 5. Proofs

The theorems hold for every number of requests, workers, keys, jobs, calls, criteria,
records, customers, files, servers, programs, accounts, artifacts, backups, callers, limits, reports and chains; they use
only the assumptions named in the modules. Most of these say that a bound is a
number. The others: a finite number of requests (`BreakerAssumption`); finitely many
customers, files that are sequences, and exposures that have a day or none
(`GatesAssumption`); retention files that are sequences of rows with whole days, and
thresholds of which `due` is below `lapsed`, as the ranges of `boundedInteger` leave no other
(`RetentionAssumption`); and that an organization which a request may find was itself made
by imports, so every analysis has an experiment (`EvidenceAssumption`). TLC evaluates all of
them in the runs.

* Registry. `SupersedesChain` is not inductive: what `OutcomeCommit` stores was
  computed from an earlier snapshot. The invariant says of each request that its
  `prior` is still a committed outcome of its `target`, with the version it saw;
  collections only grow, so a stale snapshot stays true of the past. `StatusTracksOutcomes`
  is preserved because the status and the outcome are written by one mutator.
* Registry and acceptance. `StudiesMove` adds to that invariant that the analysis a registration holds is still there
  (`OnAnalysis`). A commit then appends to a collection or adds one outcome to one experiment, which are steps of
  `MoveStudy` however old the snapshot behind it is.
* Registry, one request at a time. Three more theorems assume `Requests = {r}`, because
  `ExperimentRegistryVersions` and `ExperimentRegistryPilots` show that two requests break what they
  say; a small pilot team, and each test of the repository, works this way. The
  invariant (`SequentialInv`) says that stamps ascend with the commits, versions within an
  experiment too, that an analysis names its last experiment, that an open pilot is that
  one, and that what the request has read is still so (`Current`). It gives
  `LookupsAgree` and the two promises of the violated runs. For the refinement of
  `ExperimentPromise` it is added that the version an experiment names counts its
  outcomes (`Counted`); then each commit is one of the promise's steps, and every other step
  changes nothing it sees.
* Queue. `OneWorkerPerJob` ties the status of a job to the stage of the worker that
  holds it; a lost reply only ever happens to a holder, which is why `finishJob`
  may overwrite the status unseen. `CompletedWasChecked` needs that errors have
  messages, `SettledStays` and `LivePerKeyBounded` that no reply is lost; the theorems state it, and
  `JobQueueSilent` shows what happens without the first. `LivePerKeyBounded` is counted (`LiveJobsBounded`): an insert
  begins only while its key has no live job, so all live jobs of a key come from inserts that overlapped, one to a
  connection, and settled jobs never come back.
* Document store. `DocumentKept` is the refinement: every step of either driver is a step of
  `DocumentPromise` or none. A call writes back a copy it read earlier, so the invariant says that the copy
  of the call inside is still the document. That needs that one call at a time is inside
  (`OneInside`), for a reason of its own in each driver (`Waits`): it is the head of the chain of
  promises, or it holds the row. `Told` says that nobody was answered before the end, which makes
  what a crash leaves an honest answer.
* Records. `EvidenceEarned` is about single records, so the invariant says that each one ever stored is good. Of a
  contract the trail of its transitions, and that of its approvals, are the stages it climbed
  (`OnRecord`), whatever the status it carries beside them; what finance signs is refused unless it is backed. Of a workflow it must be known which
  stages can be completed at all (`GoodRoom`): every write normalises them, so only those before its
  lifecycle and the first one, which a client may claim. That makes at most four before the
  decision, and five are asked for.
* Records as their clients see them. `RecordsMoveAsSeen` takes each request of the three modules apart into what it makes of the
  newest record's stage (`ContractSeen`, `LedgerSeen`, `RoomSeen`); the two records it does not touch look the same
  (`OneOfThree`). A room's present stage counts as completed only while its lifecycle is `draft`, which needs `GoodRoom`; and a
  contract that is not the newest is closed (`OlderClosed`), so a patch that names one changes nothing.
  With `StudiesMove` this closes the composition: `AcceptanceSaysWhatWasSo` and `ClicksKeepTheirWord` assume of the others what these
  theorems prove of them, for any constants. Three things were corrected because the proofs did not go through: a room
  may be created with an open critical blocker, a pilot may be registered on an analysis that is no longer the newest, and
  the server's answer to a rejected acceptance (`Takes`) had two alternatives that overlapped. One assumption stays:
  `PilotEvidence` takes the order of commits for the order of `createdAt`. Requests that overlap may break it; one
  at a time they cannot, which is `SequentialLookupsAgree`.
* Workbench. `ClickKeepsItsWord` rests on what the stages of a kind look like: they climb without
  repeating one, so a stage has at most one below it (`FollowingIsOneToOne`), and a button that names a stage
  is enabled on that one only (`ButtonsAreBelow`). The invariant (`WorkbenchInv`) says of each
  request still on its way that it is what its button said at the click (`Pressed`). If the server takes it, the record is one stage
  below what it names, hence at the stage the page had.
* Acceptance. The invariant is about one record (`Good`): it adds to the gates that the executive is asked only in
  `executive_review`, and that the package is never taken back. Each action that
  starts from a good record writes a good one, so interleaving cannot matter: the
  gates are judged inside the transaction. A created record is good with any claims, because a draft has passed no gate, and the
  signatures it claims are reset by the requests for them. What is judged outside, the control
  room, is exactly what cannot be proved (`PilotAcceptanceStale`). `StatusesBacked` (a criterion somebody verified has its evidence, and the trail
  agrees with the stage) is a part of `Good`. A step leaves the records
  alone, adds one while none is active, or writes the latest (`RecordStep`); `ActiveIsLatest`,
  `SignedEvidenceFixed` and `ClosedStays` follow from that.
* Breaker. `LeaksBounded` counts what was sent; the invariant (`Budget`) adds the
  requests that will still send, and needs that the count is zero while the latch
  is closed. A trigger that reads an open latch never joins them, a commit takes one
  away, and the trigger that opens the latch is not one of them. `ResetHolds`
  needs no invariant beyond the types: only a request that saw the latch closed trips it.
* Limiter. `TwiceTheLimit` speaks of every stretch of time, the code of one window. The invariant
  (`GoodRow`) is about one caller: an open window has counted all that got through since it
  began, no more than the limit got through in the time before it, and if no window is open, no more than the limit
  in the last time as long as one. A sweep takes away closed windows only. What got through in a stretch is a difference
  of two sums (`SumsClimb`, `SumsCount`, `SumsRest`).
* Billing. Reports of one client and month replace one another, and each was worked out on runs that are
  still there (`GoodReports`), because runs are only added. What is rounded is off by half a unit at most (`RoundedFits`).
  That reports of different months then say no more than all runs and half a unit each (`MonthsAddUp`) is additivity of a total over sets, for which the fold of the community module
  is unfolded (`TotalUnfolds`).
* Evidence of an acceptance. `EvidenceWasTrue` relates an acceptance to six reads that others
  interleave with. The invariant (`EvidenceInv`) says of a request what each read was worth: what it
  has of contract and ledger was so since it came, and experiment, version and readiness are of the
  analysis it read first. It stays so because studies only grow (`SourcesGrow`): an experiment keeps
  its analysis, its outcomes are only added to. What the request has is then copied into the record.
* Decision gates. `GatesInv` says that every stored outcome was decided by the gates on the
  experiment there is (`GoodOutcome`). That an adequate file has enough customers on both arms is counted:
  a file names each customer once, so rows are as many as customers.
* Retention. `FreshIsCurrent` needs that the newest record by date is one of those drawn last, and that a
  record's queue is what its file gives under the settings it carries the hash of
  (`GoodRecord`), also while a request still holds it. `AudiencePermitted` adds that these settings, and those in any
  request's hands, were accepted by the server (`AudienceInv`); the rest is about one file (`AllowedDeserves`) and goes
  through the whole of `QueueOf`: the newest row is one of the customer's, sorting loses and repeats
  nothing (`EveryPlaceIsTaken`), purchases are as many as their transactions, and an allowed decision is
  due and not long lost, since no action is planned for the others. That `due` is below `lapsed` is
  needed where `classifyState` asks for both.
  `ShadowRunsTakeTheirShare` proves `RetentionTypeOK`, a conjunct of `PlatformTypeOK`: a stamp is drawn for one
  analysis, stored or in a request's hands (`DrawnOnce`), so there are no more analyses than stamps; and of any queue
  one decision of each customer is kept, in the order of the queue (`OnceEach`, `ShadowRunTakesItsShare`).
* Chains. The invariant (`ChainInv`) says that the records of an organization nobody spoilt are linked, and that of
  each other one some record is not. An appended record names the last of its own organization and so
  leaves all links as they are; cutting off the newest does too. An edited record no longer has its hash. When one is
  taken out, the next of its organization names a hash that no longer precedes it: a hash is longer than the one it
  goes back to, so no earlier record has it (`HashSays`).
* Migrations. A server that is up found every version recorded with its own checksums, and a commit
  that would change any of them conflicts; `MigrationInv` is inductive as it stands.
* Registry of models. An index is read and replaced without a lock, so every index there is, in the file,
  in the temporary file and in a program's hands, must be sound (`RegistryInv`), and a version is known to
  nobody before its artifacts are written, then only to the program that wrote them.
* Access. `AccessInv` adds to the types that an account with sessions has an organization, and that each session
  carries the password of its account.
* Artifacts and backups. `GoodArtifact` has a clause for each stage of a request and for each way to have
  failed. `BackupInv` builds on it: what a run has archived, and still has to, covers the
  metadata it dumped unless that was removed meanwhile, so a pair that is whole restores.

The library's induction theorems take an operator as a parameter, which no backend can
instantiate. Where sums and totals need induction, it is had from the least element of a set of numbers
(`Least`, `Induction`, and `SetInduction` over the subsets of a finite set), of sets in place of formulas. Of `SortSeq` and
`SelectSeq` the prover knows nothing; sorting and filtering are therefore written with positions.

Only model-checked:

* liveness (`DroppedOrSettled`, `CallsSettle`), which is out of the prover's reach;
* `PlatformTypeOK` as a whole: the theorems have the types they need, and that of the retention part;
* the six violations of section 6, which are counterexamples.

## 6. Where code and documents disagree

Each has a run that TLC finds violated, and an entry in `PROJECT.json`.

* `docs/experiment-registry.md:30`: a second registration is blocked with 409. Two that overlap are not.
* `docs/experiment-registry.md:54`: every outcome takes an incremental version. Two that overlap take the same.
* `docs/production-readiness-audit.md:17`, `docs/sprint4-production-platform.md:9`: durable queue with bounded retry. A job whose worker dies is never retried.
* `docs/sprint4-production-platform.md:36`: a failed job shows its error. One with an empty message is shown as completed.
* `src/drift-monitor.js:5`, `docs/enterprise-platform-fa.md:59`: the drift measured on the organization's outcomes halts SENDs. It is read from `record.summary`, which no stored outcome has, and is always 0.
* `tests/production-acceptance.test.js:256`: certification is blocked by an open critical blocker. Not by one opened after the context was read.

The following are not runs. Each was met while a module was written, which contains it as it is.

Decisions and evidence
* `docs/claim-ladder.md:14` lets "Scale" follow only after the guardrails pass; `decideExperiment` lets an unavailable guardrail through, and that of cost always is. The same ladder asks D3 for a balance check, which no code makes, and D4 (`verified_incremental`) cannot be reached because `financeVerificationStatus` is always `not_verified` (`src/pilot.js:201`). The documents' remark that the engine produces only D1 and D2 is outdated.
* `importOutcomeAnalysis` accepts outcomes for blocked and for demonstration experiments: it does not ask `acceptsOutcome`.
* A create request may claim statuses, signatures, a package, experiment and outcome (`src/production-acceptance.js:49`). Claimed criteria and a claimed package count for the gates, although line 123 wants evidence before a verification: `GatesHold` says that stages were passed and signatures recorded, not that every criterion was checked. `EvidenceWasTrue` says nothing of statuses the client claims, and of the record's outcome only when the client names no study.
* `approval.status` may run ahead of the contract's stage: a padded `" locked "` is no transition (`src/pilot-contract.js:135`) but is stored trimmed (`:426`), although the message at line 137 wants both to describe the same transition. Any patch of it that is no stage is stored as well. `ApprovalOnRecord` speaks of the stage and the histories.
* An acceptance keeps its experiment while a missing outcome is filled in later from another one (`src/production-acceptance.js:21-25`), so a package may print one experiment's id beside another one's outcome. The demonstration analysis counts as ready in the executive readiness once the room runs.

Workbench
* The next stage of contract and control room is taken from `currentPilotLifecycle`, assigned at `src/app.js:877`, while the buttons show the previous one until line 885.
* Saving the ledger form sends the status of finance along (`src/app.js:933`), which `resolveLifecycleTarget` takes for a transition.
* Only the pressed button is busy, so an older reload may end after a newer one. An approval may meet terms another page has changed, "Verify" a newer ledger, evidence another acceptance. The preview of an earlier retention file may end after another file was chosen (`src/app.js:1671-1835`).

Queue
* PostgreSQL may store two live jobs of one dedupe key when two inserts overlap (`src/storage.js:284`); `tests/platform.test.js:61` shows the second of two refused, one after the other. The only caller (`src/server.js:2279`) uses the id of what it has just stored as the key, so two requests do not meet on one.

Retention
* A row whose expiry or validity cannot be read does not keep a file from being imported (`src/channel-retention-readiness.js:93`: the check is not critical) but is left out of the purchases (`src/channel-retention-dataset.js:132`, `timed` in `Retention`): somebody who has just bought may be in the audience.
* An import writes back the configuration it read, over an update made meanwhile. The brief combines the newest analysis with the newest shadow run, perhaps of another one. `audience.csv` is exported from a stale workspace too. A newer row without it overrides `do_not_contact` in an older one (`docs/contact-safety-contract-fa.md:24`).

Registry of models, usage, access
* `registry.py:6` and `retrain.py:6` speak of challengers that are archived; one that is held stays `candidate`. Two programs share `registry.json.tmp`, and lose each other's update of the index. A rollback to the version in production makes it its own previous version.
* A run that is stored after its month's report is not billed. A month is billed in whole units (`src/billing-report.js:63`): two months with half a unit each are billed one and one, so the months may add up to more than was saved, by half a unit each at most. Sums of binary fractions may besides err by less than the hundredths they are given in; the model adds exactly. Events are capped over all organizations (`src/server.js:2335`). A login discards the removal of the previous session (`src/server.js:946`).

Backups
* `verify-backup.sh` picks dump and archive independently and reads `lastBackupCreatedAt` when it ends: it may report a pair of two backups, or the date of a backup it has not restored. `status.json` is rewritten in place. Its dates are written with `-` between hours and minutes, which is not the date format ECMAScript defines, while `backupHealth` compares their age; where the parser refuses them the health is never `ok`.

## 7. Not modelled

* The numerical analytics (`src/analysis.js`, `src/customer-analysis.js`, `src/statistics.js`, `src/model-governance.js`, the survival and churn modules) and the learned models: floating point and distributions over uploaded rows, with no state of their own. Of `src/behavioral-policy.js` the thresholds are in `Retention`, the wording is not.
* Reports that only render state (`src/enterprise-*.js`, `src/usability-*.js`), probes, logging, configuration and parsing, and the rendering of `src/app.js`.
* Several processes on one JSON file: the code has no lock for it, and production uses PostgreSQL.
* Organizations beside each other, except where they meet in one list or table (chains, limiter, events): every handler filters by the organization of the session.
* Deployment scripts.

What is left to prove: the types of the parts of `Platform` that no theorem needs.
