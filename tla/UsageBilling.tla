------------------------------ MODULE UsageBilling ------------------------------
(***************************************************************************)
(* What clients send is logged (orchestration and shadow runs, outcomes    *)
(* reported as training examples, events), and the spend that orchestrated *)
(* runs held back is billed by the month: the handlers of src/server.js,   *)
(* src/billing-report.js, src/shadow-evaluator.js, src/training-store.js   *)
(* and scripts/generate-monthly-report.js, which reads the logs, works out *)
(* the reports and stores them in a transaction of its own.                *)
(*                                                                         *)
(* Months stand for timestamps.  A run carries the time of the answer of   *)
(* the scorer and is stored later; a report may be made for any month, by  *)
(* the timer for the last one.                                             *)
(*                                                                         *)
(* Costs and what a run held back are counted in parts of the currency's   *)
(* unit (the scorer answers with two decimals, in hundredths); a report    *)
(* states units, rounded.  The share that is owed is a part of the same    *)
(* sum and is left out.                                                    *)
(***************************************************************************)
EXTENDS FiniteSets, Naturals, Sequences, SequencesExt, FiniteSetsExt

CONSTANTS
  Clients,        \* organizations
  Runs,           \* identifiers of runs, each of them logged once
  Generators,     \* reports that are being made
  Costs,          \* what messages may cost, in parts of a unit
  Unit,           \* the parts of a unit
  LastMonth,      \* bound: months
  MaxExamples,    \* MAX_EXAMPLES of the training store
  MaxEvents       \* the events that are kept

ASSUME UsageAssumption ==
  /\ {LastMonth, MaxExamples, MaxEvents} \cup Costs \subseteq Nat
  /\ Unit \in Nat \ {0}

VARIABLES
  month,          \* the current month
  running,        \* runs the scorer has answered and nobody has stored
  runLogs,        \* db.orchestrationLogs and db.shadowLogs
  reports,        \* db.monthlyReports
  generator,      \* the reports each generator is about to store
  examples,       \* db.trainingExamples
  events          \* db.events

usageVars == <<month, running, runLogs, reports, generator, examples, events>>

Months == 1..LastMonth

\* A logged run; "dropped" and "sent" are the costs of the two commands.
Run == [id : Runs, client : Clients, live : BOOLEAN, halted : BOOLEAN, month : Months,
        saved : Nat]

Report == [client : Clients, month : Months, saved : Nat, halts : Nat, advisory : Nat]

NotMaking == [pc |-> "idle"]

UsageTypeOK ==
  /\ month \in Months
  /\ running \cup runLogs \subseteq Run
  /\ reports \subseteq Report
  /\ \A g \in Generators :
       generator[g] = NotMaking \/ (generator[g].pc = "made" /\ generator[g].reports \subseteq Report)
  /\ examples \in Seq(Clients) /\ Len(examples) <= MaxExamples
  /\ events \in Seq(Clients) /\ Len(events) <= MaxEvents

UsageInit ==
  /\ month = 1
  /\ running = {} /\ runLogs = {} /\ reports = {}
  /\ generator = [g \in Generators |-> NotMaking]
  /\ examples = <<>> /\ events = <<>>

-----------------------------------------------------------------------------
(* Logging                                                                 *)

\* What a run holds back: all it would have cost when it is halted, and the
\* others than the persuadable when it is not.
Saved(halted, persuadable, others) == IF halted THEN persuadable + others ELSE others

\* orchestrateCampaign and evaluateShadow: the scorer has answered.
RunAnswered(id, client, live, halted, persuadable, others) ==
  /\ \A r \in running \cup runLogs : r.id # id
  /\ running' = running \cup
       {[id |-> id, client |-> client, live |-> live, halted |-> live /\ halted,
         month |-> month, saved |-> Saved(live /\ halted, persuadable, others)]}
  /\ UNCHANGED <<month, runLogs, reports, generator, examples, events>>

\* The transaction that pushes the log; it fails or not.
StoreRun(r) ==
  /\ running' = running \ {r}
  /\ runLogs' = runLogs \cup {r}
  /\ UNCHANGED <<month, reports, generator, examples, events>>

LoseRun(r) ==
  /\ running' = running \ {r}
  /\ UNCHANGED <<month, runLogs, reports, generator, examples, events>>

\* Mutant: nothing is cut.
AllOf(s, most) == s

\* Array.slice(-most) of what was stored with the new entries.
LastOf(s, most) == IF Len(s) > most THEN SubSeq(s, Len(s) - most + 1, Len(s)) ELSE s

\* buildTrainingExamples: one for each result that is reported.
Examples(client, n) == [i \in 1..n |-> client]

\* POST /api/v1/outcomes/report: a batch, appended and cut by appendExamples.
ReportOutcomes(client, n) ==
  /\ examples' = LastOf(examples \o Examples(client, n), MaxExamples)
  /\ UNCHANGED <<month, running, runLogs, reports, generator, events>>

\* trackEvent; the events of all clients share the places.
TrackEvent(client) ==
  /\ events' = LastOf(Append(events, client), MaxEvents)
  /\ UNCHANGED <<month, running, runLogs, reports, generator, examples>>

-----------------------------------------------------------------------------
(* Billing                                                                 *)

InMonth(r, m) == r.month = m

Total(runs) == MapThenSumSet(LAMBDA r : r.saved, runs)

\* Math.round of what so many parts are in units: a half goes up.
Rounded(parts) == (2 * parts + Unit) \div (2 * Unit)

\* generateMonthlyReport: only orchestrated runs are billed, shadow runs are
\* told beside them.
MonthlyReport(client, m) ==
  LET own == {r \in runLogs : r.client = client /\ InMonth(r, m)} IN
  [client |-> client, month |-> m,
   saved |-> Rounded(Total({r \in own : r.live})),
   halts |-> Cardinality({r \in own : r.halted}),
   advisory |-> Rounded(Total({r \in own : ~r.live}))]

\* generate-monthly-report.js reads the database and makes a report of every
\* client with a log.
MakeReports(g, m) ==
  /\ generator[g] = NotMaking
  /\ generator' = [generator EXCEPT ![g] =
       [pc |-> "made",
        reports |-> {MonthlyReport(client, m) : client \in {r.client : r \in runLogs}}]]
  /\ UNCHANGED <<month, running, runLogs, reports, examples, events>>

\* Mutant: the new report stands beside the one before it.
KeptBeside(stored, r) == stored

\* The report of the same client and period makes room.
WithoutPeriod(stored, r) ==
  {s \in stored : ~(s.client = r.client /\ s.month = r.month)}

\* The transaction that replaces them.
StoreReports(g) ==
  /\ generator[g] # NotMaking
  /\ LET made == generator[g].reports IN
       reports' = {s \in reports : \A r \in made : s \in WithoutPeriod(reports, r)} \cup made
  /\ generator' = [generator EXCEPT ![g] = NotMaking]
  /\ UNCHANGED <<month, running, runLogs, examples, events>>

MonthPasses ==
  /\ month < LastMonth
  /\ month' = month + 1
  /\ UNCHANGED <<running, runLogs, reports, generator, examples, events>>

UsageNext ==
  \/ \E id \in Runs, client \in Clients, live, halted \in BOOLEAN,
        persuadable \in Costs, others \in Costs :
       RunAnswered(id, client, live, halted, persuadable, others)
  \/ \E r \in running : StoreRun(r)
  \/ \E r \in running : LoseRun(r)
  \/ \E client \in Clients, n \in 1..2 : ReportOutcomes(client, n)
  \/ \E client \in Clients : TrackEvent(client)
  \/ \E g \in Generators, m \in Months : MakeReports(g, m)
  \/ \E g \in Generators : StoreReports(g)
  \/ MonthPasses

UsageSpec == UsageInit /\ [][UsageNext]_usageVars

-----------------------------------------------------------------------------
(* Properties                                                              *)

\* Reports may be made again, for any month and by several generators at once,
\* and runs are stored late: a month of a client is billed once, and its reports
\* add up to no more than what its orchestrated runs held back and the half unit
\* that rounding may add to each of them.
NothingBilledTwice ==
  /\ \A s, t \in reports : s.client = t.client /\ s.month = t.month => s = t
  /\ \A client \in Clients :
       LET billed == {s \in reports : s.client = client}
           live == {r \in runLogs : r.client = client /\ r.live}
       IN  2 * Unit * Total(billed) <= 2 * Total(live) + Unit * Cardinality(billed)

=============================================================================
