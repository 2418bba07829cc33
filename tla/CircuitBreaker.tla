---------------------------- MODULE CircuitBreaker ----------------------------
(***************************************************************************)
(* The circuit breaker of one organization: POST orchestrate/trigger and   *)
(* orchestrate/reset of src/server.js, evaluateCircuitBreaker of           *)
(* src/orchestrator.js, the drift of src/drift-monitor.js and the halt     *)
(* decision of the Python scorer.                                          *)
(*                                                                         *)
(* A trigger reads a snapshot, judges latch and drift on it, asks the      *)
(* scorer for the commands (SEND or DROP per customer) and only then       *)
(* writes the log and, if it tripped, the latch.  Other triggers, resets   *)
(* and outcomes come in between.  Whether a run is halted is all that is   *)
(* kept of its commands.                                                   *)
(***************************************************************************)
EXTENDS Integers, Sequences, FiniteSets

CONSTANTS
  Requests,   \* the triggers that may be in progress at the same time
  Readings,   \* the values of body.causal_drift, in units of rounding
  Drifts,     \* how far the outcomes that arrive are from the prediction
  Threshold,  \* orchestrationDriftThreshold
  Absent,     \* a field that is missing
  MaxRuns     \* bound: entries of the log

ASSUME BreakerAssumption ==
  /\ IsFiniteSet(Requests)
  /\ Readings \subseteq Int
  /\ Drifts \subseteq Nat
  /\ Threshold \in Nat \ {0}
  /\ Absent \notin Int
  /\ MaxRuns \in Nat

VARIABLES
  latch,     \* orchestrationHalts[orgId]
  outcome,   \* the latest outcome of the organization
  logs,      \* its orchestrationLogs
  req,       \* per request its body and what the snapshot told it
  leaked     \* history: runs with SENDs logged since the latch opened

vars == <<latch, outcome, logs, req, leaked>>

Closed == [open |-> FALSE, drift |-> 0]

\* importOutcomeAnalysis stores the summary inside the analysis.
StoredOutcome(drift) == [summary |-> Absent, analysis |-> drift]

NoOutcome == [summary |-> Absent, analysis |-> Absent]

Idle == [pc |-> "idle", supplied |-> Absent, outcome |-> NoOutcome, latchOpen |-> FALSE]

Outcome == [summary : Int \cup {Absent}, analysis : Int \cup {Absent}]

Reasons == {"none", "latched", "causal_drift_exceeded"}

TypeOK ==
  /\ latch \in [open : BOOLEAN, drift : Int]
  /\ outcome \in Outcome
  /\ logs \in Seq([halted : BOOLEAN, reason : Reasons, drift : Int])
  /\ req \in [Requests -> [pc : {"idle", "deciding", "decided"},
                           supplied : Int \cup {Absent},
                           outcome : Outcome, latchOpen : BOOLEAN]]
  /\ leaked \in Nat

Init ==
  /\ latch = Closed
  /\ outcome = NoOutcome
  /\ logs = <<>>
  /\ req = [r \in Requests |-> Idle]
  /\ leaked = 0

-----------------------------------------------------------------------------
(* What a trigger in state q computes from its body and its snapshot.      *)

\* assessOutcomeDrift: an outcome without a summary gives no signal.
MeasuredDrift(o) == IF o.summary = Absent THEN 0 ELSE o.summary

CausalDrift(q) == IF q.supplied = Absent THEN MeasuredDrift(q.outcome) ELSE q.supplied

Breach(q) == CausalDrift(q) > Threshold

\* Mutant: the latch is not consulted.
LatchIgnored(q) == IF Breach(q) THEN "causal_drift_exceeded" ELSE "none"

\* Mutant: the reading is judged before the latch.
BreachFirst(q) ==
  IF Breach(q) THEN "causal_drift_exceeded"
  ELSE IF q.latchOpen THEN "latched" ELSE "none"

\* evaluateCircuitBreaker
Breaker(q) ==
  IF q.latchOpen THEN "latched"
  ELSE IF Breach(q) THEN "causal_drift_exceeded" ELSE "none"

Tripped(q) == Breaker(q) = "causal_drift_exceeded"

ForceHalt(q) == Breaker(q) # "none"

\* The scorer decides with the threshold it was sent.
Halted(q) == ForceHalt(q) \/ Breach(q)

HaltReason(q) == IF ForceHalt(q) THEN Breaker(q) ELSE "none"

-----------------------------------------------------------------------------
\* The latest outcome is looked up only for a body without a reading.
Trigger(r, supplied) ==
  /\ req[r].pc = "idle"
  /\ req' = [req EXCEPT ![r] =
       [pc |-> "deciding", supplied |-> supplied,
        outcome |-> IF supplied = Absent THEN outcome ELSE NoOutcome,
        latchOpen |-> latch.open]]
  /\ UNCHANGED <<latch, outcome, logs, leaked>>

\* The scorer answers; it refuses a negative drift.
Decide(r) ==
  /\ req[r].pc = "deciding"
  /\ CausalDrift(req[r]) >= 0
  /\ req' = [req EXCEPT ![r].pc = "decided"]
  /\ UNCHANGED <<latch, outcome, logs, leaked>>

\* Mutant: an open latch is not written again.
FirstTrip(q) ==
  IF Tripped(q) /\ ~latch.open THEN [open |-> TRUE, drift |-> CausalDrift(q)] ELSE latch

LatchAfter(q) ==
  IF Tripped(q) THEN [open |-> TRUE, drift |-> CausalDrift(q)] ELSE latch

\* The mutator: log and latch in one transaction.
Commit(r) ==
  LET q == req[r] IN
  /\ q.pc = "decided"
  /\ Len(logs) < MaxRuns
  /\ logs' = Append(logs, [halted |-> Halted(q), reason |-> HaltReason(q),
                           drift |-> CausalDrift(q)])
  /\ latch' = LatchAfter(q)
  /\ leaked' = IF latch.open /\ ~Halted(q) THEN leaked + 1 ELSE leaked
  /\ req' = [req EXCEPT ![r] = Idle]
  /\ UNCHANGED outcome

\* The scorer times out or answers with an error, or the transaction fails.
Fail(r) ==
  /\ req[r].pc # "idle"
  /\ req' = [req EXCEPT ![r] = Idle]
  /\ UNCHANGED <<latch, outcome, logs, leaked>>

\* orchestrate/reset by an owner.
Reset ==
  /\ latch' = Closed
  /\ leaked' = 0
  /\ UNCHANGED <<outcome, logs, req>>

\* A newer outcome is imported.
OutcomeArrives(drift) ==
  /\ outcome' = StoredOutcome(drift)
  /\ UNCHANGED <<latch, logs, req, leaked>>

Next ==
  \/ \E r \in Requests :
       \/ \E supplied \in Readings \cup {Absent} : Trigger(r, supplied)
       \/ Decide(r)
       \/ Commit(r)
       \/ Fail(r)
  \/ Reset
  \/ \E drift \in Drifts : OutcomeArrives(drift)

Spec == Init /\ [][Next]_vars

-----------------------------------------------------------------------------
(* Correctness                                                             *)

\* What an open latch promises when its readers act on a snapshot: only runs
\* that were under way when it opened still send, so at most one per other
\* request, however many triggers follow before the reset.
\* (orchestrator.js:35-37)
LeaksBounded == latch.open => leaked < Cardinality(Requests)

IsTrip(i) == logs[i].reason = "causal_drift_exceeded"

\* An open latch shows the drift of the newest run that is logged as a breach,
\* also after two triggers tripped it and after a reset in between.
\* (server.js:801-808)
TripLogged ==
  latch.open =>
    \E i \in DOMAIN logs :
      /\ IsTrip(i)
      /\ logs[i].drift = latch.drift
      /\ \A j \in DOMAIN logs : j > i => ~IsTrip(j)

\* A trigger that saw the latch open cannot undo a reset that came while it
\* waited for the scorer: only a trigger that saw the latch closed opens it.
\* (orchestrator.js:38-42, server.js:814-820)
ResetHolds ==
  [][~latch.open /\ latch'.open =>
       \E r \in Requests : ~req[r].latchOpen /\ req[r].pc = "decided" /\ req'[r] = Idle]_vars

\* What drift-monitor.js:3-7 says: an outcome whose drift crosses the
\* threshold halts the triggers that bring no reading of their own.
MeasuredBreachHalts ==
  \A r \in Requests :
    /\ req[r].pc = "decided"
    /\ req[r].supplied = Absent
    /\ req[r].outcome.analysis # Absent
    /\ req[r].outcome.analysis > Threshold
    => Halted(req[r])

=============================================================================
