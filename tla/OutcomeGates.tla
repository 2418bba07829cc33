------------------------------ MODULE OutcomeGates ------------------------------
(***************************************************************************)
(* From an experiment to a budget decision: what is locked when it is      *)
(* registered, the audit of an outcome file, the decision, and the claim   *)
(* the readout makes of it (src/experiment.js, src/statistics.js,          *)
(* src/pilot.js, and the handlers of src/server.js that call them).        *)
(*                                                                         *)
(* Days stand for timestamps.  Estimates are not computed: an outcome      *)
(* comes with confidence intervals, whatever they are, and what is made of *)
(* them is the code's.  The chi-square test of the sample ratio is exact,  *)
(* in integers, against the critical values of its p-value.                *)
(***************************************************************************)
EXTENDS FiniteSets, FiniteSetsExt, Functions, Integers, Sequences, SequencesExt

CONSTANTS
  Customers,      \* customers of an organization
  Treatments,     \* groups of knownGroups besides the control
  OutcomeFiles,   \* outcome files: sequences of rows
  Results,        \* the intervals of a file: primary, revenue, conversion, and roi
  OutcomeWindow,  \* outcomeWindowDays
  Margin,         \* what revenue and conversion may lose, negative
  MinSample,      \* minimumSamplePerArm: 50
  LeastPerArm,    \* rows an interval takes of each arm: 2
  LeastExpected,  \* rows expected of a group for the ratio test: 5
  MaxDay,         \* bound: the day
  MaxOutcomes     \* bound: outcomes stored

ASSUME GatesAssumption ==
  /\ {OutcomeWindow, MinSample, LeastPerArm, LeastExpected, MaxDay, MaxOutcomes}
       \subseteq Nat
  /\ Margin \in Int
  /\ "control" \notin Treatments
  /\ IsFiniteSet(Customers)
  /\ \A rows \in OutcomeFiles :
       /\ rows \in Seq(ToSet(rows))
       /\ \A i \in DOMAIN rows : rows[i].exposedAt \in Nat \cup {-1}

VARIABLES
  day,            \* Date.now()
  experiment,     \* the current experiment, or NoExperiment
  outcomes        \* its outcomes, with what was derived from them

gateVars == <<day, experiment, outcomes>>

Groups == Treatments \cup {"control"}
NoExperiment == [id |-> "none"]
NotExposed == -1

-----------------------------------------------------------------------------
(* Registration                                                            *)

\* normalizeRandomizationEvidence: what a client declares proves nothing, only
\* what the server generated does.
Declared == [verified |-> FALSE, source |-> "unverified_declaration"]
Generated == [verified |-> TRUE, source |-> "server_generated"]
Randomized(evidence) == evidence.verified /\ evidence.source = "server_generated"

\* buildExperimentRecord, with its assignmentIntegrity
Experiment(assignment, evidence, intact) ==
  [id |-> "experiment", assignment |-> assignment, verified |-> Randomized(evidence),
   intact |-> intact, lockedAt |-> day]

\* holdoutRate leaves both arms with somebody.
Holdouts == {s \in SUBSET Customers : s # {} /\ s # Customers}

-----------------------------------------------------------------------------
(* auditOutcomeRows                                                        *)

Treated(rows) == {i \in DOMAIN rows : rows[i].group # "control"}
Controls(rows) == DOMAIN rows \ Treated(rows)
Exposures(rows) == {rows[i].exposedAt : i \in Treated(rows)} \ {NotExposed}

\* fatalIssues
Fatal(e, rows) ==
  \/ \E i, j \in DOMAIN rows : i # j /\ rows[i].customer = rows[j].customer
  \/ \E i \in DOMAIN rows :
       \/ rows[i].customer \notin DOMAIN e.assignment
       \/ rows[i].group # e.assignment[rows[i].customer]
       \/ rows[i].group \notin Groups
       \/ ~rows[i].sound
  \/ \E i \in Treated(rows) : rows[i].exposedAt = NotExposed

\* coverage, between 95 and 100 percent
Covered(e, rows) ==
  LET n == Len(rows) all == Cardinality(DOMAIN e.assignment) IN
  100 * n >= 95 * all /\ n <= all

\* Mutant: the plan was locked before somebody was exposed.
SomeLater(e, rows) ==
  Exposures(rows) # {} /\ e.lockedAt <= Max(Exposures(rows))

\* evaluateProspectiveRegistration
Prospective(e, rows) ==
  Exposures(rows) # {} /\ e.lockedAt <= Min(Exposures(rows))

\* evaluateOutcomeWindow
WindowClosed(rows) ==
  /\ Treated(rows) # {}
  /\ \A i \in Treated(rows) : rows[i].exposedAt # NotExposed
  /\ day >= Max(Exposures(rows)) + OutcomeWindow

\* evaluateSrm: p >= 0.01 with one, two or three degrees of freedom, in thousandths.
Critical(df) == CASE df = 1 -> 6635 [] df = 2 -> 9210 [] df = 3 -> 11345 [] OTHER -> -1
RatioHolds(e, rows) ==
  LET groups == Range(e.assignment)
      all == Cardinality(DOMAIN e.assignment)
      n == Len(rows)
      assigned(g) == Cardinality({c \in DOMAIN e.assignment : e.assignment[c] = g})
      observed(g) == Cardinality({i \in DOMAIN rows : rows[i].group = g})
      common == MapThenFoldSet(LAMBDA x, y : x * y, 1, assigned, LAMBDA gs : CHOOSE g \in gs : TRUE, groups)
      \* the chi-square of a group, times n * all * common
      part(g) == LET d == observed(g) * all - n * assigned(g) IN d * d * (common \div assigned(g))
  IN
  /\ Cardinality(groups) >= 2 /\ n > 0
  /\ \A g \in groups : n * assigned(g) >= LeastExpected * all
  /\ 1000 * MapThenSumSet(part, groups) <= Critical(Cardinality(groups) - 1) * n * all * common

\* decisionEligible
DecisionEligible(e, rows) ==
  /\ ~Fatal(e, rows)
  /\ e.intact /\ e.verified
  /\ Prospective(e, rows) /\ Covered(e, rows) /\ WindowClosed(rows) /\ RatioHolds(e, rows)
  /\ \A i \in Controls(rows) : rows[i].exposedAt = NotExposed
  /\ Controls(rows) # {} /\ Treated(rows) # {}

-----------------------------------------------------------------------------
(* The decision and the claim                                              *)

\* Both arms have so many rows.
BothArms(rows, n) ==
  Cardinality(Treated(rows)) >= n /\ Cardinality(Controls(rows)) >= n

\* sample.adequate of analyzeExperimentOutcome
Adequate(rows) == BothArms(rows, MinSample)

\* compareMeans: an interval takes rows of both arms, and a variance.
StudyValid(rows, s) == BothArms(rows, LeastPerArm) /\ s.primary.varies /\ s.revenue.varies

\* nonInferiorityGuardrail
NonInferior(c) ==
  IF c.low >= Margin THEN "pass" ELSE IF c.high < Margin THEN "fail" ELSE "inconclusive"

\* evaluateGuardrails; defaultAnalysisPlan sets no ceiling on the cost.
Guardrails(s) == {NonInferior(s.revenue), NonInferior(s.conversion), "unavailable"}

\* decideExperiment
Decision(eligible, rows, s) ==
  IF ~eligible \/ ~StudyValid(rows, s) THEN "needs_review"
  ELSE IF "fail" \in Guardrails(s) \/ s.primary.high <= 0 THEN "stop"
  ELSE IF s.primary.low > 0 /\ Adequate(rows) /\ "inconclusive" \notin Guardrails(s) /\ s.roi
       THEN "scale"
  ELSE "iterate"

\* evidenceStatus of analyzeOutcomeRows
EvidenceStatus(eligible, rows, s) ==
  IF eligible /\ StudyValid(rows, s) /\ Adequate(rows) THEN "decision_grade" ELSE "descriptive_only"

\* resolveClaimLevel
ClaimLevel(o) ==
  IF o.evidenceStatus = "decision_grade" /\ o.finance = "verified" THEN "verified_incremental"
  ELSE IF o.evidenceStatus = "decision_grade" THEN "randomized_estimate"
  ELSE "pilot_observation"

\* decisionComplete of buildPilotWorkspace
DecisionComplete(o) == o.eligible /\ o.decision \in {"scale", "stop"}

-----------------------------------------------------------------------------
(* Handlers                                                                *)

GatesInit == day = 0 /\ experiment = NoExperiment /\ outcomes = <<>>

\* importCustomerAnalysis: what the file says was done, perhaps with a customer in
\* two groups; a method may be declared, the evidence is not.
ImportHistory ==
  /\ \E a \in [Customers -> Groups], intact \in BOOLEAN :
       experiment' = Experiment(a, Declared, intact)
  /\ outcomes' = <<>>
  /\ UNCHANGED day

\* registerProspectiveExperiment: the server draws the holdout and locks the plan.
\* While a registered one has no outcome there is no other.
RegisterExperiment ==
  /\ ~(experiment # NoExperiment /\ experiment.verified /\ outcomes = <<>>)
  /\ \E holdout \in Holdouts, recommended \in [Customers -> Treatments] :
       experiment' = Experiment(
         [c \in Customers |-> IF c \in holdout THEN "control" ELSE recommended[c]], Generated, TRUE)
  /\ outcomes' = <<>>
  /\ UNCHANGED day

\* importOutcomeAnalysis: a fatal issue refuses the file.
ImportOutcome(rows, s) ==
  /\ experiment # NoExperiment
  /\ Len(outcomes) < MaxOutcomes
  /\ ~Fatal(experiment, rows)
  /\ LET eligible == DecisionEligible(experiment, rows) IN
     outcomes' = Append(outcomes,
       [rows |-> rows, at |-> day, result |-> s, eligible |-> eligible,
        decision |-> Decision(eligible, rows, s),
        evidenceStatus |-> EvidenceStatus(eligible, rows, s),
        finance |-> "not_verified"])
  /\ UNCHANGED <<day, experiment>>

DayPasses == day < MaxDay /\ day' = day + 1 /\ UNCHANGED <<experiment, outcomes>>

GatesNext ==
  \/ ImportHistory
  \/ RegisterExperiment
  \/ \E rows \in OutcomeFiles, s \in Results : ImportOutcome(rows, s)
  \/ DayPasses

GatesSpec == GatesInit /\ [][GatesNext]_gateVars

-----------------------------------------------------------------------------
(* Properties                                                              *)

GatesTypeOK ==
  /\ day \in 0..MaxDay
  /\ experiment = NoExperiment \/ experiment.lockedAt \in 0..day
  /\ Len(outcomes) <= MaxOutcomes
  /\ \A i \in DOMAIN outcomes :
       outcomes[i].decision \in {"needs_review", "stop", "scale", "iterate"}

\* docs/claim-ladder.md: "Scale" only with a claim of D3, and D3 only when the
\* server drew the groups before anybody was exposed, everybody's window is closed,
\* nobody of the control was exposed, nearly everybody is reported once in the
\* group drawn for them, both arms are large enough; and the file, the decision,
\* the claim and the workspace's steps say the same.
ScaleClimbedTheLadder ==
  \A k \in DOMAIN outcomes :
    LET o == outcomes[k] rows == o.rows
        of(g) == {i \in DOMAIN rows : rows[i].group = g}
    IN
    /\ o.decision = "scale" => /\ ClaimLevel(o) = "randomized_estimate"
                               /\ o.result.primary.low > 0
                               /\ o.result.revenue.low >= Margin /\ o.result.conversion.low >= Margin
    /\ DecisionComplete(o) <=> o.decision \in {"scale", "stop"}
    /\ ClaimLevel(o) # "pilot_observation" =>
         /\ experiment.verified
         /\ {rows[i].customer : i \in DOMAIN rows} \subseteq Customers
         /\ Len(rows) <= Cardinality(Customers) /\ 20 * Len(rows) >= 19 * Cardinality(Customers)
         /\ \A i \in DOMAIN rows :
              /\ rows[i].group = experiment.assignment[rows[i].customer]
              /\ IF rows[i].group = "control" THEN rows[i].exposedAt = NotExposed
                 ELSE rows[i].exposedAt \in experiment.lockedAt..(o.at - OutcomeWindow)
         /\ {Cardinality(of("control")), Len(rows) - Cardinality(of("control"))}
              \subseteq MinSample..Cardinality(Customers)

=============================================================================
