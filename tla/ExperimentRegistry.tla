------------------------- MODULE ExperimentRegistry -------------------------
(***************************************************************************)
(* The experiment registry of one organization (src/server.js): customer   *)
(* data is imported and opens a draft experiment, a prospective pilot is   *)
(* registered on the newest analysis, outcome files are imported as        *)
(* numbered versions of an experiment.                                     *)
(*                                                                         *)
(* Every handler reads a snapshot with readDb, computes, waits for the     *)
(* file system, and applies what it computed in one atomic transact.  A    *)
(* request is a process that stands between two of its awaits, so          *)
(* decisions are taken on a snapshot that may be stale when they commit.   *)
(***************************************************************************)
EXTENDS PilotSituation, FiniteSets

CONSTANTS
  Requests,    \* requests the server works on at the same time
  MaxClock     \* bound: how many createdAt stamps a behaviour may draw

ASSUME ClockAssumption == MaxClock \in Nat

VARIABLES
  analyses,     \* db.customerAnalyses, in commit order; the index is the id
  experiments,  \* db.experiments, in commit order; the index is the id
  outcomes,     \* db.outcomes, in commit order; the index is the id
  clock,        \* Date.now(), read by createdAt; two stamps differ
  req           \* what each request holds between two awaits

vars == <<analyses, experiments, outcomes, clock, req>>

None == 0      \* null, where an id is expected

Statuses == {"draft", "blocked", "registered", "outcome_received"}

Idle == [pc |-> "idle", target |-> None, version |-> 0, prior |-> None,
         created |-> 0, clean |-> TRUE]

Analysis == [created : Nat, experiment : Nat]

Experiment == [analysis : Nat, status : Statuses, verified : BOOLEAN,
               created : Nat, latest : Nat, latestVersion : Nat]

Outcome == [experiment : Nat, version : Nat, supersedes : Nat, created : Nat]

Request == [pc : {"idle", "onboard", "register", "checked", "read", "stamped"},
            target : Nat, version : Nat, prior : Nat, created : Nat,
            clean : BOOLEAN]

TypeOK ==
  /\ analyses \in Seq(Analysis)
  /\ experiments \in Seq(Experiment)
  /\ outcomes \in Seq(Outcome)
  /\ clock \in Nat
  /\ req \in [Requests -> Request]

Init ==
  /\ analyses = <<>>
  /\ experiments = <<>>
  /\ outcomes = <<>>
  /\ clock = 0
  /\ req = [r \in Requests |-> Idle]

-----------------------------------------------------------------------------
(* What the handlers look up in a snapshot.                                *)

\* getCurrentCustomerAnalysis: the analysis with the newest createdAt.
IsCurrentAnalysis(a) ==
  \A b \in DOMAIN analyses : analyses[b].created <= analyses[a].created

\* getCurrentExperiment: the newest createdAt of the analysis' experiments.
IsCurrentExperiment(e, a) ==
  /\ experiments[e].analysis = a
  /\ \A f \in DOMAIN experiments :
       experiments[f].analysis = a => experiments[f].created <= experiments[e].created

\* Mutant: the prior outcomes are not filtered by experiment.
AnyOutcomes(e) == DOMAIN outcomes

OutcomesOf(e) == {o \in DOMAIN outcomes : outcomes[o].experiment = e}

\* getCurrentOutcomeAnalysis: the newest createdAt of the experiment's outcomes.
IsCurrentOutcome(o, e) ==
  /\ o \in OutcomesOf(e)
  /\ \A p \in OutcomesOf(e) : outcomes[p].created <= outcomes[o].created

\* priorOutcomes[0]: highest version; the sort is stable, so the first pushed.
IsPreviousOutcome(o, e) ==
  /\ o \in OutcomesOf(e)
  /\ \A p \in OutcomesOf(e) :
       /\ outcomes[p].version <= outcomes[o].version
       /\ outcomes[p].version = outcomes[o].version => o <= p

\* hasOpenRegisteredExperiment, of one experiment.
OpenRegistered(e) ==
  /\ experiments[e].status = "registered"
  /\ experiments[e].verified
  /\ OutcomesOf(e) = {}

\* The status buildExperimentRecord gives an imported assignment.
\* Mutant: a status the registry does not know.
OpenedAsReady(clean) == IF clean THEN "ready" ELSE "blocked"

OpenedAs(clean) == IF clean THEN "draft" ELSE "blocked"

\* What importOutcomeAnalysis writes on its experiment.
\* Mutant: the status is left as it was.
ReceivedSilently(e, version) ==
  [experiments EXCEPT ![e] = [@ EXCEPT !.latest = Len(outcomes) + 1,
                                       !.latestVersion = version]]

Received(e, version) ==
  [experiments EXCEPT ![e] = [@ EXCEPT !.status = "outcome_received",
                                       !.latest = Len(outcomes) + 1,
                                       !.latestVersion = version]]

\* registerProspectiveExperiment makes the analysis name the new experiment.
\* Mutant: the analysis keeps naming the draft.
NotRelinked(a) == analyses

Relinked(a) == [analyses EXCEPT ![a] = [@ EXCEPT !.experiment = Len(experiments) + 1]]

Goto(r, next) == req' = [req EXCEPT ![r] = next]

\* A handler draws createdAt.
Stamp == /\ clock < MaxClock
         /\ clock' = clock + 1

-----------------------------------------------------------------------------
(* importCustomerAnalysis                                                  *)

\* The file is parsed and its experiment built; "clean" is whether the
\* assignment has neither a duplicate customer nor an unknown group.
OnboardStart(r, clean) ==
  /\ req[r].pc = "idle"
  /\ Stamp
  /\ Goto(r, [Idle EXCEPT !.pc = "onboard", !.created = clock', !.clean = clean])
  /\ UNCHANGED <<analyses, experiments, outcomes>>

OnboardCommit(r) ==
  /\ req[r].pc = "onboard"
  /\ analyses' = Append(analyses, [created |-> req[r].created,
                                   experiment |-> Len(experiments) + 1])
  /\ experiments' = Append(experiments,
       [analysis |-> Len(analyses) + 1,
        status |-> OpenedAs(req[r].clean),
        verified |-> FALSE, created |-> req[r].created,
        latest |-> None, latestVersion |-> 0])
  /\ Goto(r, Idle)
  /\ UNCHANGED <<outcomes, clock>>

-----------------------------------------------------------------------------
(* registerProspectiveExperiment                                           *)

\* First read: the analysis the pilot will be registered on.
RegisterStart(r) ==
  /\ req[r].pc = "idle"
  /\ \E a \in DOMAIN analyses :
       /\ IsCurrentAnalysis(a)
       /\ Goto(r, [Idle EXCEPT !.pc = "register", !.target = a])
  /\ UNCHANGED <<analyses, experiments, outcomes, clock>>

\* Second read finds the pilot still open: 409 ACTIVE_EXPERIMENT_EXISTS.
RegisterRefused(r) ==
  /\ req[r].pc = "register"
  /\ \E e \in DOMAIN experiments :
       IsCurrentExperiment(e, req[r].target) /\ OpenRegistered(e)
  /\ Goto(r, Idle)
  /\ UNCHANGED <<analyses, experiments, outcomes, clock>>

\* Mutant: the open pilot is not looked for.
RegisterUnchecked(r) ==
  /\ req[r].pc = "register"
  /\ Stamp
  /\ Goto(r, [req[r] EXCEPT !.pc = "checked", !.created = clock'])
  /\ UNCHANGED <<analyses, experiments, outcomes>>

\* Second read finds no open pilot: the assignment is drawn and stamped.
RegisterCheck(r) ==
  /\ req[r].pc = "register"
  /\ \E e \in DOMAIN experiments :
       IsCurrentExperiment(e, req[r].target) /\ ~OpenRegistered(e)
  /\ Stamp
  /\ Goto(r, [req[r] EXCEPT !.pc = "checked", !.created = clock'])
  /\ UNCHANGED <<analyses, experiments, outcomes>>

RegisterCommit(r) ==
  /\ req[r].pc = "checked"
  /\ experiments' = Append(experiments,
       [analysis |-> req[r].target, status |-> "registered", verified |-> TRUE,
        created |-> req[r].created, latest |-> None, latestVersion |-> 0])
  /\ analyses' = Relinked(req[r].target)
  /\ Goto(r, Idle)
  /\ UNCHANGED <<outcomes, clock>>

-----------------------------------------------------------------------------
(* importOutcomeAnalysis                                                   *)

\* The snapshot read: the experiment named by the client and the outcome this
\* one will supersede.  A file the integrity audit rejects goes to Fail.
OutcomeRead(r, e) ==
  /\ req[r].pc = "idle"
  /\ \/ /\ OutcomesOf(e) = {}
        /\ Goto(r, [Idle EXCEPT !.pc = "read", !.target = e, !.version = 1])
     \/ /\ OutcomesOf(e) # {}
        /\ \E o \in DOMAIN outcomes :
          /\ IsPreviousOutcome(o, e)
          /\ Goto(r, [Idle EXCEPT !.pc = "read", !.target = e, !.prior = o,
                                  !.version = outcomes[o].version + 1])
  /\ UNCHANGED <<analyses, experiments, outcomes, clock>>

\* The analysis was read too; the record is stamped, its file is written.
OutcomeStamp(r) ==
  /\ req[r].pc = "read"
  /\ Stamp
  /\ Goto(r, [req[r] EXCEPT !.pc = "stamped", !.created = clock'])
  /\ UNCHANGED <<analyses, experiments, outcomes>>

OutcomeCommit(r) ==
  LET e == req[r].target IN
  /\ req[r].pc = "stamped"
  /\ outcomes' = Append(outcomes,
       [experiment |-> e, version |-> req[r].version,
        supersedes |-> req[r].prior, created |-> req[r].created])
  /\ experiments' = Received(e, req[r].version)
  /\ Goto(r, Idle)
  /\ UNCHANGED <<analyses, clock>>

-----------------------------------------------------------------------------
\* Any other 4xx or 5xx, a failed transact (its mutation is discarded), or the
\* death of the process: the request ends and leaves the database alone.
Fail(r) ==
  /\ req[r].pc # "idle"
  /\ Goto(r, Idle)
  /\ UNCHANGED <<analyses, experiments, outcomes, clock>>

Next ==
  \E r \in Requests :
    \/ \E clean \in BOOLEAN : OnboardStart(r, clean)
    \/ OnboardCommit(r)
    \/ RegisterStart(r)
    \/ RegisterRefused(r)
    \/ RegisterCheck(r)
    \/ RegisterCommit(r)
    \/ \E e \in DOMAIN experiments : OutcomeRead(r, e)
    \/ OutcomeStamp(r)
    \/ OutcomeCommit(r)
    \/ Fail(r)

Spec == Init /\ [][Next]_vars

-----------------------------------------------------------------------------
(* Properties                                                              *)

\* importOutcomeAnalysis numbers an outcome from a stale snapshot, yet what it
\* supersedes is always a committed outcome of the same experiment, exactly one
\* version older; only a version 1 supersedes nothing.
SupersedesChain ==
  \A o \in DOMAIN outcomes :
    \/ /\ outcomes[o].version = 1
       /\ outcomes[o].supersedes = None
    \/ /\ outcomes[o].supersedes \in 1..(o - 1)
       /\ outcomes[outcomes[o].supersedes].experiment = outcomes[o].experiment
       /\ outcomes[o].version = outcomes[outcomes[o].supersedes].version + 1

\* The status and the latestOutcome fields of an experiment agree with
\* db.outcomes whatever interleaves: it is outcome_received exactly when it has
\* an outcome, and names the last one committed with that one's version.
StatusTracksOutcomes ==
  \A e \in DOMAIN experiments :
    /\ experiments[e].status = "outcome_received" <=> OutcomesOf(e) # {}
    /\ OutcomesOf(e) # {} =>
         /\ experiments[e].latest \in OutcomesOf(e)
         /\ experiments[e].latestVersion = outcomes[experiments[e].latest].version
         /\ \A o \in OutcomesOf(e) : o <= experiments[e].latest

\* docs/experiment-registry.md: each accepted outcome takes an incremental
\* version.  No two outcomes of one experiment carry the same number.
VersionsDistinct ==
  \A o, p \in DOMAIN outcomes :
    o # p /\ outcomes[o].experiment = outcomes[p].experiment
      => outcomes[o].version # outcomes[p].version

\* docs/experiment-registry.md: until its end or its outcome, registering an
\* active experiment again is blocked with 409.  An analysis has at most one
\* registered pilot that waits for its outcome.
OneOpenPilot ==
  \A e, f \in DOMAIN experiments :
    /\ e # f
    /\ experiments[e].analysis = experiments[f].analysis
    => ~(OpenRegistered(e) /\ OpenRegistered(f))

\* The studies as an acceptance reads them; whether an analysis is ready is data.
SeenStudies ==
  [analyses |-> [a \in DOMAIN analyses |-> TRUE],
   experiments |->
     [e \in DOMAIN experiments |->
        [analysis |-> experiments[e].analysis, verified |-> experiments[e].verified,
         outcomes |-> Cardinality(OutcomesOf(e))]]]

\* Whatever overlaps, and however stale the snapshot a commit was decided on, each
\* one moves the studies as PilotEvidence says the others do: an analysis comes with
\* its draft, a pilot is opened on an analysis there is, or an experiment gets one
\* more outcome.
StudiesMoveAsRead == [][SeenStudies' \in MoveStudy(SeenStudies)]_SeenStudies

\* The two ways the server finds the outcome of an experiment, the newest
\* createdAt (readouts, monitor) and latestOutcomeId, name the same one, and it
\* carries the highest version.
NewestOutcomeIsLatest ==
  \A e \in DOMAIN experiments : \A o \in DOMAIN outcomes :
    IsCurrentOutcome(o, e) =>
      /\ experiments[e].latest = o
      /\ \A p \in OutcomesOf(e) : outcomes[p].version <= outcomes[o].version

\* The experiment an analysis names is the one getCurrentExperiment finds.
AnalysisNamesCurrent ==
  \A a \in DOMAIN analyses :
    /\ analyses[a].experiment \in DOMAIN experiments
    /\ IsCurrentExperiment(analyses[a].experiment, a)

\* What is looked up by its createdAt and what is named by an identifier agree.
LookupsAgree == NewestOutcomeIsLatest /\ AnalysisNamesCurrent

\* The registry as ExperimentPromise sees it.
OpenedOn == [e \in DOMAIN experiments |-> experiments[e].analysis]

OpenPilots == {e \in DOMAIN experiments : OpenRegistered(e)}

Accepted ==
  [o \in DOMAIN outcomes |->
     [experiment |-> outcomes[o].experiment, version |-> outcomes[o].version]]

Promise == INSTANCE ExperimentPromise WITH
  analyses <- Len(analyses), studies <- OpenedOn, pilots <- OpenPilots, accepted <- Accepted

\* docs/experiment-registry.md, as a whole: every commit of the registry is one
\* indivisible step of ExperimentPromise.
PromiseKept == Promise!Spec

=============================================================================
