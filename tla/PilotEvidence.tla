------------------------------ MODULE PilotEvidence ------------------------------
(***************************************************************************)
(* What an acceptance record says of a pilot, and from where it has it     *)
(* (src/production-acceptance.js and getPilotAcceptanceSourceContext of    *)
(* src/server.js).  A request reads the contract, the ledger and the       *)
(* customer analysis in any order, then the experiment of that analysis,   *)
(* the outcome of that experiment and the control room, and only then      *)
(* opens the transaction.  Everybody else goes on in between.              *)
(*                                                                         *)
(* What the others may do is in PilotSituation.  The identifiers of        *)
(* contract, ledger and room come with the body; the body of a creation    *)
(* may also claim the status of criteria and name experiment and outcome,  *)
(* which then are not what the context says.                               *)
(***************************************************************************)
EXTENDS PilotSituation, FiniteSets, FiniteSetsExt

CONSTANTS
  Starts,      \* situations of an organization a request may find
  DemoReady,   \* is the sample analysis ready?
  Claimed,     \* the sets of criteria whose status a creation claims
  MaxMoves,    \* bound: changes of the sources
  MaxRequests  \* bound: requests on the acceptance record

ASSUME EvidenceAssumption ==
  /\ MaxMoves \in Nat /\ MaxRequests \in Nat /\ DemoReady \in BOOLEAN
  /\ \A s \in Starts : s \in Situation /\ Studied(s)

VARIABLES
  sources,     \* what the organization's other records say
  request,     \* the request on the acceptance record
  acceptance,  \* the acceptance record
  moves, served

evidenceVars == <<sources, request, acceptance, moves, served>>

-----------------------------------------------------------------------------
(* What a request reads                                                    *)

\* buildReadinessAudit of the analysis; 0 is the sample.
DataReady(s, a) == IF a = 0 THEN DemoReady ELSE s.analyses[a]

\* getCurrentExperiment: the newest of the analysis; 0 is the sample.
ExperimentOf(s, a) ==
  IF a = 0 THEN 0 ELSE Max({i \in DOMAIN s.experiments : s.experiments[i].analysis = a})

\* Mutant: the outcome of whatever experiment is the newest by now.
NewestOutcome(s, e) ==
  IF s.experiments = <<>> THEN <<>>
  ELSE LET n == Len(s.experiments) IN
       IF s.experiments[n].outcomes = 0 THEN <<>> ELSE <<n, s.experiments[n].outcomes>>

\* getCurrentOutcomeAnalysis: <<experiment, version>>, or nothing.
OutcomeOf(s, e) ==
  IF e = 0 \/ s.experiments[e].outcomes = 0 THEN <<>> ELSE <<e, s.experiments[e].outcomes>>

ApprovedStages == {"approved", "locked", "experiment_running", "outcome_review", "closed"}
Concluded == {"decision_ready", "closed"}
Running == {"experiment_running", "outcome_pending"} \cup Concluded

Rehearsed(room) == room.life \in Concluded \/ Completed(room) >= 5

\* calculateExecutiveReadiness: the four of the context with the room's lifecycle.
ExecutiveReady(got) ==
  /\ got.contract \in ApprovedStages
  /\ got.ready
  /\ got.verified \/ got.room.life \in Running
  /\ got.finance = "verified"

\* defaultCriteria: what starts as "submitted".
Submitted(got) ==
  {k \in {"contract", "impact", "rehearsal", "outcome", "drills"} :
     CASE k = "contract"  -> got.contract \in ApprovedStages
       [] k = "impact"    -> got.finance = "verified"
       [] k = "rehearsal" -> Rehearsed(got.room)
       [] k = "outcome"   -> got.outcome # <<>>
       [] k = "drills"    -> ~got.room.critical}

\* summarizeSourceContext: what a package says of the sources.
Stated(got) ==
  {k \in {"contract", "impact", "rehearsal", "outcome", "drills", "decision"} :
     IF k = "decision" THEN got.room.life \in Concluded \/ ExecutiveReady(got)
     ELSE k \in Submitted(got)}

-----------------------------------------------------------------------------
(* The request                                                             *)

\* What a request has read, as far as it came; "held" is no part of the program, it
\* remembers what was so at some moment since the request came.
Idling ==
  [pc |-> "idle", kind |-> "other", unread |-> {"contract", "ledger", "analysis"}, held |-> {},
   contract |-> Nothing, finance |-> Nothing, analysis |-> 0, ready |-> FALSE,
   experiment |-> 0, verified |-> FALSE, outcome |-> <<>>, room |-> NoRoom]

\* What holds of the sources at one moment.
Facts(s) ==
  {k \in {"contract", "impact", "rehearsal", "drills", "running", "concluded"} :
     CASE k = "contract"  -> s.contract \in ApprovedStages
       [] k = "impact"    -> s.finance = "verified"
       [] k = "rehearsal" -> Rehearsed(s.room)
       [] k = "drills"    -> ~s.room.critical
       [] k = "running"   -> s.room.life \in Running
       [] k = "concluded" -> s.room.life \in Concluded}

\* The client posts (create) or patches.
Begin ==
  /\ request.pc = "idle"
  /\ served < MaxRequests
  /\ \E kind \in {"create", "generate_package", "other"} :
       request' = [Idling EXCEPT !.pc = "sources", !.kind = kind, !.held = Facts(sources)]
  /\ served' = served + 1
  /\ UNCHANGED <<sources, acceptance, moves>>

\* The Promise.all of getPilotAcceptanceSourceContext: each part once, in any order.
ReadSource(part, having) ==
  /\ request.pc = "sources" /\ part \in request.unread
  /\ request' = [having EXCEPT !.unread = @ \ {part}]
  /\ UNCHANGED <<sources, acceptance, moves, served>>

ReadAnalysis ==
  LET n == Len(sources.analyses) IN
  ReadSource("analysis", [request EXCEPT !.analysis = n, !.ready = DataReady(sources, n)])

ReadExperiment ==
  /\ request.pc = "sources" /\ request.unread = {}
  /\ LET e == ExperimentOf(sources, request.analysis) IN
     request' = [request EXCEPT !.pc = "outcome", !.experiment = e,
                                !.verified = e # 0 /\ sources.experiments[e].verified]
  /\ UNCHANGED <<sources, acceptance, moves, served>>

ReadOutcome ==
  /\ request.pc = "outcome"
  /\ request' = [request EXCEPT !.pc = "room", !.outcome = OutcomeOf(sources, request.experiment)]
  /\ UNCHANGED <<sources, acceptance, moves, served>>

ReadRoom ==
  /\ request.pc = "room"
  /\ request' = [request EXCEPT !.pc = "transact", !.room = sources.room]
  /\ UNCHANGED <<sources, acceptance, moves, served>>

NoAcceptance == [persisted |-> FALSE]

\* normalizeAcceptanceRecord: an identifier that is there stays, and the experiment
\* always is; an outcome that is not is taken from the context.  The criteria stay
\* as they were created.
Refilled(a, got) == [a EXCEPT !.outcome = IF @ = <<>> THEN got.outcome ELSE @]

\* Experiment and outcome that a body may name, be they of one study or not.
Named(s) ==
  [experiment : 0..Len(s.experiments),
   outcome : {<<>>} \cup {OutcomeOf(s, e) : e \in DOMAIN s.experiments}]

\* createPilotAcceptance: the context says what the body leaves open.  "submitted"
\* are the criteria that the context, and not the body, makes so.
Create(claimed, named, study) ==
  /\ request.pc = "transact" /\ request.kind = "create"
  /\ ~acceptance.persisted
  /\ acceptance' = [persisted |-> TRUE, named |-> named,
                    experiment |-> study.experiment, outcome |-> study.outcome,
                    submitted |-> Submitted(request) \ claimed,
                    context |-> request, package |-> {}, stated |-> Idling]
  /\ request' = Idling
  /\ UNCHANGED <<sources, moves, served>>

CreateAcceptance ==
  \E claimed \in Claimed :
    \/ Create(claimed, FALSE, [experiment |-> request.experiment, outcome |-> request.outcome])
    \/ \E study \in Named(sources) : Create(claimed, TRUE, study)

GeneratePackage ==
  /\ request.pc = "transact" /\ request.kind = "generate_package"
  /\ acceptance.persisted
  /\ acceptance' = [Refilled(acceptance, request) EXCEPT
                      !.package = Stated(request), !.stated = request]
  /\ request' = Idling
  /\ UNCHANGED <<sources, moves, served>>

\* The other actions of dispatchAcceptanceAction, as PilotAcceptance has them.
OtherAction ==
  /\ request.pc = "transact" /\ request.kind = "other"
  /\ acceptance.persisted
  /\ acceptance' = Refilled(acceptance, request)
  /\ request' = Idling
  /\ UNCHANGED <<sources, moves, served>>

\* ACTIVE_ACCEPTANCE_EXISTS, ACCEPTANCE_NOT_FOUND
RefuseRequest ==
  /\ request.pc = "transact"
  /\ (request.kind = "create") = acceptance.persisted
  /\ request' = Idling
  /\ UNCHANGED <<sources, acceptance, moves, served>>

OthersMove ==
  /\ moves < MaxMoves
  /\ moves' = moves + 1
  /\ sources' \in MoveRecord(sources) \cup MoveStudy(sources)
  /\ request' = IF request.pc = "idle" THEN request
                ELSE [request EXCEPT !.held = @ \cup Facts(sources')]
  /\ UNCHANGED <<acceptance, served>>

EvidenceInit ==
  /\ sources \in Starts
  /\ request = Idling
  /\ acceptance = NoAcceptance
  /\ moves = 0 /\ served = 0

EvidenceNext ==
  \/ Begin
  \/ ReadSource("contract", [request EXCEPT !.contract = sources.contract])
  \/ ReadSource("ledger", [request EXCEPT !.finance = sources.finance])
  \/ ReadAnalysis \/ ReadExperiment \/ ReadOutcome \/ ReadRoom
  \/ CreateAcceptance \/ GeneratePackage \/ OtherAction \/ RefuseRequest
  \/ OthersMove

EvidenceSpec == EvidenceInit /\ [][EvidenceNext]_evidenceVars

-----------------------------------------------------------------------------
(* Properties                                                              *)

EvidenceTypeOK ==
  /\ sources \in Situation
  /\ moves \in 0..MaxMoves /\ served \in 0..MaxRequests
  /\ request.pc \in {"idle", "sources", "outcome", "room", "transact"}
  /\ acceptance.persisted => acceptance.experiment \in 0..Len(sources.experiments)

\* What was so while the request ran, and is of one analysis: its experiment and
\* that experiment's outcome.
WasTrue(says, got) ==
  /\ (says \ {"outcome", "decision"}) \subseteq got.held
  /\ "outcome" \in says =>
       /\ got.outcome[1] = got.experiment
       /\ got.outcome[2] <= sources.experiments[got.experiment].outcomes
  /\ got.experiment # 0 => sources.experiments[got.experiment].analysis = got.analysis
  /\ "decision" \in says =>
       \/ "concluded" \in got.held
       \/ /\ {"contract", "impact"} \subseteq got.held
          /\ DataReady(sources, got.analysis)
          /\ "running" \in got.held \/ sources.experiments[got.experiment].verified

\* An acceptance is only as good as its evidence.  Whatever changes between
\* the reads, each criterion that the server lets start as submitted and each
\* statement of a package it generates was true at some moment of its request, and
\* what is said of data, experiment and outcome is said of one and the same study;
\* unless the client named them, an outcome that was there at creation stays the
\* one of the record's experiment.
EvidenceWasTrue ==
  acceptance.persisted =>
    /\ WasTrue(acceptance.submitted, acceptance.context)
    /\ acceptance.package # {} => WasTrue(acceptance.package, acceptance.stated)
    /\ "outcome" \in acceptance.submitted /\ acceptance.named = FALSE =>
         acceptance.outcome[1] = acceptance.experiment

=============================================================================
