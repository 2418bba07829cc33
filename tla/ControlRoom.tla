------------------------------ MODULE ControlRoom ------------------------------
(***************************************************************************)
(* The control room of a pilot (src/pilot-control-room.js): a workflow     *)
(* goes through its stages, collects evidence, blockers and milestones.    *)
(* Every handler is one mutator inside transact that normalises the whole  *)
(* workflow; all but the creation act on the newest workflow, closed or    *)
(* not, and the creation asks for nothing.                                 *)
(*                                                                         *)
(* Every write stamps the workflow it leaves as the newest one, so the     *)
(* newest workflow is the last of the sequence.                            *)
(***************************************************************************)
EXTENDS FiniteSets, Naturals, Sequences, SequencesExt

CONSTANTS
  Claims,         \* the stages a client may call completed at the creation
  EvidenceKeys,   \* the stages evidence is sent for
  BlockerIds,     \* identifiers of blockers; a client may send one twice
  Milestones,     \* names of milestones
  Updates,        \* the statuses a client sends for a milestone
  MaxWorkflows,   \* bound: workflows of the organization
  MaxBlockers,    \* bound: blockers of all its workflows
  MaxEvidence     \* bound: evidence of a stage

ASSUME RoomAssumption ==
  /\ {MaxWorkflows, MaxBlockers, MaxEvidence} \subseteq Nat
  /\ EvidenceKeys \cup UNION Claims \cup Updates \subseteq STRING

VARIABLE workflows   \* db.pilotWorkflows of the organization

Lifecycle == <<"draft", "kickoff", "data_ready", "experiment_running",
               "outcome_pending", "decision_ready", "closed">>

Keys == {Lifecycle[i] : i \in DOMAIN Lifecycle}

Place(k) == CHOOSE i \in DOMAIN Lifecycle : Lifecycle[i] = k

\* "done" is a completedAt, "evidence" the number of its pieces.
Stage == [status : {"pending", "active", "completed"}, done : BOOLEAN, evidence : Nat]

Blocker == [id : BlockerIds, critical : BOOLEAN, open : BOOLEAN]

MilestoneStatuses == {"none", "pending", "complete", "missed"}

Workflow == [life : Keys, stages : [Keys -> Stage], blockers : Seq(Blocker),
             milestones : [Milestones -> MilestoneStatuses]]

RoomTypeOK == workflows \in Seq(Workflow)

RoomInit == workflows = <<>>

-----------------------------------------------------------------------------
\* stageStatusFor: the lifecycle decides, but a current stage stays completed.
StageStatus(k, life, existing) ==
  CASE life = "closed" \/ Place(k) < Place(life) -> "completed"
    [] Place(k) > Place(life)                    -> "pending"
    [] OTHER -> IF existing = "completed" THEN "completed" ELSE "active"

\* normalizeStages
Normalized(stages, life) ==
  [k \in Keys |-> [stages[k] EXCEPT !.status = StageStatus(k, life, @)]]

\* findLatestWorkflow
Newest == workflows[Len(workflows)]

\* normalizePilotWorkflow over the newest workflow, and Object.assign.
WriteNewest(w) ==
  workflows' = [workflows EXCEPT ![Len(workflows)] =
                 [w EXCEPT !.stages = Normalized(@, w.life)]]

BlockersOfAll == FoldSeq(LAMBDA w, n : n + Len(w.blockers), 0, workflows)

\* createPilotWorkflow: stages, blockers and milestones may come with the body,
\* the lifecycle may not.  "claimed" are the stages the client calls completed.
CreateWorkflow(claimed, blockers) ==
  /\ Len(workflows) < MaxWorkflows
  /\ BlockersOfAll + Len(blockers) <= MaxBlockers
  /\ workflows' = Append(workflows,
       [life |-> "draft",
        stages |-> Normalized(
          [k \in Keys |-> [status |-> IF k \in claimed THEN "completed" ELSE "pending",
                           done |-> k \in claimed, evidence |-> 0]], "draft"),
        blockers |-> blockers,
        milestones |-> [n \in Milestones |-> "none"]])

Done(stage) == [stage EXCEPT !.status = "completed", !.done = TRUE]

\* transitionStages
Moved(stages, from, to) ==
  [Normalized(stages, to) EXCEPT
     ![from] = Done(@),
     ![to] = IF to = "closed" THEN Done(@) ELSE [@ EXCEPT !.status = "active"]]

\* transitionPilotStage, and the action "close": one stage at a time.
TransitionStage(to) ==
  /\ workflows # <<>>
  /\ Place(to) = Place(Newest.life) + 1
  /\ WriteNewest([Newest EXCEPT !.life = to, !.stages = Moved(@, Newest.life, to)])

Evidenced(stages, k) == [stages EXCEPT ![k].evidence = @ + 1]

\* appendEvidence: to any stage, passed or to come.
AppendEvidence(k) ==
  /\ workflows # <<>>
  /\ Newest.stages[k].evidence < MaxEvidence
  /\ WriteNewest([Newest EXCEPT !.stages = Evidenced(@, k)])

\* addBlocker: the identifier of the body is not looked up.
AddBlocker(b) ==
  /\ workflows # <<>>
  /\ BlockersOfAll < MaxBlockers
  /\ WriteNewest([Newest EXCEPT !.blockers = Append(@, b)])

\* updateBlocker: every blocker of that identifier becomes the updated one.
UpdateBlocker(b) ==
  /\ workflows # <<>>
  /\ \E i \in DOMAIN Newest.blockers : Newest.blockers[i].id = b.id
  /\ WriteNewest([Newest EXCEPT !.blockers =
       [i \in DOMAIN @ |-> IF @[i].id = b.id THEN b ELSE @[i]]])

\* normalizeMilestoneStatus
MilestoneStatus(status) == IF status \in {"complete", "missed"} THEN status ELSE "pending"

\* updateMilestone: the first update of a name adds it.
UpdateMilestone(name, status) ==
  /\ workflows # <<>>
  /\ WriteNewest([Newest EXCEPT !.milestones[name] = MilestoneStatus(status)])

\* dispatchPilotWorkflowAction, and the POST that creates.
RoomNext ==
  \/ \E claimed \in Claims, blockers \in {<<>>} \cup {<<b>> : b \in Blocker} :
       CreateWorkflow(claimed, blockers)
  \/ \E k \in Keys : TransitionStage(k)
  \/ \E k \in EvidenceKeys : AppendEvidence(k)
  \/ \E b \in Blocker : AddBlocker(b)
  \/ \E b \in Blocker : UpdateBlocker(b)
  \/ \E n \in Milestones, status \in Updates : UpdateMilestone(n, status)

-----------------------------------------------------------------------------
(* Reading                                                                 *)

\* hasOpenCriticalBlockers over the newest workflow
OpenCritical ==
  /\ workflows # <<>>
  /\ \E i \in DOMAIN Newest.blockers : Newest.blockers[i].critical /\ Newest.blockers[i].open

\* The criterion rehearsal_completed of defaultCriteria, and rehearsalComplete
\* of the evidence package.
RehearsalCompleted(w) ==
  \/ w.life \in {"decision_ready", "closed"}
  \/ Cardinality({k \in Keys : w.stages[k].status = "completed"}) >= 5

-----------------------------------------------------------------------------
(* Properties                                                              *)

\* The two ways the acceptance recognises a completed rehearsal agree: five
\* completed stages cannot be had without the lifecycle that stands for them,
\* not even by claiming stages when the workflow is created.
RehearsalNeedsStages ==
  \A i \in DOMAIN workflows :
    RehearsalCompleted(workflows[i]) => workflows[i].life \in {"decision_ready", "closed"}

=============================================================================
