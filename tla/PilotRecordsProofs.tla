--------------------------- MODULE PilotRecordsProofs ---------------------------
(***************************************************************************)
(* Proofs about PilotRecords, for any terms, figures, claims and bounds:   *)
(* what an acceptance takes for evidence was earned.                       *)
(*                                                                         *)
(* Contracts and ledgers keep their promise by themselves.  For a workflow *)
(* it must be known which stages can be completed at all (GoodRoom): those *)
(* before its lifecycle, and the first one, which a client may claim.      *)
(*                                                                         *)
(* And about PilotWorkbench, for any pages and bounds: the stages of a     *)
(* kind climb, so the stage a request names has one stage below it.        *)
(*                                                                         *)
(* Last, what PilotEvidence and PilotWorkbench take for granted of the     *)
(* records they see is proved of PilotRecords (RecordsMoveAsSeen).         *)
(***************************************************************************)
EXTENDS PilotSources, FiniteSetTheorems, SequenceTheorems, TLAPS

\* A contract, a ledger and a workflow as they are stored.
OnRecord(c) ==
  /\ Len(c.trail) < Len(LIFECYCLE) /\ c.life = LIFECYCLE[Len(c.trail) + 1]
  /\ c.trail = Climbed(Len(c.trail))
  /\ c.history = Climbed(IF Len(c.trail) < 2 THEN Len(c.trail) ELSE 2)

GoodContracts == {c \in Contract : OnRecord(c)}

GoodLedgers ==
  {l \in Ledger : /\ l.finance = "verified" => l.evidence /\ l.verifier /\ l.dated
                  /\ l.finance = (IF l.life = "draft" THEN "not_verified" ELSE l.life)}

GoodRoom(life, stages) ==
  \A k \in Keys : stages[k].status = "completed" /\ life # "closed" =>
    Place(k) < Place(life) \/ (life = "draft" /\ k = "draft")

GoodWorkflows == {w \in Workflow : GoodRoom(w.life, w.stages)}

IInv ==
  /\ contracts \in Seq(GoodContracts)
  /\ ledgers \in Seq(GoodLedgers)
  /\ workflows \in Seq(GoodWorkflows)

-----------------------------------------------------------------------------
(* Contracts                                                               *)

\* The stages of a contract, by name.
LEMMA StagesByName ==
  Stages = {"draft", "approved", "locked", "experiment_running", "outcome_review", "closed"}
BY DEF Stages, LIFECYCLE

\* The stage that follows another one.
LEMMA NextStage ==
  ASSUME NEW from, NEW to, Follows(from, to)
  PROVE  \/ from = "draft" /\ to = "approved"
         \/ from = "approved" /\ to = "locked"
         \/ from = "locked" /\ to = "experiment_running"
         \/ from = "experiment_running" /\ to = "outcome_review"
         \/ from = "outcome_review" /\ to = "closed"
BY DEF Follows, LIFECYCLE

\* One more transition on the record.
LEMMA ClimbedGrows ==
  ASSUME NEW n \in 0..4
  PROVE  Append(Climbed(n), <<LIFECYCLE[n + 1], LIFECYCLE[n + 2]>>) = Climbed(n + 1)
<1> DEFINE a == Append(Climbed(n), <<LIFECYCLE[n + 1], LIFECYCLE[n + 2]>>)
<1>1. \A k \in 1..(n + 1) : LIFECYCLE[k] \in Stages /\ LIFECYCLE[k + 1] \in Stages
  BY DEF Stages, LIFECYCLE
<1>2. /\ Climbed(n) \in Seq(Stages \X Stages) /\ Len(Climbed(n)) = n
      /\ \A k \in 1..n : Climbed(n)[k] = <<LIFECYCLE[k], LIFECYCLE[k + 1]>>
  BY <1>1 DEF Climbed
<1>3. <<LIFECYCLE[n + 1], LIFECYCLE[n + 2]>> \in Stages \X Stages
  BY <1>1
<1>4. /\ a \in Seq(Stages \X Stages) /\ Len(a) = n + 1
      /\ \A k \in 1..n : a[k] = Climbed(n)[k]
      /\ a[n + 1] = <<LIFECYCLE[n + 1], LIFECYCLE[n + 2]>>
  BY <1>2, <1>3, AppendProperties
<1> HIDE DEF a
<1>5. a = [k \in 1..(n + 1) |-> a[k]]
  BY <1>4, LenProperties
<1>6. \A k \in 1..(n + 1) : a[k] = <<LIFECYCLE[k], LIFECYCLE[k + 1]>>
  BY <1>2, <1>4
<1>7. a = Climbed(n + 1) /\ Len(Climbed(n + 1)) = n + 1
  BY <1>4, <1>5, <1>6 DEF Climbed
<1> QED
  BY <1>7 DEF a

\* A contract on record that takes the next stage with its entry in the trail, and in
\* the history if it is approved or locked by that, is on record.
LEMMA StepOnRecord ==
  ASSUME NEW c \in Contract, OnRecord(c), NEW d \in Contract, Follows(c.life, d.life),
         d.trail = Append(c.trail, <<c.life, d.life>>),
         d.history = CASE d.life = "approved" -> Append(c.history, <<"draft", "approved">>)
                       [] d.life = "locked" -> Append(c.history, <<"approved", "locked">>)
                       [] OTHER -> c.history
  PROVE  OnRecord(d)
<1>1. PICK n : n = Len(c.trail)
  OBVIOUS
<1>2. n \in 0..5
  <2>1. c.trail \in Seq(Stages \X Stages)
    BY DEF Contract
  <2>2. Len(c.trail) \in Nat /\ Len(LIFECYCLE) = 6
    BY <2>1, LenProperties DEF LIFECYCLE
  <2>3. Len(c.trail) < Len(LIFECYCLE)
    BY DEF OnRecord
  <2>4. n \in Nat /\ n < 6
    BY <1>1, <2>2, <2>3
  <2> QED
    BY <2>4
<1>3. c.life = LIFECYCLE[n + 1] /\ c.trail = Climbed(n) /\ c.history = Climbed(IF n < 2 THEN n ELSE 2)
  BY <1>1 DEF OnRecord
<1>4. n \in 0..4 /\ d.life = LIFECYCLE[n + 2]
  BY <1>2, <1>3, NextStage DEF LIFECYCLE
<1>5. d.trail = Climbed(n + 1)
  BY <1>3, <1>4, ClimbedGrows
<1>6. Len(d.trail) = n + 1
  BY <1>4, <1>5 DEF Climbed
<1>7. d.history = Climbed(IF n + 1 < 2 THEN n + 1 ELSE 2)
  <2>1. CASE n = 0
    <3>1. d.life = "approved" /\ LIFECYCLE[1] = "draft" /\ LIFECYCLE[2] = "approved"
      BY <1>4, <2>1 DEF LIFECYCLE
    <3> QED
      BY <1>3, <2>1, <3>1, ClimbedGrows
  <2>2. CASE n = 1
    <3>1. d.life = "locked" /\ LIFECYCLE[2] = "approved" /\ LIFECYCLE[3] = "locked"
      BY <1>4, <2>2 DEF LIFECYCLE
    <3> QED
      BY <1>3, <2>2, <3>1, ClimbedGrows
  <2>3. CASE n \in 2..4
    <3>1. d.life \notin {"approved", "locked"}
      BY <1>4, <2>3 DEF LIFECYCLE
    <3> QED
      BY <1>3, <2>3, <3>1
  <2> QED
    BY <1>4, <2>1, <2>2, <2>3
<1>8. Len(LIFECYCLE) = 6
  BY DEF LIFECYCLE
<1> QED
  BY <1>4, <1>5, <1>6, <1>7, <1>8 DEF OnRecord

\* A good contract is added while none is active, or written over an active one, whose
\* stage it keeps or follows.
ContractStep ==
  \/ /\ NoActiveContract
     /\ \E x \in GoodContracts : x.life = "draft" /\ contracts' = Append(contracts, x)
  \/ \E i \in DOMAIN contracts : \E x \in GoodContracts :
       /\ contracts[i].life # "closed"
       /\ contracts' = [contracts EXCEPT ![i] = x]
       /\ x.life = contracts[i].life \/ Follows(contracts[i].life, x.life)

\* Creating or changing a contract leaves good contracts: a patch touches neither
\* stage nor histories, and a transition extends all of them.
LEMMA ContractSteps ==
  ASSUME contracts \in Seq(GoodContracts), ContractNext
  PROVE  ContractStep
<1>1. ASSUME NEW terms \in Terms, CreateContract(terms)
      PROVE  ContractStep
  <2> DEFINE new == [life |-> "draft", terms |-> terms, status |-> "draft",
                     approvedBy |-> NoActor, trail |-> <<>>, history |-> <<>>]
  <2>1. new \in GoodContracts
    <3>1. new \in Contract
      BY <1>1, StagesByName DEF Contract, ApprovalStatuses
    <3>2. new.life = "draft" /\ new.trail = <<>> /\ new.history = <<>> /\ Len(<<>>) = 0
      OBVIOUS
    <3>3. Climbed(0) = <<>> /\ LIFECYCLE[1] = "draft" /\ Len(LIFECYCLE) = 6
      BY DEF Climbed, LIFECYCLE
    <3> HIDE DEF new
    <3> QED
      BY <3>1, <3>2, <3>3 DEF GoodContracts, OnRecord
  <2>2. NoActiveContract /\ contracts' = Append(contracts, new)
    BY <1>1 DEF CreateContract
  <2>3. new.life = "draft"
    OBVIOUS
  <2> HIDE DEF new
  <2> QED
    BY <2>1, <2>2, <2>3 DEF ContractStep
<1>2. ASSUME NEW direct \in Worded(Stages), NEW status \in Worded(ApprovalStatuses),
             NEW approver \in Actors \cup {NoActor, "none"}, NEW terms \in Terms, NEW actor \in Actors,
             UpdateContract(direct, status, approver, terms, actor)
      PROVE  ContractStep
  <2>1. PICK i \in DOMAIN contracts :
          LET c == contracts[i]
              target == TargetOf(c, direct, status)
              next == [Patched(c, status, approver) EXCEPT !.terms = terms]
          IN
          /\ c.life # "closed"
          /\ Agrees(direct, status)
          /\ target = c.life \/ Follows(c.life, target)
          /\ contracts' = [contracts EXCEPT ![i] =
               IF target = c.life THEN next ELSE Transition(next, c.life, target, actor)]
    BY <1>2 DEF UpdateContract
  <2> DEFINE c == contracts[i]
             target == TargetOf(c, direct, status)
             next == [Patched(c, status, approver) EXCEPT !.terms = terms]
             moved == Transition(next, c.life, target, actor)
  <2>2. c \in GoodContracts
    BY ElementOfSeq
  <2>3. c \in Contract /\ OnRecord(c)
    BY <2>2 DEF GoodContracts
  <2>4. /\ next \in Contract
        /\ next.life = c.life /\ next.trail = c.trail /\ next.history = c.history
    BY <2>3 DEF Patched, Contract, Worded
  <2>5. target \in Stages
    BY <2>3, StagesByName DEF TargetOf, Counts, Contract, Worded
  <2>6. next \in GoodContracts
    BY <2>3, <2>4 DEF GoodContracts, OnRecord
  <2>7. ASSUME target # c.life PROVE moved \in GoodContracts /\ moved.life = target
    <3>1. Follows(c.life, target) /\ c.life \in Stages
      BY <2>1, <2>3, <2>7 DEF Contract
    <3>2. /\ next.trail \in Seq(Stages \X Stages) /\ next.history \in Seq(ApprovalStatuses \X ApprovalStatuses)
          /\ Append(next.trail, <<c.life, target>>) \in Seq(Stages \X Stages)
      BY <2>4, <2>5, <3>1, AppendProperties DEF Contract
    <3>3. \A a, b \in ApprovalStatuses :
            Append(next.history, <<a, b>>) \in Seq(ApprovalStatuses \X ApprovalStatuses)
      BY <3>2, AppendProperties
    <3>4. moved \in Contract
      <4>1. CASE target = "approved"
        BY <2>4, <2>5, <3>2, <3>3, <4>1 DEF Transition, Contract, ApprovalStatuses
      <4>2. CASE target = "locked"
        BY <2>4, <2>5, <3>2, <3>3, <4>2 DEF Transition, Contract, ApprovalStatuses
      <4>3. CASE target \notin {"approved", "locked"}
        BY <2>4, <2>5, <3>2, <4>3 DEF Transition, Contract
      <4> QED
        BY <4>1, <4>2, <4>3
    <3>5. /\ moved.life = target /\ moved.trail = Append(c.trail, <<c.life, target>>)
          /\ moved.history = CASE target = "approved" -> Append(c.history, <<"draft", "approved">>)
                               [] target = "locked" -> Append(c.history, <<"approved", "locked">>)
                               [] OTHER -> c.history
      BY <2>4 DEF Transition, Contract
    <3> HIDE DEF moved, target, next
    <3>6. OnRecord(moved)
      BY <2>3, <3>1, <3>4, <3>5, StepOnRecord
    <3> QED
      BY <3>4, <3>5, <3>6 DEF GoodContracts
  <2>8. c.life # "closed" /\ (target = c.life \/ Follows(c.life, target))
        /\ contracts' = [contracts EXCEPT ![i] = IF target = c.life THEN next ELSE moved]
    BY <2>1
  <2>9. next.life = c.life
    BY <2>4
  <2> HIDE DEF next, moved, target
  <2>10. CASE target = c.life
    BY <2>6, <2>8, <2>9, <2>10 DEF ContractStep
  <2>11. CASE target # c.life
    BY <2>7, <2>8, <2>11 DEF ContractStep
  <2> QED
    BY <2>10, <2>11
<1> QED
  BY <1>1, <1>2 DEF ContractNext

\* So the contracts stay good ones.
LEMMA ContractKeeps ==
  ASSUME contracts \in Seq(GoodContracts), ContractNext
  PROVE  contracts' \in Seq(GoodContracts)
BY ContractSteps, AppendProperties, ExceptSeq, LenProperties DEF ContractStep

-----------------------------------------------------------------------------
(* Ledgers                                                                 *)

\* A good ledger is added, or written over the latest one, whose stage it keeps or
\* follows.
LedgerStep ==
  \/ \E x \in GoodLedgers : x.life = "draft" /\ ledgers' = Append(ledgers, x)
  \/ /\ ledgers # <<>>
     /\ \E x \in GoodLedgers :
          /\ ReplaceLatest(x)
          /\ x.life = LatestLedger.life \/ x.life \in Successors(LatestLedger.life)

\* Creating or changing a ledger leaves good ledgers: what is not backed is refused.
LEMMA LedgerSteps ==
  ASSUME ledgers \in Seq(GoodLedgers), LedgerNext
  PROVE  LedgerStep
<1>1. PICK drafted \in Figures, results \in Figures, evidence \in Words :
        \/ CreateLedger(drafted, results, There(FALSE, evidence))
        \/ UpdateDraft(drafted, results, evidence)
        \/ \E target \in {"submitted", "verified", "rejected"}, verifier, dated \in Words :
             TransitionLedger(target, drafted, results, evidence, verifier, dated)
  BY DEF LedgerNext
<1>2. ASSUME ledgers # <<>>
      PROVE  LatestLedger \in GoodLedgers /\ LatestLedger \in Ledger
  <2>1. Len(ledgers) \in DOMAIN ledgers
    BY <1>2, LenProperties, EmptySeq
  <2>2. LatestLedger \in GoodLedgers
    BY <2>1, ElementOfSeq DEF LatestLedger
  <2> QED
    BY <2>1, <2>2 DEF GoodLedgers
<1>3. CASE CreateLedger(drafted, results, There(FALSE, evidence))
  <2> DEFINE new == [life |-> "draft", finance |-> "not_verified", drafted |-> drafted,
                     results |-> results, evidence |-> There(FALSE, evidence),
                     verifier |-> FALSE, dated |-> FALSE]
  <2>1. new \in GoodLedgers
    BY DEF GoodLedgers, Ledger, There
  <2>2. new.life = "draft" /\ ledgers' = Append(ledgers, new)
    BY <1>3 DEF CreateLedger
  <2> HIDE DEF new
  <2> QED
    BY <2>1, <2>2 DEF LedgerStep
<1>4. CASE UpdateDraft(drafted, results, evidence)
  <2> DEFINE new == [LatestLedger EXCEPT !.drafted = drafted, !.results = results,
                                         !.evidence = There(@, evidence)]
  <2>1. ledgers # <<>> /\ LatestLedger.life = "draft" /\ ReplaceLatest(new)
    BY <1>4 DEF UpdateDraft, Editable
  <2>2. LatestLedger \in GoodLedgers /\ LatestLedger \in Ledger
    BY <1>2, <2>1
  <2>3. new \in Ledger
    BY <2>2 DEF Ledger, There
  <2>4. new \in GoodLedgers /\ new.life = LatestLedger.life
    BY <2>1, <2>2, <2>3 DEF GoodLedgers, Ledger
  <2> HIDE DEF new
  <2> QED
    BY <2>1, <2>4 DEF LedgerStep
<1>5. ASSUME NEW target \in {"submitted", "verified", "rejected"}, NEW verifier \in Words,
             NEW dated \in Words,
             TransitionLedger(target, drafted, results, evidence, verifier, dated)
      PROVE  LedgerStep
  <2> DEFINE l == LatestLedger
             new == [life |-> target, finance |-> FinanceStatus(l, target),
                     drafted |-> IF l.life = "draft" THEN drafted ELSE l.drafted,
                     results |-> results,
                     evidence |-> There(l.evidence, evidence),
                     verifier |-> There(l.verifier, verifier),
                     dated |-> There(l.dated, dated)]
  <2>1. ledgers # <<>> /\ target \in Successors(l.life) /\ Backed(new) /\ ReplaceLatest(new)
    BY <1>5 DEF TransitionLedger
  <2>2. l \in Ledger
    BY <1>2, <2>1
  <2>3. new \in Ledger
    BY <2>2 DEF Ledger, FinanceStatus, There
  <2>4. new \in GoodLedgers /\ new.life = target
    BY <2>1, <2>3 DEF GoodLedgers, Backed, FinanceStatus
  <2> HIDE DEF new
  <2> QED
    BY <2>1, <2>4 DEF LedgerStep
<1> QED
  BY <1>1, <1>3, <1>4, <1>5

\* So the ledgers stay good ones.
LEMMA LedgerKeeps ==
  ASSUME ledgers \in Seq(GoodLedgers), LedgerNext
  PROVE  ledgers' \in Seq(GoodLedgers)
<1>1. ledgers # <<>> => Len(ledgers) \in 1..Len(ledgers)
  BY EmptySeq
<1> QED
  BY <1>1, LedgerSteps, AppendProperties, ExceptSeq DEF LedgerStep, ReplaceLatest

-----------------------------------------------------------------------------
(* Workflows                                                               *)

\* Place counts the stages of the lifecycle.
LEMMA Places ==
  /\ Keys = {"draft", "kickoff", "data_ready", "experiment_running", "outcome_pending",
             "decision_ready", "closed"}
  /\ Place("draft") = 1 /\ Place("kickoff") = 2 /\ Place("data_ready") = 3
  /\ Place("experiment_running") = 4 /\ Place("outcome_pending") = 5
  /\ Place("decision_ready") = 6 /\ Place("closed") = 7
<1>1. DOMAIN Lifecycle = 1..7
  BY DEF Lifecycle
<1>2. /\ Lifecycle[1] = "draft" /\ Lifecycle[2] = "kickoff" /\ Lifecycle[3] = "data_ready"
      /\ Lifecycle[4] = "experiment_running" /\ Lifecycle[5] = "outcome_pending"
      /\ Lifecycle[6] = "decision_ready" /\ Lifecycle[7] = "closed"
  BY DEF Lifecycle
<1>3. 1..7 = {1, 2, 3, 4, 5, 6, 7}
  OBVIOUS
<1>4. Keys = {"draft", "kickoff", "data_ready", "experiment_running", "outcome_pending",
              "decision_ready", "closed"}
  BY <1>1, <1>2, <1>3 DEF Keys
<1>5. \A k : (\E i \in {1, 2, 3, 4, 5, 6, 7} : Lifecycle[i] = k)
        => Place(k) \in {1, 2, 3, 4, 5, 6, 7} /\ Lifecycle[Place(k)] = k
  BY <1>1, <1>3 DEF Place
<1>6. /\ Place("draft") = 1 /\ Place("kickoff") = 2 /\ Place("data_ready") = 3
      /\ Place("experiment_running") = 4 /\ Place("outcome_pending") = 5
      /\ Place("decision_ready") = 6 /\ Place("closed") = 7
  BY <1>2, <1>5
<1> QED
  BY <1>4, <1>6

\* Normalising gives stages.
LEMMA NormalizedType ==
  ASSUME NEW life \in Keys, NEW stages \in [Keys -> Stage]
  PROVE  Normalized(stages, life) \in [Keys -> Stage]
<1>1. \A k \in Keys : StageStatus(k, life, stages[k].status) \in {"pending", "active", "completed"}
  BY Places DEF StageStatus
<1> QED
  BY <1>1 DEF Normalized, Stage

\* Normalising leaves a workflow as it should be, if the stage it is in may be
\* completed at all.
LEMMA NormalizedIsGood ==
  ASSUME NEW life \in Keys, NEW stages \in [Keys -> Stage],
         stages[life].status = "completed" => life \in {"draft", "closed"}
  PROVE  GoodRoom(life, Normalized(stages, life))
<1>1. ASSUME NEW k \in Keys, Normalized(stages, life)[k].status = "completed", life # "closed"
      PROVE  Place(k) < Place(life) \/ (life = "draft" /\ k = "draft")
  <2>1. StageStatus(k, life, stages[k].status) = "completed"
    BY <1>1 DEF Normalized, Stage
  <2> QED
    BY <1>1, <2>1, Places DEF StageStatus
<1> QED
  BY <1>1 DEF GoodRoom

\* A good workflow is added, or written over the newest one: in the same stage, that is
\* as completed as before, or in the next one, with the same blockers.
Onward(v, w) ==
  \/ /\ w.life = v.life
     /\ w.life # "closed" =>
          (w.stages[w.life].status = "completed" <=> v.stages[w.life].status = "completed")
  \/ Place(w.life) = Place(v.life) + 1 /\ w.blockers = v.blockers

RoomStep ==
  \/ \E w \in GoodWorkflows : w.life = "draft" /\ workflows' = Append(workflows, w)
  \/ /\ workflows # <<>>
     /\ \E w \in GoodWorkflows :
          workflows' = [workflows EXCEPT ![Len(workflows)] = w] /\ Onward(Newest, w)

\* What a handler writes over the newest workflow is a good workflow, if the
\* handler completes the stage the workflow is in only where that is allowed.
LEMMA WrittenIsGood ==
  ASSUME workflows \in Seq(GoodWorkflows), workflows # <<>>,
         NEW w \in Workflow, WriteNewest(w), Onward(Newest, w),
         w.stages[w.life].status = "completed" => w.life \in {"draft", "closed"}
  PROVE  RoomStep
<1> DEFINE new == [w EXCEPT !.stages = Normalized(@, w.life)]
<1>1. w.life \in Keys /\ w.stages \in [Keys -> Stage]
  BY DEF Workflow
<1>2. /\ Normalized(w.stages, w.life) \in [Keys -> Stage]
      /\ GoodRoom(w.life, Normalized(w.stages, w.life))
  BY <1>1, NormalizedIsGood, NormalizedType
<1>3. new \in GoodWorkflows
  BY <1>1, <1>2 DEF GoodWorkflows, Workflow
<1>4. workflows' = [workflows EXCEPT ![Len(workflows)] = new]
  BY DEF WriteNewest
<1>5. /\ new.life = w.life /\ new.blockers = w.blockers
      /\ new.stages = Normalized(w.stages, w.life)
  BY DEF Workflow
<1>6. w.life # "closed" =>
        (new.stages[w.life].status = "completed" <=> w.stages[w.life].status = "completed")
  BY <1>1, <1>5, Places DEF Normalized, StageStatus, Stage
<1> HIDE DEF new
<1>7. Onward(Newest, new)
  BY <1>5, <1>6 DEF Onward
<1> QED
  BY <1>3, <1>4, <1>7 DEF RoomStep

\* The newest workflow is a good one, so its stage is completed only where that
\* is allowed.
LEMMA NewestIsGood ==
  ASSUME workflows \in Seq(GoodWorkflows), workflows # <<>>
  PROVE  /\ Newest \in Workflow
         /\ Newest.life \in Keys /\ Newest.stages \in [Keys -> Stage]
         /\ Newest.blockers \in Seq(Blocker)
         /\ Newest.stages[Newest.life].status = "completed" => Newest.life \in {"draft", "closed"}
<1>1. Newest \in GoodWorkflows
  BY LenProperties, EmptySeq, ElementOfSeq DEF Newest
<1>2. Newest \in Workflow /\ GoodRoom(Newest.life, Newest.stages)
  BY <1>1 DEF GoodWorkflows
<1>3. /\ Newest.life \in Keys /\ Newest.stages \in [Keys -> Stage]
      /\ Newest.blockers \in Seq(Blocker)
  BY <1>2 DEF Workflow
<1> QED
  BY <1>2, <1>3, Places DEF GoodRoom

\* A new workflow is a good one, whatever stages its client calls completed.
LEMMA CreateKeeps ==
  ASSUME workflows \in Seq(GoodWorkflows), NEW claimed,
         NEW blockers \in Seq(Blocker), CreateWorkflow(claimed, blockers)
  PROVE  RoomStep
<1> DEFINE stages == [k \in Keys |-> [status |-> IF k \in claimed THEN "completed" ELSE "pending",
                                      done |-> k \in claimed, evidence |-> 0]]
           new == [life |-> "draft", stages |-> Normalized(stages, "draft"), blockers |-> blockers,
                   milestones |-> [n \in Milestones |-> "none"]]
<1>1. stages \in [Keys -> Stage]
  BY DEF Stage
<1>2. Normalized(stages, "draft") \in [Keys -> Stage] /\ GoodRoom("draft", Normalized(stages, "draft"))
  BY <1>1, Places, NormalizedIsGood, NormalizedType
<1>3. new \in GoodWorkflows
  BY <1>2, Places DEF GoodWorkflows, Workflow, MilestoneStatuses
<1>4. new.life = "draft" /\ workflows' = Append(workflows, new)
  BY DEF CreateWorkflow
<1> HIDE DEF new
<1> QED
  BY <1>3, <1>4 DEF RoomStep

\* A transition leaves good workflows: it completes the stage it leaves.
LEMMA TransitionKeeps ==
  ASSUME workflows \in Seq(GoodWorkflows), NEW to \in Keys, TransitionStage(to)
  PROVE  RoomStep
<1> DEFINE from == Newest.life
           stages == Normalized(Newest.stages, to)
           moved == Moved(Newest.stages, from, to)
           w == [Newest EXCEPT !.life = to, !.stages = moved]
<1>1. workflows # <<>> /\ Place(to) = Place(from) + 1 /\ WriteNewest(w)
  BY DEF TransitionStage
<1>2. Newest \in Workflow /\ from \in Keys /\ Newest.stages \in [Keys -> Stage]
  BY <1>1, NewestIsGood
<1>3. from # to
  BY <1>1, <1>2, Places
<1>4. stages \in [Keys -> Stage]
  BY <1>2, NormalizedType
<1> DEFINE left == Done(stages[from])
           entered == IF to = "closed" THEN Done(stages[to]) ELSE [stages[to] EXCEPT !.status = "active"]
<1>5. /\ left \in Stage /\ entered \in Stage
      /\ to # "closed" => entered.status # "completed"
  <2>1. \A stage \in Stage : Done(stage) \in Stage
    BY DEF Done, Stage
  <2>2. \A stage \in Stage : LET active == [stage EXCEPT !.status = "active"]
                            IN  active \in Stage /\ active.status # "completed"
    BY DEF Stage
  <2>3. stages[from] \in Stage /\ stages[to] \in Stage
    BY <1>2, <1>4
  <2> HIDE DEF stages
  <2> QED
    BY <2>1, <2>2, <2>3
<1>6. moved = [stages EXCEPT ![from] = left, ![to] = entered]
  BY <1>3, <1>4 DEF Moved
<1>7. moved \in [Keys -> Stage] /\ moved[to] = entered
  <2> HIDE DEF left, entered, stages, moved
  <2> QED
    BY <1>2, <1>3, <1>4, <1>5, <1>6
<1>8. w \in Workflow /\ w.life = to /\ w.stages = moved /\ w.blockers = Newest.blockers
  <2> HIDE DEF moved
  <2> QED
    BY <1>2, <1>7 DEF Workflow
<1>9. w.stages[w.life].status = "completed" => w.life \in {"draft", "closed"}
  <2> HIDE DEF w, moved, entered
  <2> QED
    BY <1>5, <1>7, <1>8
<1> HIDE DEF w
<1>10. Onward(Newest, w)
  BY <1>1, <1>8 DEF Onward
<1> QED
  BY <1>1, <1>8, <1>9, <1>10, WrittenIsGood

\* Evidence for any stage leaves good workflows.
LEMMA EvidenceKeeps ==
  ASSUME workflows \in Seq(GoodWorkflows), NEW k, AppendEvidence(k)
  PROVE  RoomStep
<1> DEFINE stages == Evidenced(Newest.stages, k)
           w == [Newest EXCEPT !.stages = stages]
<1>1. workflows # <<>> /\ WriteNewest(w)
  BY DEF AppendEvidence
<1>2. /\ Newest \in Workflow /\ Newest.life \in Keys /\ Newest.stages \in [Keys -> Stage]
      /\ Newest.stages[Newest.life].status = "completed" => Newest.life \in {"draft", "closed"}
  BY <1>1, NewestIsGood
<1>3. stages \in [Keys -> Stage] /\ \A j \in Keys : stages[j].status = Newest.stages[j].status
  <2>1. CASE k \in Keys
    <3>1. [Newest.stages[k] EXCEPT !.evidence = @ + 1] \in Stage
      BY <1>2, <2>1 DEF Stage
    <3>2. stages = [Newest.stages EXCEPT ![k] = [Newest.stages[k] EXCEPT !.evidence = @ + 1]]
      BY DEF Evidenced
    <3> QED
      BY <1>2, <2>1, <3>1, <3>2 DEF Stage
  <2>2. CASE k \notin Keys
    BY <1>2, <2>2 DEF Evidenced
  <2> QED
    BY <2>1, <2>2
<1>4. w \in Workflow /\ w.life = Newest.life /\ w.stages = stages
  BY <1>2, <1>3 DEF Workflow
<1>5. Onward(Newest, w)
  BY <1>2, <1>3, <1>4 DEF Onward
<1> QED
  BY <1>1, <1>2, <1>3, <1>4, <1>5, WrittenIsGood

\* A handler that leaves lifecycle and stages alone.
LEMMA OthersKeep ==
  ASSUME workflows \in Seq(GoodWorkflows),
         \/ \E b \in Blocker : AddBlocker(b) \/ UpdateBlocker(b)
         \/ \E n \in Milestones, status \in Updates : UpdateMilestone(n, status)
  PROVE  RoomStep
<1>1. workflows # <<>>
  BY DEF AddBlocker, UpdateBlocker, UpdateMilestone
<1>2. /\ Newest \in Workflow /\ Newest.blockers \in Seq(Blocker)
      /\ Newest.stages[Newest.life].status = "completed" => Newest.life \in {"draft", "closed"}
  BY <1>1, NewestIsGood
<1>3. ASSUME NEW b \in Blocker, AddBlocker(b) PROVE RoomStep
  <2> DEFINE w == [Newest EXCEPT !.blockers = Append(@, b)]
  <2>1. w \in Workflow /\ w.life = Newest.life /\ w.stages = Newest.stages
    BY <1>2, AppendProperties DEF Workflow
  <2>2. WriteNewest(w)
    BY <1>3 DEF AddBlocker
  <2> QED
    BY <1>1, <1>2, <2>1, <2>2, WrittenIsGood DEF Onward
<1>4. ASSUME NEW b \in Blocker, UpdateBlocker(b) PROVE RoomStep
  <2> DEFINE blockers == [i \in DOMAIN Newest.blockers |->
                            IF Newest.blockers[i].id = b.id THEN b ELSE Newest.blockers[i]]
             w == [Newest EXCEPT !.blockers = blockers]
  <2>1. blockers \in Seq(Blocker)
    BY <1>2
  <2>2. w \in Workflow /\ w.life = Newest.life /\ w.stages = Newest.stages
    BY <1>2, <2>1 DEF Workflow
  <2>3. WriteNewest(w)
    BY <1>4 DEF UpdateBlocker
  <2> QED
    BY <1>1, <1>2, <2>2, <2>3, WrittenIsGood DEF Onward
<1>5. ASSUME NEW n \in Milestones, NEW status \in Updates, UpdateMilestone(n, status)
      PROVE  RoomStep
  <2> DEFINE milestones == [Newest.milestones EXCEPT ![n] = MilestoneStatus(status)]
             w == [Newest EXCEPT !.milestones = milestones]
  <2>1. milestones \in [Milestones -> MilestoneStatuses]
    BY <1>2 DEF Workflow, MilestoneStatus, MilestoneStatuses
  <2>2. w \in Workflow /\ w.life = Newest.life /\ w.stages = Newest.stages
    BY <1>2, <2>1 DEF Workflow
  <2>3. WriteNewest(w)
    BY <1>5 DEF UpdateMilestone
  <2> QED
    BY <1>1, <1>2, <2>2, <2>3, WrittenIsGood DEF Onward
<1> QED
  BY <1>3, <1>4, <1>5

\* Every request adds a workflow or writes the newest one.
LEMMA RoomSteps ==
  ASSUME workflows \in Seq(GoodWorkflows), RoomNext
  PROVE  RoomStep
<1>1. ASSUME NEW claimed \in Claims, NEW blockers \in {<<>>} \cup {<<b>> : b \in Blocker},
             CreateWorkflow(claimed, blockers)
      PROVE  RoomStep
  <2>1. \A b \in Blocker : <<b>> \in Seq(Blocker)
    OBVIOUS
  <2> QED
    BY <1>1, <2>1, EmptySeq, CreateKeeps
<1>2. ASSUME NEW k \in Keys, TransitionStage(k) PROVE RoomStep
  BY <1>2, TransitionKeeps
<1>3. ASSUME NEW k \in EvidenceKeys, AppendEvidence(k) PROVE RoomStep
  BY <1>3, EvidenceKeeps
<1> QED
  BY <1>1, <1>2, <1>3, OthersKeep DEF RoomNext

\* So the workflows stay good ones.
LEMMA RoomKeeps ==
  ASSUME workflows \in Seq(GoodWorkflows), RoomNext
  PROVE  workflows' \in Seq(GoodWorkflows)
<1>1. workflows # <<>> => Len(workflows) \in 1..Len(workflows)
  BY EmptySeq
<1> QED
  BY <1>1, RoomSteps, AppendProperties, ExceptSeq DEF RoomStep

\* A set grows by one with an element it does not have.
LEMMA OneMore ==
  ASSUME NEW S, NEW x, x \notin S, IsFiniteSet(S)
  PROVE  IsFiniteSet(S \cup {x}) /\ Cardinality(S \cup {x}) = Cardinality(S) + 1
BY FS_AddElement

\* Fewer than five stages of a good workflow are completed before its lifecycle
\* says that the rehearsal is over.
LEMMA FewCompleted ==
  ASSUME NEW w \in GoodWorkflows, w.life \notin {"decision_ready", "closed"}
  PROVE  ~RehearsalCompleted(w)
<1> DEFINE one == {"draft"}
           two == one \cup {"kickoff"}
           three == two \cup {"data_ready"}
           four == three \cup {"experiment_running"}
           completed == {k \in Keys : w.stages[k].status = "completed"}
<1>1. w.life \in Keys /\ GoodRoom(w.life, w.stages)
  BY DEF GoodWorkflows, Workflow
<1>2. completed \subseteq four
  BY <1>1, Places DEF GoodRoom
<1>3. "kickoff" \notin one /\ "data_ready" \notin two /\ "experiment_running" \notin three
  OBVIOUS
<1>4. IsFiniteSet(one) /\ Cardinality(one) = 1
  BY FS_Singleton
<1> HIDE DEF one
<1>5. IsFiniteSet(two) /\ Cardinality(two) = Cardinality(one) + 1
  BY <1>3, <1>4, OneMore
<1> HIDE DEF two
<1>6. IsFiniteSet(three) /\ Cardinality(three) = Cardinality(two) + 1
  BY <1>3, <1>5, OneMore
<1> HIDE DEF three
<1>7. IsFiniteSet(four) /\ Cardinality(four) = Cardinality(three) + 1
  BY <1>3, <1>6, OneMore
<1> HIDE DEF four, completed
<1>8. IsFiniteSet(completed) /\ Cardinality(completed) <= Cardinality(four)
  BY <1>2, <1>7, FS_Subset
<1>9. Cardinality(completed) \in Nat
  BY <1>8, FS_CardinalityType
<1>10. ~(Cardinality(completed) >= 5)
  BY <1>4, <1>5, <1>6, <1>7, <1>8, <1>9
<1> QED
  BY <1>10 DEF RehearsalCompleted, completed

-----------------------------------------------------------------------------

\* The invariant: every record ever stored is a good one.
THEOREM InductiveInvariant == RecordsSpec => []IInv
<1>1. RecordsInit => IInv
  BY DEF RecordsInit, ContractInit, LedgerInit, RoomInit, IInv
<1>2. ASSUME IInv, [RecordsNext]_recordVars PROVE IInv'
  BY <1>2, ContractKeeps, LedgerKeeps, RoomKeeps DEF IInv, RecordsNext, recordVars
<1> QED
  BY <1>1, <1>2, PTL DEF RecordsSpec

\* Contracts, ledgers and workflows stay well formed.
THEOREM RecordsTypeCorrect == RecordsSpec => []RecordsTypeOK
<1>1. IInv => RecordsTypeOK
  <2>1. GoodContracts \subseteq Contract /\ GoodLedgers \subseteq Ledger /\ GoodWorkflows \subseteq Workflow
    BY DEF GoodContracts, GoodLedgers, GoodWorkflows
  <2> QED
    BY <2>1 DEF IInv, RecordsTypeOK, ContractTypeOK, LedgerTypeOK, RoomTypeOK
<1> QED
  BY <1>1, InductiveInvariant, PTL

\* What an acceptance takes for evidence was earned: the approval of a contract
\* is not ahead of its lifecycle, a verified impact is backed, and a completed
\* rehearsal has passed its stages.
THEOREM EvidenceIsEarned == RecordsSpec => []EvidenceEarned
<1>1. IInv => ApprovalOnRecord
  BY ElementOfSeq DEF IInv, ApprovalOnRecord, GoodContracts, OnRecord
<1>2. IInv => VerifiedIsBacked
  BY ElementOfSeq DEF IInv, VerifiedIsBacked, GoodLedgers
<1>3. IInv => RehearsalNeedsStages
  BY ElementOfSeq, FewCompleted DEF IInv, RehearsalNeedsStages
<1> QED
  BY <1>1, <1>2, <1>3, InductiveInvariant, PTL DEF EvidenceEarned

-----------------------------------------------------------------------------
(* The pages before the records                                            *)

Kinds == {"contract", "ledger", "room", "acceptance"}

\* The stages of a ladder are different, and none of the words for something else.
LEMMA LaddersClimb ==
  ASSUME NEW k \in Kinds
  PROVE  /\ Len(Ladder(k)) \in Nat
         /\ \A i, j \in 1..Len(Ladder(k)) : Ladder(k)[i] = Ladder(k)[j] => i = j
         /\ \A i \in 1..Len(Ladder(k)) : Ladder(k)[i] \notin {"same", "rejected", NoRecord}
<1>1. CASE k = "contract"
  BY <1>1 DEF Ladder, NoRecord
<1>2. CASE k = "ledger"
  BY <1>2 DEF Ladder, NoRecord
<1>3. CASE k = "room"
  BY <1>3 DEF Ladder, NoRecord
<1>4. CASE k = "acceptance"
  BY <1>4 DEF Ladder, NoRecord
<1> QED
  BY <1>1, <1>2, <1>3, <1>4 DEF Kinds

\* What follows a stage is one up the ladder.
LEMMA FollowingIsUp ==
  ASSUME NEW k \in Kinds, NEW s, Following(k, s) # "same"
  PROVE  \E i \in 1..(Len(Ladder(k)) - 1) :
           Ladder(k)[i] = s /\ Following(k, s) = Ladder(k)[i + 1]
<1> DEFINE up == {i \in 1..(Len(Ladder(k)) - 1) : Ladder(k)[i] = s}
<1>1. up # {} /\ Following(k, s) = Ladder(k)[(CHOOSE i \in up : TRUE) + 1]
  BY DEF Following
<1>2. (CHOOSE i \in up : TRUE) \in up
  BY <1>1
<1> QED
  BY <1>1, <1>2

\* A stage is followed by one that follows no other, and is followed by no word for
\* something else.
LEMMA FollowingIsOneToOne ==
  ASSUME NEW k \in Kinds, NEW s, Following(k, s) # "same"
  PROVE  /\ s # NoRecord /\ Following(k, s) \notin {s, "rejected", NoRecord}
         /\ \A u : Following(k, u) = Following(k, s) => u = s
<1>1. PICK i \in 1..(Len(Ladder(k)) - 1) :
        Ladder(k)[i] = s /\ Following(k, s) = Ladder(k)[i + 1]
  BY FollowingIsUp
<1>2. Len(Ladder(k)) \in Nat /\ i \in 1..Len(Ladder(k)) /\ i + 1 \in 1..Len(Ladder(k))
  BY <1>1, LaddersClimb
<1>3. i # i + 1
  BY <1>2
<1>4. s # NoRecord /\ Following(k, s) \notin {s, "rejected", NoRecord}
  BY <1>1, <1>2, <1>3, LaddersClimb
<1>5. ASSUME NEW u, Following(k, u) = Following(k, s)
      PROVE  u = s
  <2>1. PICK j \in 1..(Len(Ladder(k)) - 1) :
          Ladder(k)[j] = u /\ Following(k, u) = Ladder(k)[j + 1]
    BY <1>5, FollowingIsUp
  <2>2. j \in 1..Len(Ladder(k)) /\ j + 1 \in 1..Len(Ladder(k))
    BY <1>2, <2>1
  <2>3. i + 1 = j + 1
    BY <1>1, <1>2, <1>5, <2>1, <2>2, LaddersClimb
  <2> QED
    BY <1>1, <1>2, <2>1, <2>2, <2>3
<1> QED
  BY <1>4, <1>5

\* Following goes one up the ladder.
LEMMA FollowingOnLadder ==
  ASSUME NEW k \in Kinds, NEW i \in 1..(Len(Ladder(k)) - 1)
  PROVE  Following(k, Ladder(k)[i]) = Ladder(k)[i + 1]
<1> DEFINE up == {j \in 1..(Len(Ladder(k)) - 1) : Ladder(k)[j] = Ladder(k)[i]}
<1>1. up = {i}
  BY LaddersClimb
<1>2. (CHOOSE j \in up : TRUE) = i
  BY <1>1
<1>3. Following(k, Ladder(k)[i]) = Ladder(k)[(CHOOSE j \in up : TRUE) + 1]
  BY <1>1 DEF Following
<1> QED
  BY <1>2, <1>3

\* The buttons that name a stage are shown just below it.
LEMMA ButtonsAreBelow ==
  /\ Following("ledger", "draft") = "submitted"
  /\ Following("ledger", "submitted") = "verified"
  /\ Following("acceptance", "draft") = "evidence_review"
  /\ Following("acceptance", "evidence_review") = "customer_review"
  /\ Following("acceptance", "customer_review") = "executive_review"
  /\ Following("acceptance", "executive_review") = "accepted"
<1>1. /\ Ladder("ledger") = <<"draft", "submitted", "verified">>
      /\ Ladder("acceptance") = <<"draft", "evidence_review", "customer_review",
                                  "executive_review", "accepted">>
  BY DEF Ladder
<1>2. "ledger" \in Kinds /\ "acceptance" \in Kinds
  BY DEF Kinds
<1>3. /\ Following("ledger", Ladder("ledger")[1]) = Ladder("ledger")[2]
      /\ Following("ledger", Ladder("ledger")[2]) = Ladder("ledger")[3]
  BY <1>1, <1>2, FollowingOnLadder
<1>4. /\ Following("acceptance", Ladder("acceptance")[1]) = Ladder("acceptance")[2]
      /\ Following("acceptance", Ladder("acceptance")[2]) = Ladder("acceptance")[3]
      /\ Following("acceptance", Ladder("acceptance")[3]) = Ladder("acceptance")[4]
      /\ Following("acceptance", Ladder("acceptance")[4]) = Ladder("acceptance")[5]
  BY <1>1, <1>2, FollowingOnLadder
<1> QED
  BY <1>1, <1>3, <1>4

TaskFields ==
  {"at", "page", "id", "button", "names", "creates", "saw", "busy", "fetched"}

\* A request says what its button said when it was pressed.
Pressed(t, shown, knows) ==
  /\ t.button \in DOMAIN Enabling(kind) /\ shown \in Enabling(kind)[t.button]
  /\ t.names = Naming(kind, t.button, knows) /\ t.creates = Creates(t.button, knows)
  /\ t.saw = {shown, knows}

GoodTask(t) ==
  /\ DOMAIN t = TaskFields
  /\ t.at \in {"server", "unattended"} => \E shown, knows : Pressed(t, shown, knows)

WorkbenchInv ==
  /\ kind \in Kinds
  /\ \E S : records \in Seq(S)
  /\ \A t \in tasks : GoodTask(t)

\* What a handler does after its request leaves other requests as they are.
LEMMA LaterIsGood ==
  ASSUME NEW t, GoodTask(t), NEW u, DOMAIN u = TaskFields, UNCHANGED kind,
         \/ u.at \notin {"server", "unattended"}
         \/ /\ t.at \in {"server", "unattended"}
            /\ u.button = t.button /\ u.names = t.names /\ u.creates = t.creates
            /\ u.saw = t.saw
  PROVE  GoodTask(u)'
<1>1. ASSUME u.at \in {"server", "unattended"}
      PROVE  \E shown, knows : Pressed(u, shown, knows)
  <2>1. PICK shown, knows : Pressed(t, shown, knows)
    BY <1>1 DEF GoodTask
  <2>2. Pressed(u, shown, knows)
    BY <1>1, <2>1 DEF Pressed
  <2> QED
    BY <2>2
<1> QED
  BY <1>1 DEF GoodTask, Pressed

\* Only the transaction of a request changes records.
LEMMA TasksKeepWorkbench ==
  ASSUME WorkbenchInv, UNCHANGED <<kind, records>>,
         \A u \in tasks' :
           \/ \E t \in tasks :
                /\ DOMAIN u = TaskFields
                /\ \/ u.at \notin {"server", "unattended"}
                   \/ /\ t.at \in {"server", "unattended"}
                      /\ u.button = t.button /\ u.names = t.names /\ u.creates = t.creates
                      /\ u.saw = t.saw
           \/ DOMAIN u = TaskFields /\ u.at \notin {"server", "unattended"}
           \/ DOMAIN u = TaskFields /\ \E shown, knows : Pressed(u, shown, knows)
  PROVE  WorkbenchInv'
<1>1. ASSUME NEW u \in tasks'
      PROVE  GoodTask(u)'
  <2>1. CASE DOMAIN u = TaskFields /\ u.at \notin {"server", "unattended"}
    BY <2>1 DEF GoodTask
  <2>2. CASE DOMAIN u = TaskFields /\ \E shown, knows : Pressed(u, shown, knows)
    BY <2>2 DEF GoodTask, Pressed
  <2>3. CASE \E t \in tasks :
               /\ DOMAIN u = TaskFields
               /\ \/ u.at \notin {"server", "unattended"}
                  \/ /\ t.at \in {"server", "unattended"}
                     /\ u.button = t.button /\ u.names = t.names /\ u.creates = t.creates
                     /\ u.saw = t.saw
    BY <2>3, LaterIsGood DEF WorkbenchInv
  <2> QED
    BY <2>1, <2>2, <2>3
<1> QED
  BY <1>1 DEF WorkbenchInv

\* A page, a handler or a connection goes on.
LEMMA PagesKeepWorkbench ==
  ASSUME WorkbenchInv,
         \/ \E p \in Pages : \E button \in DOMAIN Enabling(kind) : Press(p, button)
         \/ \E p \in Pages : Refresh(p)
         \/ \E t \in tasks : GiveUp(t) \/ Abandon(t) \/ Fetch(t) \/ Learn(t) \/ Draw(t)
  PROVE  WorkbenchInv' /\ UNCHANGED records
<1>1. UNCHANGED <<kind, records>>
  BY DEF Press, Refresh, GiveUp, Abandon, Fetch, Learn, Draw
<1>2. \A t \in tasks : DOMAIN t = TaskFields
  BY DEF WorkbenchInv, GoodTask
<1>3. CASE \E p \in Pages : \E button \in DOMAIN Enabling(kind) : Press(p, button)
  <2>1. PICK p \in Pages, button \in DOMAIN Enabling(kind) : Press(p, button)
    BY <1>3
  <2>2. PICK u : u = [at |-> "server", page |-> p, id |-> presses, button |-> button,
                      names |-> Naming(kind, button, known[p]),
                      creates |-> Creates(button, known[p]),
                      saw |-> {rendered[p], known[p]}, busy |-> TRUE,
                      fetched |-> NoRecord]
    OBVIOUS
  <2>3. tasks' = tasks \cup {u}
    BY <2>1, <2>2 DEF Press
  <2>4. DOMAIN u = TaskFields /\ Pressed(u, rendered[p], known[p])
    BY <2>1, <2>2 DEF Press, Pressed, TaskFields
  <2> QED
    BY <1>1, <1>2, <2>3, <2>4, TasksKeepWorkbench
<1>4. CASE \E p \in Pages : Refresh(p)
  <2>1. PICK p \in Pages : Refresh(p)
    BY <1>4
  <2>2. PICK u : u = Reloading(p, presses)
    OBVIOUS
  <2>3. tasks' = tasks \cup {u} /\ DOMAIN u = TaskFields /\ u.at = "answered"
    BY <2>1, <2>2 DEF Refresh, Reloading, TaskFields
  <2> QED
    BY <1>1, <1>2, <2>3, TasksKeepWorkbench
<1>5. CASE \E t \in tasks : GiveUp(t)
  BY <1>1, <1>2, <1>5, TasksKeepWorkbench DEF GiveUp
<1>6. CASE \E t \in tasks : Abandon(t) \/ Fetch(t) \/ (Learn(t) /\ t.button # "refresh")
  <2>1. PICK t \in tasks : Abandon(t) \/ Fetch(t) \/ (Learn(t) /\ t.button # "refresh")
    BY <1>6
  <2>2. PICK u : /\ tasks' = (tasks \ {t}) \cup {u} /\ DOMAIN u = TaskFields
                 /\ \/ u.at \notin {"server", "unattended"}
                    \/ /\ t.at \in {"server", "unattended"}
                       /\ u.button = t.button /\ u.names = t.names
                       /\ u.creates = t.creates /\ u.saw = t.saw
    <3>1. CASE Abandon(t)
      <4>1. PICK u : u = [t EXCEPT !.at = "unattended", !.busy = FALSE]
        OBVIOUS
      <4>2. tasks' = (tasks \ {t}) \cup {u} /\ t.at = "server"
        BY <3>1, <4>1 DEF Abandon, Swapped
      <4>3. /\ DOMAIN u = TaskFields /\ u.button = t.button /\ u.names = t.names
            /\ u.creates = t.creates /\ u.saw = t.saw
        BY <1>2, <4>1 DEF TaskFields
      <4> QED
        BY <4>2, <4>3
    <3>2. CASE Fetch(t)
      <4>1. PICK u : u = [t EXCEPT !.at = "fetched", !.fetched = NewestStage]
        OBVIOUS
      <4>2. tasks' = (tasks \ {t}) \cup {u}
        BY <3>2, <4>1 DEF Fetch, Swapped
      <4>3. DOMAIN u = TaskFields /\ u.at = "fetched"
        BY <1>2, <4>1 DEF TaskFields
      <4> QED
        BY <4>2, <4>3
    <3>3. CASE Learn(t) /\ t.button # "refresh"
      <4>1. PICK u : u = [t EXCEPT !.at = "learnt"]
        OBVIOUS
      <4>2. tasks' = (tasks \ {t}) \cup {u}
        BY <3>3, <4>1 DEF Learn, Swapped
      <4>3. DOMAIN u = TaskFields /\ u.at = "learnt"
        BY <1>2, <4>1 DEF TaskFields
      <4> QED
        BY <4>2, <4>3
    <3> QED
      BY <2>1, <3>1, <3>2, <3>3
  <2> QED
    BY <1>1, <1>2, <2>2, TasksKeepWorkbench
<1>7. CASE \E t \in tasks : Draw(t) \/ (Learn(t) /\ t.button = "refresh")
  <2>1. PICK t \in tasks : DrawnBy(t)
    BY <1>7 DEF Draw, Learn
  <2>2. ASSUME NEW u \in tasks'
        PROVE  \E v \in tasks :
                 /\ DOMAIN u = TaskFields /\ u.at = v.at
                 /\ u.button = v.button /\ u.names = v.names /\ u.creates = v.creates
                 /\ u.saw = v.saw
    <3>1. PICK v \in tasks : u = IF v.page = t.page THEN [v EXCEPT !.busy = FALSE] ELSE v
      BY <2>1 DEF DrawnBy
    <3> QED
      BY <1>2, <3>1 DEF TaskFields
  <2> QED
    BY <1>1, <2>2, TasksKeepWorkbench
<1> QED
  BY <1>1, <1>3, <1>4, <1>5, <1>6, <1>7

\* A button that names a stage is pressed for the stage below it: what a request
\* moves is one stage below what it names, and was before the page at the click.
LEMMA TakenAsPressed ==
  ASSUME kind \in Kinds, NEW t, NEW shown, NEW knows, Pressed(t, shown, knows),
         NEW now, Takes(kind, t, now), now # NoRecord, t.names \notin {"same", now}, ~t.creates
  PROVE  /\ now \in t.saw \/ t.button \in {"rejected", "evidence", "save"}
         /\ t.names \in {Following(kind, now), "rejected"}
<1>1. /\ t.names = Naming(kind, t.button, knows) /\ t.creates = Creates(t.button, knows)
      /\ t.saw = {shown, knows} /\ shown \in Enabling(kind)[t.button]
      /\ t.button \in DOMAIN Enabling(kind)
  BY DEF Pressed
<1>2. t.button # "create"
  BY <1>1 DEF Creates
<1>3. ASSUME t.button = "next", t.names = Following(kind, now)
      PROVE  now = knows
  <2>1. t.names = Following(kind, knows)
    BY <1>1, <1>3 DEF Naming
  <2> QED
    BY <1>3, <2>1, FollowingIsOneToOne
<1>4. t.button # "note"
  BY <1>1 DEF Naming
<1>5. CASE kind = "contract"
  <2>1. t.button \in {"save", "next"}
    BY <1>1, <1>5 DEF Enabling
  <2>2. t.names = Following(kind, now)
    BY <1>5 DEF Takes, ContractTakes
  <2> QED
    BY <1>1, <1>3, <2>1, <2>2
<1>6. CASE kind = "ledger"
  <2>1. t.button \in {"save", "submitted", "verified", "rejected"}
    BY <1>1, <1>6 DEF Enabling
  <2>2. t.names = Following(kind, now) \/ (t.names = "rejected" /\ now = "submitted")
    BY <1>6 DEF Takes
  <2>3. CASE t.button \in {"save", "rejected"}
    BY <2>2, <2>3
  <2>4. CASE t.button = "submitted"
    <3>1. t.names = "submitted" /\ shown = "draft"
      BY <1>1, <1>6, <2>4 DEF Naming, Enabling
    <3> QED
      BY <1>1, <1>6, <2>2, <3>1, ButtonsAreBelow, FollowingIsOneToOne
  <2>5. CASE t.button = "verified"
    <3>1. t.names = "verified" /\ shown = "submitted"
      BY <1>1, <1>6, <2>5 DEF Naming, Enabling
    <3> QED
      BY <1>1, <1>6, <2>2, <3>1, ButtonsAreBelow, FollowingIsOneToOne
  <2> QED
    BY <2>1, <2>3, <2>4, <2>5
<1>7. CASE kind = "room"
  <2>1. t.button = "next"
    BY <1>1, <1>2, <1>4, <1>7 DEF Enabling
  <2>2. t.names = Following(kind, now)
    BY <1>7, <2>1 DEF Takes
  <2> QED
    BY <1>1, <1>3, <2>1, <2>2
<1>8. CASE kind = "acceptance"
  <2>1. t.button \in {"evidence", "customer_review", "executive_review", "accepted", "rejected"}
    BY <1>1, <1>2, <1>4, <1>8 DEF Enabling
  <2>2. CASE t.button = "evidence"
    <3>1. t.names = "evidence_review"
      BY <1>1, <2>2 DEF Naming
    <3>2. now = "draft"
      BY <1>8, <3>1 DEF Takes
    <3> QED
      BY <1>8, <2>2, <3>1, <3>2, ButtonsAreBelow
  <2>3. CASE t.button = "rejected"
    <3>1. t.names = "rejected"
      BY <1>1, <2>3 DEF Naming
    <3> QED
      BY <2>3, <3>1
  <2>4. CASE t.button \in {"customer_review", "executive_review", "accepted"}
    <3>1. t.names = t.button
      BY <1>1, <2>4 DEF Naming
    <3>2. t.names = Following(kind, now)
      BY <1>8, <2>4, <3>1 DEF Takes
    <3>3. Following(kind, shown) = t.names
      BY <1>1, <1>8, <2>4, <3>1, ButtonsAreBelow DEF Enabling
    <3>4. now = shown
      BY <3>2, <3>3, FollowingIsOneToOne
    <3> QED
      BY <1>1, <3>2, <3>4
  <2> QED
    BY <2>1, <2>2, <2>3, <2>4
<1> QED
  BY <1>5, <1>6, <1>7, <1>8 DEF Kinds

\* Where there is no record, nothing is moved.
LEMMA NothingToMove ==
  ASSUME kind \in Kinds, NEW t, ~t.creates, t.names # "same"
  PROVE  ~Takes(kind, t, NoRecord)
<1>1. Following(kind, NoRecord) = "same"
  BY FollowingIsOneToOne
<1>2. CASE kind = "contract"
  BY <1>2 DEF Takes, ContractTakes
<1>3. CASE kind = "ledger"
  BY <1>1, <1>3 DEF Takes, NoRecord
<1>4. CASE kind = "room"
  BY <1>4 DEF Takes
<1>5. CASE kind = "acceptance"
  BY <1>1, <1>5 DEF Takes, NoRecord
<1> QED
  BY <1>2, <1>3, <1>4, <1>5 DEF Kinds

\* The transaction of a request keeps the workbench, and changes the records as
\* the request says.
LEMMA ServeKeepsItsWord ==
  ASSUME WorkbenchInv, NEW t \in tasks, Serve(t)
  PROVE  /\ WorkbenchInv'
         /\ records' # records =>
              \/ t.creates /\ records' = Append(records, "draft")
              \/ /\ records # <<>> /\ Front(records') = Front(records)
                 /\ Last(records') = t.names
                 /\ Last(records) \in t.saw \/ t.button \in {"rejected", "evidence", "save"}
                 /\ Last(records') \in {Following(kind, Last(records)), "rejected"}
<1>1. /\ t.at \in {"server", "unattended"} /\ Takes(kind, t, NewestStage) /\ kind' = kind
      /\ kind \in Kinds /\ \A u \in tasks : GoodTask(u)
  BY DEF Serve, WorkbenchInv
<1>2. PICK S : records \in Seq(S)
  BY DEF WorkbenchInv
<1>3. PICK shown, knows : Pressed(t, shown, knows)
  BY <1>1 DEF GoodTask
<1>4. PICK r : r = records'
  OBVIOUS
<1>5. PICK n : n = Len(records)
  OBVIOUS
<1>6. n \in Nat /\ records \in [1..n -> S]
  BY <1>2, <1>5, LenProperties
<1>7. \/ t.creates /\ r = Append(records, "draft")
      \/ ~t.creates /\ t.names # "same" /\ r = [records EXCEPT ![n] = t.names]
      \/ r = records
  BY <1>4, <1>5 DEF Serve, Written
<1>8. \E T : r \in Seq(T)
  <2>1. PICK T : T = S \cup {"draft", t.names}
    OBVIOUS
  <2>2. records \in Seq(T)
    BY <1>2, <2>1
  <2>3. Append(records, "draft") \in Seq(T)
    BY <2>1, <2>2, AppendProperties
  <2>4. [records EXCEPT ![n] = t.names] \in Seq(T)
    <3>1. records \in [1..n -> T]
      BY <1>6, <2>1
    <3>2. [records EXCEPT ![n] = t.names] \in [1..n -> T]
      BY <2>1, <3>1
    <3> QED
      BY <1>6, <3>2, SeqDef
  <2> QED
    BY <1>7, <2>2, <2>3, <2>4
<1>9. \A u \in tasks' : GoodTask(u)'
  <2>1. PICK v : v = [Reloading(t.page, t.id) EXCEPT !.button = t.button, !.busy = t.busy]
    OBVIOUS
  <2>2. DOMAIN v = TaskFields /\ v.at = "answered"
    BY <2>1 DEF Reloading, TaskFields
  <2>3. tasks' = tasks \ {t} \/ tasks' = (tasks \ {t}) \cup {v}
    BY <2>1 DEF Serve, Swapped
  <2>4. \A u \in tasks : GoodTask(u)'
    BY <1>1 DEF GoodTask, Pressed
  <2>5. GoodTask(v)'
    BY <2>2 DEF GoodTask
  <2> QED
    BY <2>3, <2>4, <2>5
<1>10. WorkbenchInv'
  <2>1. \E T : records' \in Seq(T)
    BY <1>4, <1>8
  <2> QED
    BY <1>1, <1>9, <2>1 DEF WorkbenchInv
<1>11. ASSUME r # records, ~(t.creates /\ r = Append(records, "draft"))
       PROVE  /\ records # <<>> /\ Front(r) = Front(records)
              /\ Last(r) = t.names
              /\ Last(records) \in t.saw \/ t.button \in {"rejected", "evidence", "save"}
              /\ Last(r) \in {Following(kind, Last(records)), "rejected"}
  <2>1. ~t.creates /\ t.names # "same" /\ r = [records EXCEPT ![n] = t.names]
    BY <1>7, <1>11
  <2>2. n # 0
    BY <1>6, <1>11, <2>1
  <2>3. records # <<>> /\ n \in 1..n
    BY <1>5, <1>6, <2>2
  <2>4. PICK now : now = records[n]
    OBVIOUS
  <2>5. now = Last(records) /\ NewestStage = now
    BY <1>5, <2>3, <2>4 DEF Last, NewestStage, StageOfNewest
  <2>6. t.names # now
    BY <1>6, <1>11, <2>1, <2>4
  <2>7. now # NoRecord
    <3>1. ASSUME now = NoRecord PROVE FALSE
      BY <1>1, <2>1, <2>5, <3>1, NothingToMove
    <3> QED
      BY <3>1
  <2>8. /\ now \in t.saw \/ t.button \in {"rejected", "evidence", "save"}
        /\ t.names \in {Following(kind, now), "rejected"}
    BY <1>1, <1>3, <2>1, <2>5, <2>6, <2>7, TakenAsPressed
  <2>9. PICK T : r \in Seq(T)
    BY <1>8
  <2>10. /\ Len(r) = n /\ r[n] = t.names
         /\ \A i \in 1..(n - 1) : r[i] = records[i]
    <3>1. DOMAIN r = 1..n /\ DOMAIN r = 1..Len(r) /\ Len(r) \in Nat
      BY <1>6, <2>1, <2>9, LenProperties
    <3>2. Len(r) = n
      BY <1>6, <3>1
    <3> QED
      BY <1>6, <2>1, <2>3, <3>2
  <2>11. Last(r) = t.names
    BY <2>10 DEF Last
  <2>12. Front(r) = Front(records)
    <3>1. PICK U : U = S \cup T
      OBVIOUS
    <3>2. \A i \in 1..(n - 1) : r[i] \in U /\ records[i] \in U
      BY <1>6, <2>10, <3>1
    <3>3. /\ SubSeq(r, 1, n - 1) \in Seq(U) /\ SubSeq(records, 1, n - 1) \in Seq(U)
          /\ Len(SubSeq(r, 1, n - 1)) = n - 1 /\ Len(SubSeq(records, 1, n - 1)) = n - 1
          /\ \A i \in 1..(n - 1) : /\ SubSeq(r, 1, n - 1)[i] = r[i]
                                  /\ SubSeq(records, 1, n - 1)[i] = records[i]
      BY <1>6, <2>2, <3>2, SubSeqProperties
    <3>4. SubSeq(r, 1, n - 1) = SubSeq(records, 1, n - 1)
      BY <2>10, <3>3, SeqEqual
    <3> QED
      BY <1>5, <2>10, <3>4 DEF Front
  <2> QED
    BY <2>3, <2>5, <2>8, <2>11, <2>12
<1> QED
  BY <1>4, <1>10, <1>11

\* However stale the pages are: a request that moves a record takes it to the stage
\* it names, one stage on, from a stage the page had before it at the click.
THEOREM ClicksKeepTheirWord == WorkbenchSpec => ClickKeepsItsWord
<1>1. WorkbenchInit => WorkbenchInv
  <2> SUFFICES ASSUME WorkbenchInit PROVE WorkbenchInv
    OBVIOUS
  <2>1. PICK S : S = Rungs(kind)
    OBVIOUS
  <2>2. records = <<>> \/ \E s \in S : records = <<s>>
    BY <2>1 DEF WorkbenchInit
  <2>3. <<>> \in Seq(S) /\ \A s \in S : <<s>> \in Seq(S)
    OBVIOUS
  <2>4. records \in Seq(S)
    BY <2>2, <2>3
  <2> QED
    BY <2>4 DEF WorkbenchInit, WorkbenchInv, Kinds
<1>2. WorkbenchInv /\ [WorkbenchNext]_workbenchVars => WorkbenchInv'
  <2> SUFFICES ASSUME WorkbenchInv, [WorkbenchNext]_workbenchVars PROVE WorkbenchInv'
    OBVIOUS
  <2>1. CASE UNCHANGED workbenchVars
    BY <2>1 DEF workbenchVars, WorkbenchInv, GoodTask, Pressed
  <2>2. CASE WorkbenchNext
    BY <2>2, PagesKeepWorkbench, ServeKeepsItsWord DEF WorkbenchNext
  <2> QED
    BY <2>1, <2>2
<1>3. ASSUME WorkbenchInv, [WorkbenchNext]_workbenchVars
      PROVE  [\E t \in tasks :
                /\ t.at \in {"server", "unattended"}
                /\ \/ t.creates /\ records' = Append(records, "draft")
                   \/ /\ records # <<>> /\ Front(records') = Front(records)
                      /\ Last(records') = t.names
                      /\ Last(records) \in t.saw \/ t.button \in {"rejected", "evidence", "save"}
                      /\ Last(records') \in {Following(kind, Last(records)), "rejected"}]_records
  <2>1. CASE UNCHANGED records
    BY <2>1
  <2>2. CASE records' # records
    <3>1. WorkbenchNext
      BY <1>3, <2>2 DEF workbenchVars
    <3>2. PICK t \in tasks : Serve(t)
      BY <1>3, <2>2, <3>1, PagesKeepWorkbench DEF WorkbenchNext
    <3>3. t.at \in {"server", "unattended"}
      BY <3>2 DEF Serve
    <3> QED
      BY <1>3, <2>2, <3>2, <3>3, ServeKeepsItsWord
  <2> QED
    BY <2>1, <2>2
<1> QED
  BY <1>1, <1>2, <1>3, PTL DEF WorkbenchSpec, ClickKeepsItsWord

-----------------------------------------------------------------------------
(* What the acceptance and the workbench see of the records                *)

\* The stages of records are as many as the records.
LEMMA StagesOfRecords ==
  ASSUME NEW S, NEW some \in Seq(S), NEW T, \A x \in S : x.life \in T
  PROVE  /\ StagesOf(some) \in Seq(T) /\ Len(StagesOf(some)) = Len(some)
         /\ \A i \in DOMAIN some : StagesOf(some)[i] = some[i].life
<1>1. Len(some) \in Nat /\ DOMAIN some = 1..Len(some) /\ \A i \in 1..Len(some) : some[i] \in S
  BY LenProperties, ElementOfSeq
<1>2. PICK n : n = Len(some)
  OBVIOUS
<1>3. PICK q : q = StagesOf(some)
  OBVIOUS
<1>4. q \in [1..n -> T] /\ \A i \in 1..n : q[i] = some[i].life
  BY <1>1, <1>2, <1>3 DEF StagesOf
<1>5. q \in Seq(T) /\ Len(q) = n
  BY <1>1, <1>2, <1>4, SeqDef, LenProperties
<1> QED
  BY <1>1, <1>2, <1>3, <1>4, <1>5

\* A record more is a stage more.
LEMMA StagesGrow ==
  ASSUME NEW S, NEW some \in Seq(S), NEW x \in S
  PROVE  StagesOf(Append(some, x)) = Append(StagesOf(some), x.life)
<1>1. PICK T : T = {y.life : y \in S}
  OBVIOUS
<1>2. \A y \in S : y.life \in T
  BY <1>1
<1>3. PICK more : more = Append(some, x)
  OBVIOUS
<1>4. /\ more \in Seq(S) /\ Len(more) = Len(some) + 1 /\ more[Len(some) + 1] = x
      /\ Len(some) \in Nat /\ DOMAIN some = 1..Len(some) /\ DOMAIN more = 1..(Len(some) + 1)
      /\ \A i \in 1..Len(some) : more[i] = some[i]
  BY <1>3, AppendProperties, LenProperties
<1>5. PICK q : q = StagesOf(some)
  OBVIOUS
<1>6. q \in Seq(T) /\ Len(q) = Len(some) /\ \A i \in 1..Len(some) : q[i] = some[i].life
  BY <1>2, <1>4, <1>5, StagesOfRecords
<1>7. PICK r : r = StagesOf(more)
  OBVIOUS
<1>8. /\ r \in Seq(T) /\ Len(r) = Len(some) + 1
      /\ \A i \in 1..(Len(some) + 1) : r[i] = more[i].life
  BY <1>2, <1>4, <1>7, StagesOfRecords
<1>9. x.life \in T
  BY <1>2
<1>10. PICK u : u = Append(q, x.life)
  OBVIOUS
<1>11. /\ u \in Seq(T) /\ Len(u) = Len(some) + 1 /\ u[Len(some) + 1] = x.life
       /\ \A i \in 1..Len(some) : u[i] = q[i]
  BY <1>6, <1>9, <1>10, AppendProperties
<1>12. \A i \in 1..(Len(some) + 1) : r[i] = u[i]
  <2> TAKE i \in 1..(Len(some) + 1)
  <2>1. CASE i \in 1..Len(some)
    BY <1>4, <1>6, <1>8, <1>11, <2>1
  <2>2. CASE i = Len(some) + 1
    BY <1>4, <1>8, <1>11, <2>2
  <2> QED
    BY <1>4, <2>1, <2>2
<1>13. r = u
  BY <1>8, <1>11, <1>12, SeqEqual
<1> QED
  BY <1>3, <1>5, <1>7, <1>10, <1>13

\* One element is replaced: a name for lemmas to match.
Replaced(some, i, x) == [some EXCEPT ![i] = x]

\* A record is replaced, and its stage with it.
LEMMA StagesReplaced ==
  ASSUME NEW S, NEW some \in Seq(S), NEW i \in DOMAIN some, NEW x \in S
  PROVE  StagesOf(Replaced(some, i, x)) = Replaced(StagesOf(some), i, x.life)
<1>1. PICK more : more = Replaced(some, i, x)
  OBVIOUS
<1>2. /\ DOMAIN some = 1..Len(some) /\ DOMAIN more = 1..Len(some)
      /\ \A j \in 1..Len(some) : more[j] = IF j = i THEN x ELSE some[j]
  BY <1>1, LenProperties DEF Replaced
<1>3. PICK q : q = StagesOf(some)
  OBVIOUS
<1>4. /\ DOMAIN q = 1..Len(some) /\ q = [j \in 1..Len(some) |-> q[j]]
      /\ \A j \in 1..Len(some) : q[j] = some[j].life
  BY <1>2, <1>3 DEF StagesOf
<1>5. PICK r : r = StagesOf(more)
  OBVIOUS
<1>6. r = [j \in 1..Len(some) |-> more[j].life]
  BY <1>2, <1>5 DEF StagesOf
<1>7. [q EXCEPT ![i] = x.life] = [j \in 1..Len(some) |-> IF j = i THEN x.life ELSE q[j]]
  BY <1>4
<1>8. \A j \in 1..Len(some) : more[j].life = IF j = i THEN x.life ELSE q[j]
  BY <1>2, <1>4
<1>9. r = [q EXCEPT ![i] = x.life]
  BY <1>6, <1>7, <1>8
<1> QED
  BY <1>1, <1>3, <1>5, <1>9 DEF Replaced

\* The rank of a stage that occurs once is its place.
LEMMA RankIsPlace ==
  ASSUME NEW stages, NEW i \in DOMAIN stages,
         \A j \in DOMAIN stages : stages[j] = stages[i] => j = i
  PROVE  StageRank(stages, stages[i]) = i
BY DEF StageRank

\* What follows a stage of a contract is the same to everybody.
LEMMA NextContractStage ==
  ASSUME NEW from, NEW to, Follows(from, to)
  PROVE  /\ from \notin {Nothing, NoRecord, "closed"} /\ to \in Rungs("contract")
         /\ Following("contract", from) = to
         /\ ContractStages[StageRank(ContractStages, from) + 1] = to
<1>1. PICK i \in 1..(Len(LIFECYCLE) - 1) : from = LIFECYCLE[i] /\ to = LIFECYCLE[i + 1]
  BY DEF Follows
<1>2. /\ Ladder("contract") = LIFECYCLE /\ ContractStages = LIFECYCLE
      /\ Len(LIFECYCLE) = 6 /\ DOMAIN LIFECYCLE = 1..6
  BY DEF Ladder, ContractStages, LIFECYCLE
<1>3. \A a, b \in 1..6 : LIFECYCLE[a] = LIFECYCLE[b] => a = b
  BY DEF LIFECYCLE
<1>4. StageRank(ContractStages, from) = i
  BY <1>1, <1>2, <1>3, RankIsPlace
<1>5. Following("contract", from) = to
  BY <1>1, <1>2, FollowingOnLadder DEF Kinds
<1>6. to \in Rungs("contract")
  BY <1>1, <1>2 DEF Rungs, ToSet
<1>7. from \notin {Nothing, NoRecord, "closed"}
  BY NextStage DEF Nothing, NoRecord
<1> QED
  BY <1>1, <1>2, <1>4, <1>5, <1>6, <1>7

\* And what follows a stage of a workflow.
LEMMA NextRoomStage ==
  ASSUME NEW from \in Keys, NEW to \in Keys, Place(to) = Place(from) + 1
  PROVE  /\ from \notin {NoRecord, "closed"} /\ to \in Rungs("room") /\ to # "draft"
         /\ Following("room", from) = to
         /\ RoomStages[StageRank(RoomStages, from) + 1] = to
<1>1. /\ Ladder("room") = Lifecycle /\ RoomStages = Lifecycle
      /\ Len(Lifecycle) = 7 /\ DOMAIN Lifecycle = 1..7
  BY DEF Ladder, RoomStages, Lifecycle
<1>2. \A a, b \in 1..7 : Lifecycle[a] = Lifecycle[b] => a = b
  BY DEF Lifecycle
<1>3. Place(from) \in 1..6 /\ from # "closed" /\ to # "draft"
  BY Places
<1>4. \A k \in Keys : Place(k) \in 1..7 /\ Lifecycle[Place(k)] = k
  BY <1>1 DEF Keys, Place
<1>5. PICK i : i = Place(from)
  OBVIOUS
<1>6. i \in 1..6 /\ from = Lifecycle[i] /\ to = Lifecycle[i + 1]
  BY <1>3, <1>4, <1>5
<1>7. StageRank(RoomStages, from) = i
  BY <1>1, <1>2, <1>6, RankIsPlace
<1>8. Following("room", from) = to
  <2>1. "room" \in Kinds
    BY DEF Kinds
  <2>2. Len(Ladder("room")) = 7
    BY <1>1
  <2>3. i \in 1..(Len(Ladder("room")) - 1)
    <3>1. i \in 1..6
      BY <1>6
    <3>2. PICK n : n = Len(Ladder("room"))
      OBVIOUS
    <3>3. n = 7
      BY <2>2, <3>2
    <3>4. i \in 1..(n - 1)
      BY ONLY <3>1, <3>3
    <3> QED
      BY <3>2, <3>4
  <2> QED
    BY <1>1, <1>6, <2>1, <2>3, FollowingOnLadder
<1>9. to \in Rungs("room")
  BY <1>1, <1>6 DEF Rungs, ToSet
<1>10. from # NoRecord
  BY Places DEF NoRecord
<1> QED
  BY <1>1, <1>3, <1>6, <1>7, <1>8, <1>9, <1>10

\* And what follows a stage of a ledger.
LEMMA NextLedgerStage ==
  ASSUME NEW from, NEW to \in Successors(from)
  PROVE  /\ from # NoRecord /\ to \in Rungs("ledger") /\ to # "same"
         /\ to = Following("ledger", from) \/ (to = "rejected" /\ from = "submitted")
<1>1. \/ from = "draft" /\ to = "submitted"
      \/ from = "submitted" /\ to \in {"verified", "rejected"}
  BY DEF Successors
<1>2. {"submitted", "verified", "rejected"} \subseteq Rungs("ledger")
  BY DEF Rungs, Ladder, ToSet
<1> QED
  BY <1>1, <1>2, ButtonsAreBelow DEF NoRecord

\* A draft more is what the server makes of a button that creates.
LEMMA ServedNew ==
  ASSUME NEW k \in {"contract", "ledger", "room"},
         SeenStages'[k] = Append(SeenStages[k], "draft"),
         k = "contract" => StageOfNewest(SeenStages[k]) \in {NoRecord, "closed"}
  PROVE  MovedAsServed(k)
<1>1. PICK t : t = [creates |-> TRUE, button |-> "next", names |-> "draft"]
  OBVIOUS
<1>2. "draft" \in Rungs(k)
  BY DEF Rungs, Ladder, ToSet
<1>3. t \in Demand(k)
  BY <1>1, <1>2 DEF Demand
<1>4. Last(Ladder("contract")) = "closed"
  BY DEF Ladder, Last
<1>5. t.creates
  BY <1>1
<1>6. Takes(k, t, StageOfNewest(SeenStages[k]))
  <2>1. PICK now : now = StageOfNewest(SeenStages[k])
    OBVIOUS
  <2>2. k = "contract" => now = NoRecord \/ now \in Final(k)
    BY <1>4, <2>1 DEF Final
  <2>3. now = NoRecord \/ now \in Final(k) \/ k \in {"ledger", "room"}
    BY <2>2
  <2>4. Takes(k, t, now)
    BY <1>5, <2>3 DEF Takes
  <2> QED
    BY <2>1, <2>4
<1>7. Written(t, SeenStages[k]) = Append(SeenStages[k], "draft")
  BY <1>5, Zenon DEF Written
<1> QED
  BY <1>3, <1>6, <1>7 DEF MovedAsServed

\* The next stage is what the server makes of a button that names it.
LEMMA ServedNext ==
  ASSUME NEW k \in {"contract", "ledger", "room"}, NEW now, NEW to \in Rungs(k),
         StageOfNewest(SeenStages[k]) = now,
         now # NoRecord, k = "contract" => now # "closed", to # "same",
         \/ to = Following(k, now)
         \/ k = "ledger" /\ to = "rejected" /\ now = "submitted",
         SeenStages'[k] = [SeenStages[k] EXCEPT ![Len(SeenStages[k])] = to]
  PROVE  MovedAsServed(k)
<1>1. PICK t : t = [creates |-> FALSE, button |-> "next", names |-> to]
  OBVIOUS
<1>2. t \in Demand(k)
  BY <1>1 DEF Demand
<1>3. t.names = to /\ t.button = "next"
  BY <1>1
<1>4. ~t.creates
  BY <1>1
<1>5. Takes(k, t, now)
  <2>1. CASE k = "contract"
    BY <1>3, <1>4, <2>1 DEF Takes, ContractTakes
  <2>2. CASE k = "ledger"
    BY <1>3, <1>4, <2>2 DEF Takes
  <2>3. CASE k = "room"
    BY <1>3, <1>4, <2>3 DEF Takes
  <2> QED
    BY <2>1, <2>2, <2>3
<1>6. Written(t, SeenStages[k]) = [SeenStages[k] EXCEPT ![Len(SeenStages[k])] = to]
  BY <1>3, <1>4 DEF Written
<1> QED
  BY <1>2, <1>5, <1>6 DEF MovedAsServed

\* A record that is written in its stage leaves the stages alone.
LEMMA StagesStay ==
  ASSUME NEW S, NEW some \in Seq(S), NEW i \in DOMAIN some, NEW x \in S, x.life = some[i].life
  PROVE  StagesOf(Replaced(some, i, x)) = StagesOf(some)
<1>1. PICK q : q = StagesOf(some)
  OBVIOUS
<1>2. i \in DOMAIN q /\ q[i] = x.life /\ q = [j \in DOMAIN q |-> q[j]]
  BY <1>1 DEF StagesOf
<1>3. Replaced(q, i, x.life) = q
  BY <1>2 DEF Replaced
<1> QED
  BY <1>1, <1>3, StagesReplaced

\* All contracts but the newest are closed.
OlderClosed == \A i \in DOMAIN contracts : i # Len(contracts) => contracts[i].life = "closed"

\* What is seen of the three records is put together from the three.
LEMMA SeenTogether ==
  /\ UNCHANGED contracts => SeenContract' = SeenContract /\ SeenStages'["contract"] = SeenStages["contract"]
  /\ UNCHANGED ledgers => SeenFinance' = SeenFinance /\ SeenStages'["ledger"] = SeenStages["ledger"]
  /\ UNCHANGED workflows => SeenRoom' = SeenRoom /\ SeenStages'["room"] = SeenStages["room"]
  /\ DOMAIN SeenStages = {"contract", "ledger", "room"}
BY DEF SeenContract, SeenFinance, SeenRoom, SeenStages, LatestLedger, Newest, OpenCritical, StagesOf

\* One of the three fields of a situation is written.
LEMMA OneOfThree ==
  ASSUME NEW s, NEW t, NEW c, NEW f, NEW r, NEW new,
         s = [contract |-> c, finance |-> f, room |-> r]
  PROVE  /\ t = [contract |-> new, finance |-> f, room |-> r] => t = [s EXCEPT !.contract = new]
         /\ t = [contract |-> c, finance |-> new, room |-> r] => t = [s EXCEPT !.finance = new]
         /\ t = [contract |-> c, finance |-> f, room |-> new] => t = [s EXCEPT !.room = new]
         /\ s.contract = c /\ s.finance = f /\ s.room = r
OBVIOUS

\* A contract is added, changed or taken on as acceptance and workbench expect it.
LEMMA ContractSeen ==
  ASSUME IInv, OlderClosed, ContractNext, UNCHANGED <<ledgers, workflows>>
  PROVE  /\ OlderClosed'
         /\ MovedAsRead
         /\ MovedAsServed("contract")
<1>1. PICK cs : cs = contracts
  OBVIOUS
<1>2. PICK n : n = Len(cs)
  OBVIOUS
<1>3. /\ cs \in Seq(GoodContracts) /\ n \in Nat /\ DOMAIN cs = 1..n
      /\ cs # <<>> => n \in 1..n
  BY <1>1, <1>2, LenProperties, EmptySeq DEF IInv
<1>4. /\ SeenStages["contract"] = StagesOf(cs)
      /\ SeenStages'["contract"] = StagesOf(contracts')
  BY <1>1 DEF SeenStages
<1>5. PICK T : T = {x.life : x \in GoodContracts}
  OBVIOUS
<1>6. /\ StagesOf(cs) \in Seq(T) /\ Len(StagesOf(cs)) = n
      /\ \A i \in 1..n : StagesOf(cs)[i] = cs[i].life
  BY <1>2, <1>3, <1>5, StagesOfRecords
<1>7. /\ cs = <<>> => StageOfNewest(StagesOf(cs)) = NoRecord
      /\ cs # <<>> => StageOfNewest(StagesOf(cs)) = cs[n].life
  <2>1. CASE cs = <<>>
    <3>1. StagesOf(cs) = <<>>
      BY <1>2, <1>6, <2>1, EmptySeq
    <3> QED
      BY <2>1, <3>1 DEF StageOfNewest
  <2>2. CASE cs # <<>>
    <3>1. StagesOf(cs) # <<>> /\ StagesOf(cs)[Len(StagesOf(cs))] = cs[n].life
      BY <1>3, <1>6, <2>2, EmptySeq
    <3> QED
      BY <2>2, <3>1 DEF StageOfNewest, Last
  <2> QED
    BY <2>1, <2>2
<1>8. /\ cs = <<>> => SeenContract = Nothing
      /\ cs # <<>> => SeenContract = cs[n].life
  BY <1>1, <1>2 DEF SeenContract, Last
<1>9. /\ SeenFinance' = SeenFinance /\ SeenRoom' = SeenRoom
  BY SeenTogether
<1>10. ASSUME NEW c, SeenContract' = c,
              \/ c = "draft" /\ SeenContract \in {Nothing, "closed"}
              \/ /\ SeenContract \notin {Nothing, "closed"}
                 /\ c = ContractStages[StageRank(ContractStages, SeenContract) + 1]
       PROVE  MovedAsRead
  <2>1. PICK s : s = SeenRecords
    OBVIOUS
  <2>2. PICK t : t = SeenRecords'
    OBVIOUS
  <2>3. t = [s EXCEPT !.contract = c] /\ s.contract = SeenContract
    BY <1>9, <1>10, <2>1, <2>2, OneOfThree DEF SeenRecords
  <2>4. t \in MoveContract(s)
    BY <1>10, <2>3 DEF MoveContract
  <2> QED
    BY <2>1, <2>2, <2>4 DEF MovedAsRead, MoveRecord
<1>11. CASE NoActiveContract /\ \E x \in GoodContracts : x.life = "draft" /\ contracts' = Append(contracts, x)
  <2>1. PICK x \in GoodContracts : x.life = "draft" /\ contracts' = Append(cs, x)
    BY <1>1, <1>11
  <2>2. PICK ds : ds = contracts'
    OBVIOUS
  <2>3. /\ Len(ds) = n + 1 /\ ds[n + 1] = x /\ DOMAIN ds = 1..(n + 1) /\ ds # <<>>
        /\ \A i \in 1..n : ds[i] = cs[i]
    BY <1>2, <1>3, <2>1, <2>2, AppendProperties, LenProperties
  <2>4. \A i \in 1..n : cs[i].life = "closed"
    BY <1>1, <1>3, <1>11 DEF NoActiveContract
  <2>5. OlderClosed'
    <3>1. \A i \in DOMAIN ds : i # Len(ds) => ds[i].life = "closed"
      BY <1>3, <2>3, <2>4
    <3> QED
      BY <2>2, <3>1 DEF OlderClosed
  <2>6. SeenContract' = "draft"
    <3>1. Last(ds).life = "draft"
      BY <2>1, <2>3 DEF Last
    <3> QED
      BY <2>2, <2>3, <3>1 DEF SeenContract
  <2>7. MovedAsRead
    BY <1>3, <1>8, <1>10, <2>4, <2>6
  <2>8. StagesOf(ds) = Append(StagesOf(cs), "draft")
    BY <1>3, <2>1, <2>2, StagesGrow
  <2>9. MovedAsServed("contract")
    BY <1>3, <1>4, <1>7, <2>2, <2>4, <2>8, ServedNew
  <2> QED
    BY <2>5, <2>7, <2>9
<1>12. ASSUME NEW i \in DOMAIN contracts, NEW x \in GoodContracts,
              contracts[i].life # "closed", contracts' = [contracts EXCEPT ![i] = x],
              x.life = contracts[i].life \/ Follows(contracts[i].life, x.life)
       PROVE  /\ OlderClosed'
              /\ MovedAsRead
              /\ MovedAsServed("contract")
  <2>1. i = n /\ cs # <<>> /\ n \in 1..n
    BY <1>1, <1>2, <1>3, <1>12 DEF OlderClosed
  <2>2. PICK ds : ds = contracts'
    OBVIOUS
  <2>3. ds = [cs EXCEPT ![n] = x] /\ ds \in Seq(GoodContracts)
    BY <1>1, <1>2, <1>3, <1>12, <2>1, <2>2, ExceptSeq
  <2>4. Len(ds) = n /\ ds[n] = x /\ DOMAIN ds = 1..n /\ \A j \in 1..n : j # n => ds[j] = cs[j]
    BY <1>2, <1>3, <2>1, <2>3, ExceptSeq, LenProperties
  <2>5. OlderClosed'
    <3>1. \A j \in DOMAIN ds : j # Len(ds) => ds[j].life = "closed"
      BY <1>1, <1>2, <1>3, <2>4 DEF OlderClosed
    <3> QED
      BY <2>2, <3>1 DEF OlderClosed
  <2>6. SeenContract' = x.life
    <3>1. ds # <<>> /\ Last(ds) = x
      BY <2>1, <2>3, <2>4, EmptySeq DEF Last
    <3> QED
      BY <2>2, <3>1 DEF SeenContract
  <2>7. CASE x.life = cs[n].life
    <3>1. SeenRecords' = SeenRecords
      BY <1>8, <1>9, <2>1, <2>6, <2>7 DEF SeenRecords
    <3>2. StagesOf(ds) = StagesOf(cs)
      <4>1. cs \in Seq(GoodContracts) /\ n \in DOMAIN cs /\ x.life = cs[n].life
        BY <1>3, <2>1, <2>7
      <4>2. StagesOf(Replaced(cs, n, x)) = StagesOf(cs)
        BY <4>1, StagesStay
      <4> QED
        BY <2>3, <4>2 DEF Replaced
    <3> QED
      BY <1>4, <2>2, <2>5, <3>1, <3>2 DEF MovedAsRead, MovedAsServed
  <2>8. CASE Follows(cs[n].life, x.life)
    <3>1. PICK from : from = cs[n].life
      OBVIOUS
    <3>2. PICK to : to = x.life
      OBVIOUS
    <3>3. /\ from \notin {Nothing, NoRecord, "closed"} /\ to \in Rungs("contract")
          /\ Following("contract", from) = to
          /\ ContractStages[StageRank(ContractStages, from) + 1] = to
      BY <2>8, <3>1, <3>2, NextContractStage
    <3>4. MovedAsRead
      BY <1>8, <1>10, <2>1, <2>6, <3>1, <3>2, <3>3
    <3>5. StagesOf(ds) = [StagesOf(cs) EXCEPT ![Len(StagesOf(cs))] = to]
      <4>1. cs \in Seq(GoodContracts) /\ n \in DOMAIN cs
        BY <1>3, <2>1
      <4>2. StagesOf(Replaced(cs, n, x)) = Replaced(StagesOf(cs), n, x.life)
        BY <4>1, StagesReplaced
      <4> QED
        BY <1>6, <2>3, <3>2, <4>2 DEF Replaced
    <3>6. to # "same"
      BY <2>8, <3>2, NextStage
    <3>7. MovedAsServed("contract")
      BY <1>4, <1>7, <2>1, <2>2, <3>1, <3>3, <3>5, <3>6, ServedNext
    <3> QED
      BY <2>5, <3>4, <3>7
  <2> QED
    BY <1>1, <1>12, <2>1, <2>7, <2>8
<1> QED
  BY <1>3, <1>11, <1>12, <1>1, ContractSteps DEF ContractStep

\* The stage of the newest record.
LEMMA NewestStageSeen ==
  ASSUME NEW S, NEW some \in Seq(S), some # <<>>
  PROVE  /\ Len(some) \in DOMAIN some /\ Len(StagesOf(some)) = Len(some)
         /\ StageOfNewest(StagesOf(some)) = some[Len(some)].life
<1>1. PICK T : T = {x.life : x \in S}
  OBVIOUS
<1>2. \A x \in S : x.life \in T
  BY <1>1
<1>3. /\ StagesOf(some) \in Seq(T) /\ Len(StagesOf(some)) = Len(some)
      /\ \A i \in DOMAIN some : StagesOf(some)[i] = some[i].life
  BY <1>2, StagesOfRecords
<1>4. Len(some) \in DOMAIN some /\ Len(some) # 0
  BY EmptySeq, LenProperties
<1>5. StagesOf(some) # <<>>
  BY <1>3, <1>4, EmptySeq
<1> QED
  BY <1>3, <1>4, <1>5 DEF StageOfNewest, Last

\* A ledger is added, changed or taken on as acceptance and workbench expect it.
LEMMA LedgerSeen ==
  ASSUME IInv, LedgerNext, UNCHANGED <<contracts, workflows>>
  PROVE  MovedAsRead /\ MovedAsServed("ledger")
<1>1. PICK ls : ls = ledgers
  OBVIOUS
<1>2. PICK n : n = Len(ls)
  OBVIOUS
<1>3. PICK ms : ms = ledgers'
  OBVIOUS
<1>4. ls \in Seq(GoodLedgers)
  BY <1>1 DEF IInv
<1>5. SeenStages["ledger"] = StagesOf(ls) /\ SeenStages'["ledger"] = StagesOf(ms)
  BY <1>1, <1>3 DEF SeenStages
<1>6. SeenContract' = SeenContract /\ SeenRoom' = SeenRoom
  BY SeenTogether
<1>7. ASSUME NEW f, SeenFinance' = f,
             \/ f = "not_verified" \/ f = SeenFinance
             \/ SeenFinance = "not_verified" /\ f = "submitted"
             \/ SeenFinance = "submitted" /\ f \in {"verified", "rejected"}
      PROVE  MovedAsRead
  <2>1. PICK s : s = SeenRecords
    OBVIOUS
  <2>2. PICK t : t = SeenRecords'
    OBVIOUS
  <2>3. t = [s EXCEPT !.finance = f] /\ s.finance = SeenFinance
    BY <1>6, <1>7, <2>1, <2>2, OneOfThree DEF SeenRecords
  <2>4. CASE f = SeenFinance
    BY <1>6, <1>7, <2>1, <2>2, <2>4 DEF SeenRecords, MovedAsRead
  <2>5. CASE f # SeenFinance
    <3>1. f \in {"not_verified"} \cup (CASE s.finance = "not_verified" -> {"submitted"}
                                         [] s.finance = "submitted" -> {"verified", "rejected"}
                                         [] OTHER -> {})
      BY <1>7, <2>3, <2>5
    <3>2. t \in MoveLedger(s)
      BY <2>3, <3>1 DEF MoveLedger
    <3> QED
      BY <2>1, <2>2, <3>2 DEF MovedAsRead, MoveRecord
  <2> QED
    BY <2>4, <2>5
<1>8. CASE \E x \in GoodLedgers : x.life = "draft" /\ ledgers' = Append(ledgers, x)
  <2>1. PICK x \in GoodLedgers : x.life = "draft" /\ ms = Append(ls, x)
    BY <1>1, <1>3, <1>8
  <2>2. ms \in Seq(GoodLedgers) /\ ms # <<>> /\ Len(ms) = n + 1 /\ ms[n + 1] = x
    BY <1>2, <1>4, <2>1, AppendProperties
  <2>3. SeenFinance' = "not_verified"
    <3>1. x.finance = "not_verified"
      BY <2>1 DEF GoodLedgers
    <3> QED
      BY <1>3, <2>2, <3>1 DEF SeenFinance, LatestLedger
  <2>4. MovedAsRead
    BY <1>7, <2>3
  <2>5. StagesOf(ms) = Append(StagesOf(ls), "draft")
    BY <1>4, <2>1, StagesGrow
  <2>6. MovedAsServed("ledger")
    BY <1>5, <2>5, ServedNew
  <2> QED
    BY <2>4, <2>6
<1>9. ASSUME NEW x \in GoodLedgers, ledgers # <<>>, ReplaceLatest(x),
             x.life = LatestLedger.life \/ x.life \in Successors(LatestLedger.life)
      PROVE  MovedAsRead /\ MovedAsServed("ledger")
  <2>1. /\ n \in DOMAIN ls /\ Len(StagesOf(ls)) = n /\ DOMAIN ls = 1..n
        /\ StageOfNewest(StagesOf(ls)) = ls[n].life
    BY <1>1, <1>2, <1>4, <1>9, NewestStageSeen, LenProperties
  <2>2. ms = [ls EXCEPT ![n] = x] /\ ms = Replaced(ls, n, x)
    BY <1>1, <1>2, <1>3, <1>9 DEF ReplaceLatest, Replaced
  <2>3. ms \in Seq(GoodLedgers) /\ Len(ms) = n /\ ms[n] = x /\ ms # <<>>
    BY <1>4, <2>1, <2>2, ExceptSeq, EmptySeq, LenProperties
  <2>4. ls[n] \in GoodLedgers /\ LatestLedger = ls[n]
    BY <1>1, <1>2, <1>4, <2>1, ElementOfSeq DEF LatestLedger
  <2>5. SeenFinance = ls[n].finance
    BY <1>9, <2>4 DEF SeenFinance
  <2>6. SeenFinance' = x.finance
    BY <1>3, <2>3 DEF SeenFinance, LatestLedger
  <2>7. /\ ls[n].finance = (IF ls[n].life = "draft" THEN "not_verified" ELSE ls[n].life)
        /\ x.finance = (IF x.life = "draft" THEN "not_verified" ELSE x.life)
        /\ {x.life, ls[n].life} \subseteq {"draft", "submitted", "verified", "rejected"}
    BY <2>4 DEF GoodLedgers, Ledger
  <2>8. MovedAsRead
    <3>1. PICK f : f = x.finance
      OBVIOUS
    <3>2. PICK g : g = SeenFinance
      OBVIOUS
    <3>3. \/ f = "not_verified" \/ f = g
          \/ g = "not_verified" /\ f = "submitted"
          \/ g = "submitted" /\ f \in {"verified", "rejected"}
      BY <1>9, <2>4, <2>5, <2>7, <3>1, <3>2 DEF Successors
    <3> QED
      BY <1>7, <2>6, <3>1, <3>2, <3>3
  <2>9. CASE x.life = ls[n].life
    <3>1. StagesOf(Replaced(ls, n, x)) = StagesOf(ls)
      BY <1>4, <2>1, <2>9, StagesStay
    <3> QED
      BY <1>5, <2>2, <2>8, <3>1 DEF MovedAsServed
  <2>10. CASE x.life \in Successors(ls[n].life)
    <3>1. PICK from : from = ls[n].life
      OBVIOUS
    <3>2. PICK to : to = x.life
      OBVIOUS
    <3>3. /\ from # NoRecord /\ to \in Rungs("ledger") /\ to # "same"
          /\ to = Following("ledger", from) \/ (to = "rejected" /\ from = "submitted")
      BY <2>10, <3>1, <3>2, NextLedgerStage
    <3>4. StagesOf(Replaced(ls, n, x)) = Replaced(StagesOf(ls), n, x.life)
      BY <1>4, <2>1, StagesReplaced
    <3>5. StagesOf(ms) = [StagesOf(ls) EXCEPT ![Len(StagesOf(ls))] = to]
      BY <2>1, <2>2, <3>2, <3>4 DEF Replaced
    <3>6. MovedAsServed("ledger")
      BY <1>5, <2>1, <3>1, <3>3, <3>5, ServedNext
    <3> QED
      BY <2>8, <3>6
  <2> QED
    BY <1>9, <2>4, <2>9, <2>10
<1> QED
  BY <1>4, <1>1, <1>8, <1>9, LedgerSteps DEF LedgerStep

\* A workflow is added, changed or taken on as acceptance and workbench expect it.
LEMMA RoomSeen ==
  ASSUME IInv, RoomNext, UNCHANGED <<contracts, ledgers>>
  PROVE  MovedAsRead /\ MovedAsServed("room")
<1>1. PICK ws : ws = workflows
  OBVIOUS
<1>2. PICK n : n = Len(ws)
  OBVIOUS
<1>3. PICK us : us = workflows'
  OBVIOUS
<1>4. ws \in Seq(GoodWorkflows)
  BY <1>1 DEF IInv
<1>5. SeenStages["room"] = StagesOf(ws) /\ SeenStages'["room"] = StagesOf(us)
  BY <1>1, <1>3 DEF SeenStages
<1>6. SeenContract' = SeenContract /\ SeenFinance' = SeenFinance
  BY SeenTogether
<1>7. ASSUME NEW room, SeenRoom' = room,
             \/ \E c \in BOOLEAN : room = [SeenRoom EXCEPT !.critical = c]
             \/ room \in [life : {"draft"}, ahead : BOOLEAN, critical : BOOLEAN]
             \/ /\ SeenRoom.life # "closed"
                /\ room = [life |-> RoomStages[StageRank(RoomStages, SeenRoom.life) + 1],
                           ahead |-> FALSE, critical |-> SeenRoom.critical]
      PROVE  MovedAsRead
  <2>1. PICK s : s = SeenRecords
    OBVIOUS
  <2>2. PICK t : t = SeenRecords'
    OBVIOUS
  <2>3. t = [s EXCEPT !.room = room] /\ s.room = SeenRoom
    BY <1>6, <1>7, <2>1, <2>2, OneOfThree DEF SeenRecords
  <2>4. t \in MoveRoom(s)
    <3>1. CASE \E c \in BOOLEAN : room = [SeenRoom EXCEPT !.critical = c]
      <4>1. \E c \in BOOLEAN : t = [s EXCEPT !.room.critical = c]
        BY <2>3, <3>1
      <4> QED
        BY <4>1, Zenon DEF MoveRoom
    <3>2. CASE room \in [life : {"draft"}, ahead : BOOLEAN, critical : BOOLEAN]
      BY <2>3, <3>2, Zenon DEF MoveRoom
    <3>3. CASE /\ SeenRoom.life # "closed"
               /\ room = [life |-> RoomStages[StageRank(RoomStages, SeenRoom.life) + 1],
                          ahead |-> FALSE, critical |-> SeenRoom.critical]
      <4>1. t = [s EXCEPT !.room = [life |-> RoomStages[StageRank(RoomStages, @.life) + 1],
                                    ahead |-> FALSE, critical |-> @.critical]]
        BY <2>3, <3>3
      <4>2. s.room.life # "closed"
        BY <2>3, <3>3
      <4> QED
        BY <4>1, <4>2, Zenon DEF MoveRoom
    <3> QED
      BY <1>7, <3>1, <3>2, <3>3
  <2> QED
    BY <2>1, <2>2, <2>4 DEF MovedAsRead, MoveRecord
<1>8. CASE \E w \in GoodWorkflows : w.life = "draft" /\ workflows' = Append(workflows, w)
  <2>1. PICK w \in GoodWorkflows : w.life = "draft" /\ us = Append(ws, w)
    BY <1>1, <1>3, <1>8
  <2>2. us \in Seq(GoodWorkflows) /\ us # <<>> /\ Len(us) = n + 1 /\ us[n + 1] = w
    BY <1>2, <1>4, <2>1, AppendProperties
  <2>3. SeenRoom' \in [life : {"draft"}, ahead : BOOLEAN, critical : BOOLEAN]
    <3>1. Newest' = w
      BY <1>3, <2>2 DEF Newest
    <3>2. OpenCritical' \in BOOLEAN
      BY DEF OpenCritical
    <3> QED
      BY <1>3, <2>1, <2>2, <3>1, <3>2 DEF SeenRoom
  <2>4. MovedAsRead
    BY <1>7, <2>3
  <2>5. StagesOf(us) = Append(StagesOf(ws), "draft")
    BY <1>4, <2>1, StagesGrow
  <2>6. MovedAsServed("room")
    BY <1>5, <2>5, ServedNew
  <2> QED
    BY <2>4, <2>6
<1>9. ASSUME NEW w \in GoodWorkflows, workflows # <<>>,
             workflows' = [workflows EXCEPT ![Len(workflows)] = w], Onward(Newest, w)
      PROVE  MovedAsRead /\ MovedAsServed("room")
  <2>1. /\ n \in DOMAIN ws /\ Len(StagesOf(ws)) = n /\ DOMAIN ws = 1..n
        /\ StageOfNewest(StagesOf(ws)) = ws[n].life
    BY <1>1, <1>2, <1>4, <1>9, NewestStageSeen, LenProperties
  <2>2. us = [ws EXCEPT ![n] = w] /\ us = Replaced(ws, n, w)
    BY <1>1, <1>2, <1>3, <1>9 DEF Replaced
  <2>3. us \in Seq(GoodWorkflows) /\ Len(us) = n /\ us[n] = w /\ us # <<>>
    BY <1>4, <2>1, <2>2, ExceptSeq, EmptySeq, LenProperties
  <2>4. PICK v : v = ws[n]
    OBVIOUS
  <2>5. v \in GoodWorkflows /\ Newest = v /\ Newest' = w
    BY <1>1, <1>2, <1>3, <1>4, <2>1, <2>3, <2>4, ElementOfSeq DEF Newest
  <2>6. v.life \in Keys /\ w.life \in Keys /\ GoodRoom(w.life, w.stages)
    BY <2>5 DEF GoodWorkflows, Workflow
  <2>7. PICK r : r = SeenRoom
    OBVIOUS
  <2>8. PICK q : q = SeenRoom'
    OBVIOUS
  <2>9. r = [life |-> v.life, ahead |-> v.life # "closed" /\ v.stages[v.life].status = "completed",
             critical |-> OpenCritical]
    BY <1>9, <2>5, <2>7 DEF SeenRoom
  <2>10. q = [life |-> w.life, ahead |-> w.life # "closed" /\ w.stages[w.life].status = "completed",
              critical |-> OpenCritical']
    BY <1>3, <2>3, <2>5, <2>8 DEF SeenRoom
  <2>11. CASE /\ w.life = v.life
              /\ w.life # "closed" =>
                   (w.stages[w.life].status = "completed" <=> v.stages[w.life].status = "completed")
    <3>1. PICK c \in BOOLEAN : c = OpenCritical'
      BY DEF OpenCritical
    <3>2. (w.life # "closed" /\ w.stages[w.life].status = "completed")
            = (v.life # "closed" /\ v.stages[v.life].status = "completed")
      BY <2>11
    <3>3. q = [r EXCEPT !.critical = c]
      BY <2>9, <2>10, <2>11, <3>1, <3>2
    <3>4. MovedAsRead
      BY <1>7, <2>7, <2>8, <3>3
    <3>5. StagesOf(Replaced(ws, n, w)) = StagesOf(ws)
      BY <1>4, <2>1, <2>4, <2>11, StagesStay
    <3> QED
      BY <1>5, <2>2, <3>4, <3>5 DEF MovedAsServed
  <2>12. CASE Place(w.life) = Place(v.life) + 1 /\ w.blockers = v.blockers
    <3>1. PICK from : from = v.life
      OBVIOUS
    <3>2. PICK to : to = w.life
      OBVIOUS
    <3>3. /\ from \notin {NoRecord, "closed"} /\ to \in Rungs("room") /\ to # "draft"
          /\ Following("room", from) = to
          /\ RoomStages[StageRank(RoomStages, from) + 1] = to
      BY <2>6, <2>12, <3>1, <3>2, NextRoomStage
    <3>4. ~(w.life # "closed" /\ w.stages[w.life].status = "completed")
      BY <2>6, <3>2, <3>3, Places DEF GoodRoom
    <3>5. OpenCritical' = OpenCritical
      BY <1>3, <1>9, <2>3, <2>5, <2>12 DEF OpenCritical
    <3>6. r.life = from /\ r.critical = OpenCritical
      BY <2>9, <3>1
    <3>7. q = [life |-> to, ahead |-> FALSE, critical |-> OpenCritical]
      <4>1. (w.life # "closed" /\ w.stages[w.life].status = "completed") = FALSE
        BY <3>4
      <4> QED
        BY <2>10, <3>2, <3>5, <4>1, Zenon
    <3>8. q = [life |-> RoomStages[StageRank(RoomStages, r.life) + 1],
               ahead |-> FALSE, critical |-> r.critical]
      BY <3>3, <3>6, <3>7, Zenon
    <3>9. MovedAsRead
      BY <1>7, <2>7, <2>8, <3>3, <3>6, <3>8
    <3>10. StagesOf(Replaced(ws, n, w)) = Replaced(StagesOf(ws), n, w.life)
      BY <1>4, <2>1, StagesReplaced
    <3>11. StagesOf(us) = [StagesOf(ws) EXCEPT ![Len(StagesOf(ws))] = to]
      BY <2>1, <2>2, <3>2, <3>10 DEF Replaced
    <3>12. to # "same"
      BY <2>6, <3>2, Places
    <3>13. MovedAsServed("room")
      BY <1>5, <2>1, <2>4, <3>1, <3>3, <3>11, <3>12, ServedNext
    <3> QED
      BY <3>9, <3>13
  <2> QED
    BY <1>9, <2>5, <2>11, <2>12 DEF Onward
<1> QED
  BY <1>1, <1>4, <1>8, <1>9, RoomSteps DEF RoomStep

\* However many requests there are, and whatever they carry: every transaction on the
\* three records is one that the acceptance reckons with while it reads, and does to
\* the stages what the workbench reckons the server does.
THEOREM RecordsMoveAsSeen == RecordsSpec => MovesAsSeen
<1>1. RecordsInit => IInv /\ OlderClosed
  BY DEF RecordsInit, ContractInit, LedgerInit, RoomInit, IInv, OlderClosed
<1>2. ASSUME IInv, OlderClosed, [RecordsNext]_recordVars
      PROVE  /\ OlderClosed'
             /\ recordVars' # recordVars =>
                  MovedAsRead /\ \A k \in DOMAIN SeenStages : MovedAsServed(k)
  <2>1. CASE UNCHANGED recordVars
    BY <1>2, <2>1 DEF recordVars, OlderClosed
  <2>2. CASE ContractNext /\ UNCHANGED <<ledgers, workflows>>
    <3>1. MovedAsServed("ledger") /\ MovedAsServed("room")
      BY <2>2, SeenTogether DEF MovedAsServed
    <3> QED
      BY <1>2, <2>2, <3>1, ContractSeen, SeenTogether
  <2>3. CASE LedgerNext /\ UNCHANGED <<contracts, workflows>>
    <3>1. MovedAsServed("contract") /\ MovedAsServed("room")
      BY <2>3, SeenTogether DEF MovedAsServed
    <3>2. OlderClosed'
      BY <1>2, <2>3 DEF OlderClosed
    <3> QED
      BY <1>2, <2>3, <3>1, <3>2, LedgerSeen, SeenTogether
  <2>4. CASE RoomNext /\ UNCHANGED <<contracts, ledgers>>
    <3>1. MovedAsServed("contract") /\ MovedAsServed("ledger")
      BY <2>4, SeenTogether DEF MovedAsServed
    <3>2. OlderClosed'
      BY <1>2, <2>4 DEF OlderClosed
    <3> QED
      BY <1>2, <2>4, <3>1, <3>2, RoomSeen, SeenTogether
  <2> QED
    BY <1>2, <2>1, <2>2, <2>3, <2>4 DEF RecordsNext
<1> QED
  BY <1>1, <1>2, InductiveInvariant, PTL DEF RecordsSpec, MovesAsSeen

=============================================================================
