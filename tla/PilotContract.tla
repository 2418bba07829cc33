----------------------------- MODULE PilotContract -----------------------------
(***************************************************************************)
(* The decision contract of a pilot (src/pilot-contract.js): what the      *)
(* pilot is to decide is drafted, approved, locked and then followed to    *)
(* its end.  One request carries a lifecycle target, a patch of the        *)
(* approval and new terms at once, and each of them is optional.           *)
(*                                                                         *)
(* A stage or a status comes as text.  The normalizers trim it before it   *)
(* is stored, but what the two ask for is compared as it came.             *)
(*                                                                         *)
(* Both handlers are one mutator inside transact.  Terms stand for the     *)
(* objective, the KPI and the guardrails, the fields a lock protects.      *)
(***************************************************************************)
EXTENDS Naturals, Sequences

CONSTANTS
  Terms,          \* what a contract may say
  Actors,         \* who may act on it
  NoActor,        \* approvedBy is null
  MaxContracts    \* bound: contracts of the organization

ASSUME ContractAssumption == MaxContracts \in Nat /\ NoActor \notin Actors

VARIABLE contracts   \* db.pilotContracts of the organization

LIFECYCLE == <<"draft", "approved", "locked", "experiment_running",
               "outcome_review", "closed">>

Stages == {LIFECYCLE[i] : i \in DOMAIN LIFECYCLE}

\* Mutant: any later stage may follow.
Overtakes(from, to) ==
  \E i, j \in DOMAIN LIFECYCLE : i < j /\ from = LIFECYCLE[i] /\ to = LIFECYCLE[j]

\* ALLOWED_TRANSITIONS: one stage at a time.
Follows(from, to) ==
  \E i \in 1..(Len(LIFECYCLE) - 1) : from = LIFECYCLE[i] /\ to = LIFECYCLE[i + 1]

ApprovalStatuses == {"draft", "approved", "locked"}

Locked == {"locked", "experiment_running", "outcome_review", "closed"}

\* "trail" holds the lifecycle transitions of auditEvents, "history" those of
\* approval.approvalHistory, as pairs of from and to.
Contract == [life : Stages, terms : Terms, status : ApprovalStatuses,
             approvedBy : Actors \cup {NoActor},
             trail : Seq(Stages \X Stages),
             history : Seq(ApprovalStatuses \X ApprovalStatuses)]

ContractTypeOK == contracts \in Seq(Contract)

ContractInit == contracts = <<>>

-----------------------------------------------------------------------------
\* Mutant: only a draft is active.
NoDraftContract == \A i \in DOMAIN contracts : contracts[i].life # "draft"

\* findActiveContract finds nothing.
NoActiveContract == \A i \in DOMAIN contracts : contracts[i].life = "closed"

\* createPilotContract: status, approver and histories of the body are dropped.
CreateContract(terms) ==
  /\ Len(contracts) < MaxContracts
  /\ NoActiveContract
  /\ contracts' = Append(contracts,
       [life |-> "draft", terms |-> terms, status |-> "draft",
        approvedBy |-> NoActor, trail |-> <<>>, history |-> <<>>])

\* What a request says for one of values: nothing, or the value, alone or padded.
Unsaid == [says |-> "none", padded |-> FALSE]

Worded(values) == {Unsaid} \cup [says : values, padded : BOOLEAN]

\* resolveLifecycleTarget compares the texts: approval.status counts when it is
\* exactly one of the two.
Counts(status) == ~status.padded /\ status.says \in {"approved", "locked"}

\* CONTRACT_STATE_MISMATCH
Agrees(direct, status) == direct # Unsaid /\ Counts(status) => direct = status

TargetOf(c, direct, status) ==
  IF direct # Unsaid THEN direct.says
  ELSE IF Counts(status) THEN status.says ELSE c.life

\* assertLockedFieldsUnchanged
Protected(c, terms) == c.life \in Locked => terms = c.terms

\* normalizeApproval: the patch of the request over the stored approval, trimmed, and
\* nothing else is asked of it.  "none" says nothing of the approver, an empty name
\* takes the stored one away.
Patched(c, status, approver) ==
  [c EXCEPT !.status = IF status = Unsaid THEN @ ELSE status.says,
            !.approvedBy = IF approver = "none" THEN @ ELSE approver]

\* applyLifecycleTransition; from the patched record, before which "from" was
\* read.
Transition(c, from, to, actor) ==
  LET moved == [c EXCEPT !.life = to, !.trail = Append(@, <<from, to>>)] IN
  CASE to = "approved" ->
         [moved EXCEPT !.status = "approved", !.approvedBy = actor,
                       !.history = Append(@, <<"draft", "approved">>)]
    [] to = "locked" ->
         [moved EXCEPT !.status = "locked",
                       !.history = Append(@, <<"approved", "locked">>)]
    [] OTHER -> moved

\* updatePilotContract
UpdateContract(direct, status, approver, terms, actor) ==
  \E i \in DOMAIN contracts :
    LET c == contracts[i]
        target == TargetOf(c, direct, status)
        next == [Patched(c, status, approver) EXCEPT !.terms = terms]
    IN
    /\ c.life # "closed"
    /\ Agrees(direct, status)
    /\ target = c.life \/ Follows(c.life, target)
    /\ Protected(c, terms)
    /\ contracts' = [contracts EXCEPT ![i] =
         IF target = c.life THEN next ELSE Transition(next, c.life, target, actor)]

ContractNext ==
  \/ \E terms \in Terms : CreateContract(terms)
  \/ \E direct \in Worded(Stages), status \in Worded(ApprovalStatuses),
        approver \in Actors \cup {NoActor, "none"}, terms \in Terms, actor \in Actors :
       UpdateContract(direct, status, approver, terms, actor)

-----------------------------------------------------------------------------
(* Properties                                                              *)

\* What appendAuditEvent, or appendApprovalHistory, leaves of the first n transitions.
Climbed(n) == [k \in 1..n |-> <<LIFECYCLE[k], LIFECYCLE[k + 1]>>]

\* The stage a contract is in, the one an acceptance goes by, was reached stage by
\* stage, and its approval and its lock are in the approval history exactly when
\* they were passed, whatever mix of target and approval patch requests send.
\* (approval.status itself may run ahead: a padded one is stored without its stage.)
ApprovalOnRecord ==
  \A i \in DOMAIN contracts :
    LET c == contracts[i]
        n == Len(c.trail)
    IN  /\ n < Len(LIFECYCLE) /\ c.life = LIFECYCLE[n + 1]
        /\ c.trail = Climbed(n)
        /\ c.history = Climbed(IF n < 2 THEN n ELSE 2)

=============================================================================
