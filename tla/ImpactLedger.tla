------------------------------ MODULE ImpactLedger ------------------------------
(***************************************************************************)
(* The business impact ledger (src/business-impact-ledger.js): figures are *)
(* drafted, submitted, and verified or rejected by finance.  Only the      *)
(* newest ledger of the organization is acted on; a new draft may be       *)
(* opened at any time and takes its place.                                 *)
(*                                                                         *)
(* A ledger's draft fields (objective, model, forecast) and its results    *)
(* (realized impact, return) are each reduced to a value of Figures.       *)
(***************************************************************************)
EXTENDS Naturals, Sequences

CONSTANTS
  Figures,      \* what a group of fields may say
  MaxLedgers    \* bound: ledgers of the organization

ASSUME LedgerAssumption == MaxLedgers \in Nat

VARIABLE ledgers   \* db.businessImpactLedgers of the organization

\* "evidence", "verifier" and "dated" say whether realizedImpact.evidenceSource,
\* financeValidation.verifiedBy and verifiedAt are there.
Ledger == [life : {"draft", "submitted", "verified", "rejected"},
           finance : {"not_verified", "submitted", "verified", "rejected"},
           drafted : Figures, results : Figures,
           evidence : BOOLEAN, verifier : BOOLEAN, dated : BOOLEAN]

LedgerTypeOK == ledgers \in Seq(Ledger)

LedgerInit == ledgers = <<>>

\* findLatestLedger
LatestLedger == ledgers[Len(ledgers)]

\* ALLOWED_TRANSITIONS
Successors(life) ==
  CASE life = "draft" -> {"submitted"}
    [] life = "submitted" -> {"verified", "rejected"}
    [] OTHER -> {}

\* createBusinessImpactLedger: the validation of the body is reset.
CreateLedger(drafted, results, evidence) ==
  /\ Len(ledgers) < MaxLedgers
  /\ ledgers' = Append(ledgers,
       [life |-> "draft", finance |-> "not_verified", drafted |-> drafted,
        results |-> results, evidence |-> evidence, verifier |-> FALSE, dated |-> FALSE])

\* What a request says of a field: nothing, something, or nothing any more (an empty
\* text, or null for the name and the date).
Words == {"nothing", "something", "empty"}

\* normalizeRealizedImpact, normalizeFinanceValidation: is the field there now?
There(stored, said) == said = "something" \/ (stored /\ said = "nothing")

ReplaceLatest(l) == ledgers' = [ledgers EXCEPT ![Len(ledgers)] = l]

\* BUSINESS_IMPACT_LOCKED
Editable(l) == l.life = "draft"

\* updateDraftFields: a request that names no transition.
UpdateDraft(drafted, results, evidence) ==
  /\ ledgers # <<>>
  /\ Editable(LatestLedger)
  /\ ReplaceLatest([LatestLedger EXCEPT !.drafted = drafted, !.results = results,
                                        !.evidence = There(@, evidence)])

\* mergeFinanceValidation: the status follows the target, not the body.
FinanceStatus(l, target) == target

\* validateFinanceVerification
Backed(l) == l.life = "verified" => l.evidence /\ l.verifier /\ l.dated

\* updateBusinessImpactLifecycle: results may come with any transition, draft
\* fields only with the submission, and the name and date of the verifier with
\* any of them.
TransitionLedger(target, drafted, results, evidence, verifier, dated) ==
  LET l == LatestLedger
      next == [life |-> target, finance |-> FinanceStatus(l, target),
               drafted |-> IF l.life = "draft" THEN drafted ELSE l.drafted,
               results |-> results,
               evidence |-> There(l.evidence, evidence),
               verifier |-> There(l.verifier, verifier),
               dated |-> There(l.dated, dated)]
  IN
  /\ ledgers # <<>>
  /\ target \in Successors(l.life)
  /\ Backed(next)
  /\ ReplaceLatest(next)

LedgerNext ==
  \E drafted, results \in Figures, evidence \in Words :
    \/ CreateLedger(drafted, results, There(FALSE, evidence))
    \/ UpdateDraft(drafted, results, evidence)
    \/ \E target \in {"submitted", "verified", "rejected"}, verifier, dated \in Words :
         TransitionLedger(target, drafted, results, evidence, verifier, dated)

-----------------------------------------------------------------------------
(* Properties                                                              *)

\* What finance signed is backed and says so in both of its statuses, whichever
\* earlier request brought evidence, name and date.
VerifiedIsBacked ==
  \A i \in DOMAIN ledgers :
    LET l == ledgers[i] IN
    /\ l.finance = "verified" => l.evidence /\ l.verifier /\ l.dated
    /\ l.finance = (IF l.life = "draft" THEN "not_verified" ELSE l.life)

=============================================================================
