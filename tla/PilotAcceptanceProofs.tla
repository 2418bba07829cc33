------------------------- MODULE PilotAcceptanceProofs -------------------------
(***************************************************************************)
(* Proofs about PilotAcceptance, for any set of criteria, any number of    *)
(* requests and records, and whatever a create request may claim.          *)
(*                                                                         *)
(* The gates are judged on the record inside the transaction, so the       *)
(* invariant is about one record (Good): every action that starts from a   *)
(* good record writes a good one.                                          *)
(***************************************************************************)
EXTENDS PilotAcceptance, SequenceTheorems, TLAPS

\* A signature of the record is the trail's from customer_review on: what the
\* client claimed is overwritten when the signature is requested.
Gates(a) ==
  /\ a.life \in {"customer_review", "executive_review", "accepted"} => Ready(a)
  /\ a.life \in {"customer_review", "executive_review", "accepted"} /\ a.customer = "accepted" =>
       "customer accepted" \in a.trail
  /\ a.life \in {"executive_review", "accepted"} => a.customer = "accepted"
  /\ a.life \in {"executive_review", "accepted"} /\ a.executive = "approved" =>
       a.package = TRUE /\ "executive approved" \in a.trail
  /\ a.life = "accepted" => a.executive = "approved" /\ a.certification = "certified"

\* The record agrees with its trail.
Backed(a) ==
  /\ \A k \in Criteria : a.criteria[k].checked = TRUE => a.criteria[k].evidence = TRUE
  /\ "certified" \in a.trail <=> a.life = "accepted"
  /\ "rejected" \in a.trail <=> a.life = "rejected"
  /\ a.life = "rejected" => a.certification = "blocked"
  /\ "certification blocked" \notin a.trail

Good(a) == Gates(a) /\ Backed(a)

IInv == TypeOK /\ \A i \in DOMAIN records : Good(records[i])

-----------------------------------------------------------------------------
(* What each action makes of the record.                                   *)

\* One criterion is rewritten; if the trail says it was verified it has its evidence.
LEMMA CriterionChanged ==
  ASSUME NEW a \in Acceptance, Good(a), a.life \in {"draft", "evidence_review"},
         NEW k \in Criteria, NEW c \in Criterion,
         c.checked = TRUE => c.evidence = TRUE,
         NEW life \in {"draft", "evidence_review"}
  PROVE  LET b == [a EXCEPT !.life = life, !.criteria = [a.criteria EXCEPT ![k] = c]]
         IN  b \in Acceptance /\ Good(b)
<1> DEFINE f == [a.criteria EXCEPT ![k] = c]
           b == [a EXCEPT !.life = life, !.criteria = f]
<1>1. f \in [Criteria -> Criterion]
  BY DEF Acceptance
<1>2. \A l \in Criteria : f[l].checked = TRUE => f[l].evidence = TRUE
  BY DEF Acceptance, Good, Backed
<1> HIDE DEF f
<1>3. b \in Acceptance
  BY <1>1 DEF Acceptance
<1>4. /\ b.life = life /\ b.criteria = f
      /\ b.customer = a.customer /\ b.executive = a.executive
      /\ b.package = a.package /\ b.certification = a.certification /\ b.trail = a.trail
  BY DEF Acceptance
<1> HIDE DEF b
<1>5. Gates(b)
  BY <1>4 DEF Gates
<1>6. Backed(b)
  BY <1>2, <1>4 DEF Good, Backed
<1> QED
  BY <1>3, <1>5, <1>6 DEF b, f, Good

\* How an action that is not about a criterion changes a record: it asks the
\* customer, records the acceptance, asks the executive, records the approval,
\* certifies, rejects, or generates a package.
Advances(a, b) ==
  \/ /\ a.life = "evidence_review" /\ Ready(a) /\ b.life = "customer_review"
     /\ b.customer = "requested" /\ b.trail = a.trail
  \/ /\ a.life = "customer_review" /\ b.life = a.life /\ b.customer = "accepted"
     /\ b.trail = a.trail \cup {"customer accepted"}
  \/ /\ a.life = "customer_review" /\ a.customer = "accepted" /\ b.customer = a.customer
     /\ b.life = "executive_review" /\ b.executive = "requested" /\ b.trail = a.trail
  \/ /\ a.life = "executive_review" /\ b.life = a.life /\ b.customer = a.customer
     /\ b.package = TRUE /\ b.trail = a.trail \cup {"executive approved"}
  \/ /\ a.life = "executive_review" /\ b.life = "accepted" /\ Ready(a)
     /\ b.customer = a.customer /\ a.executive = "approved" /\ b.executive = a.executive
     /\ b.package = a.package /\ b.certification = "certified"
     /\ b.trail = a.trail \cup {"certified"}
  \/ /\ a.life \notin Terminal /\ b.life = "rejected" /\ b.certification = "blocked"
     /\ b.trail = a.trail \cup {"rejected"}
  \/ /\ b.life = a.life /\ b.customer = a.customer /\ b.executive = a.executive
     /\ b.package = TRUE /\ b.certification = a.certification /\ b.trail = a.trail

\* None of them spoils a good record.
LEMMA Signed ==
  ASSUME NEW a \in Acceptance, Good(a), NEW b \in Acceptance,
         b.criteria = a.criteria, Advances(a, b)
  PROVE  Good(b)
<1>1. Ready(b) <=> Ready(a)
  BY DEF Ready
<1>2. Gates(b)
  BY <1>1 DEF Good, Gates, Advances, Terminal
<1>3. Backed(b)
  <2>1. \A k \in Criteria : b.criteria[k].checked = TRUE => b.criteria[k].evidence = TRUE
    BY DEF Good, Backed
  <2>2. "certified" \in b.trail <=> b.life = "accepted"
    BY DEF Good, Backed, Advances, Terminal
  <2>3. "rejected" \in b.trail <=> b.life = "rejected"
    BY DEF Good, Backed, Advances, Terminal
  <2>4. b.life = "rejected" => b.certification = "blocked"
    BY DEF Good, Backed, Advances, Terminal
  <2>5. "certification blocked" \notin b.trail
    <3>1. "certification blocked" \notin a.trail
      BY DEF Good, Backed
    <3>2. b.trail \subseteq a.trail \cup
            {"customer accepted", "executive approved", "certified", "rejected"}
      BY DEF Advances
    <3> QED
      BY <3>1, <3>2
  <2> QED
    BY <2>1, <2>2, <2>3, <2>4, <2>5 DEF Backed
<1> QED
  BY <1>2, <1>3 DEF Good

-----------------------------------------------------------------------------

\* The latest record, as a dispatched action finds it.
LEMMA LatestGood ==
  ASSUME IInv, touched # NoRecord
  PROVE  touched \in DOMAIN records /\ Latest \in Acceptance /\ Good(Latest)
BY LenProperties, ElementOfSeq DEF IInv, TypeOK, NoRecord, Latest

\* The requests stay well formed.
LEMMA ReqType ==
  ASSUME TypeOK, NEW r \in Requests, Ends(r)
  PROVE  req' \in [Requests -> [pc : {"idle", "gathered"}, critical : BOOLEAN]]
BY DEF TypeOK, Ends, Idle

\* Writing a good record over the latest one keeps the invariant.
LEMMA WriteKeeps ==
  ASSUME IInv, NEW r \in Requests, touched # NoRecord,
         NEW b \in Acceptance, Good(b), Write(r, b)
  PROVE  IInv'
<1>1. touched \in DOMAIN records /\ records \in Seq(Acceptance)
  BY LatestGood DEF IInv, TypeOK
<1>2. /\ records' \in Seq(Acceptance)
      /\ DOMAIN records' = DOMAIN records /\ Len(records') = Len(records)
      /\ \A i \in DOMAIN records : records'[i] = IF i = touched THEN b ELSE records[i]
  BY <1>1, LenProperties, ExceptSeq DEF Write
<1>3. TypeOK'
  BY <1>2, ReqType DEF Write, IInv, TypeOK
<1>4. \A i \in DOMAIN records' : Good(records'[i])
  BY <1>2 DEF IInv
<1> QED
  BY <1>3, <1>4 DEF IInv, Good, Gates, Backed, Ready

\* A created record is a good one.
LEMMA CreateKeeps ==
  ASSUME IInv, NEW r \in Requests, NEW criteria \in [Criteria -> CreatedCriteria],
         NEW claim \in Claims, Create(r, criteria, claim)
  PROVE  IInv'
<1> DEFINE b == [life |-> "draft", criteria |-> criteria,
                 customer |-> claim.customer, executive |-> claim.executive,
                 package |-> claim.package, certification |-> claim.certification,
                 trail |-> {}]
<1>1. /\ criteria \in [Criteria -> Criterion]
      /\ \A k \in Criteria : criteria[k].checked # TRUE
      /\ claim \in Claim
  BY AcceptanceAssumption
<1>2. b \in Acceptance /\ Good(b)
  <2>1. b \in Acceptance
    BY <1>1 DEF Acceptance, Claim
  <2>2. b.life = "draft" /\ b.criteria = criteria /\ b.trail = {}
    OBVIOUS
  <2> HIDE DEF b
  <2> QED
    BY <1>1, <2>1, <2>2 DEF Good, Gates, Backed
<1>3. records' = Append(records, b)
  BY DEF Create
<1> HIDE DEF b
<1>4. /\ records' \in Seq(Acceptance) /\ Len(records') = Len(records) + 1
      /\ Len(records) \in Nat
      /\ \A i \in DOMAIN records' : \/ records'[i] = b
                                  \/ (i \in DOMAIN records /\ records'[i] = records[i])
  BY <1>2, <1>3, AppendProperties, LenProperties DEF IInv, TypeOK
<1>5. TypeOK'
  BY <1>4, ReqType DEF Create, IInv, TypeOK
<1>6. \A i \in DOMAIN records' : Good(records'[i])
  BY <1>2, <1>4 DEF IInv
<1> QED
  BY <1>5, <1>6 DEF IInv, Good, Gates, Backed, Ready

\* submit_evidence, verify_criterion, waive_criterion.
LEMMA CriteriaKeep ==
  ASSUME IInv, NEW r \in Requests, NEW k \in Criteria,
         \/ SubmitEvidence(r, k)
         \/ VerifyCriterion(r, k)
         \/ WaiveCriterion(r, k)
  PROVE  IInv'
<1> DEFINE a == Latest
           c == a.criteria[k]
           After(life, d) == [a EXCEPT !.life = life, !.criteria = [a.criteria EXCEPT ![k] = d]]
<1>1. touched # NoRecord /\ a \in Acceptance /\ Good(a)
  BY LatestGood DEF SubmitEvidence, VerifyCriterion, WaiveCriterion, Dispatched
<1>2. c \in Criterion /\ (c.checked = TRUE => c.evidence = TRUE)
  BY <1>1 DEF Acceptance, Good, Backed
<1>3. ASSUME NEW life \in {"draft", "evidence_review"}, NEW d \in Criterion,
             d.checked = TRUE => d.evidence = TRUE,
             a.life \in {"draft", "evidence_review"},
             Write(r, After(life, d))
      PROVE  IInv'
  <2>1. After(life, d) \in Acceptance /\ Good(After(life, d))
    BY <1>1, <1>3, CriterionChanged
  <2> QED
    BY <1>1, <1>3, <2>1, WriteKeeps
<1>4. CASE SubmitEvidence(r, k)
  <2> DEFINE d == [c EXCEPT !.status = IF c.status = "missing" THEN "submitted" ELSE c.status,
                            !.evidence = TRUE]
  <2>1. d \in Criterion /\ d.evidence = TRUE
    BY <1>2 DEF Criterion
  <2>2. a.life \in {"draft", "evidence_review"}
    BY <1>4 DEF SubmitEvidence, TakesEvidence
  <2>3. [a EXCEPT !.life = "evidence_review",
                  !.criteria[k].status = IF @ = "missing" THEN "submitted" ELSE @,
                  !.criteria[k].evidence = TRUE] = After("evidence_review", d)
    BY <1>1, <1>2 DEF Acceptance, Criterion
  <2> QED
    BY <1>3, <1>4, <2>1, <2>2, <2>3 DEF SubmitEvidence
<1>5. CASE VerifyCriterion(r, k)
  <2> DEFINE d == [c EXCEPT !.status = "verified", !.checked = TRUE]
  <2>1. d \in Criterion /\ d.evidence = TRUE
    BY <1>2, <1>5 DEF Criterion, VerifyCriterion, Evidenced
  <2>2. a.life = "evidence_review"
    BY <1>5 DEF VerifyCriterion
  <2>3. [a EXCEPT !.criteria[k].status = "verified", !.criteria[k].checked = TRUE] = After("evidence_review", d)
    BY <1>1, <1>2, <2>2 DEF Acceptance, Criterion
  <2> QED
    BY <1>3, <1>5, <2>1, <2>2, <2>3 DEF VerifyCriterion
<1>6. CASE WaiveCriterion(r, k)
  <2> DEFINE d == [c EXCEPT !.status = "waived"]
  <2>1. d \in Criterion /\ (d.checked = TRUE => d.evidence = TRUE)
    BY <1>2 DEF Criterion
  <2>2. a.life = "evidence_review"
    BY <1>6 DEF WaiveCriterion
  <2>3. [a EXCEPT !.criteria[k].status = "waived"] = After("evidence_review", d)
    BY <1>1, <2>2 DEF Acceptance
  <2> QED
    BY <1>3, <1>6, <2>1, <2>2, <2>3 DEF WaiveCriterion
<1> QED
  BY <1>4, <1>5, <1>6

\* The actions that move the record from stage to stage.
LEMMA StagesKeep ==
  ASSUME IInv, NEW r \in Requests,
         \/ RequestCustomer(r)
         \/ \E accepts \in BOOLEAN : RecordCustomer(r, accepts)
         \/ RequestExecutive(r)
         \/ \E approves \in BOOLEAN : RecordExecutive(r, approves)
         \/ GeneratePackage(r)
         \/ Certify(r)
         \/ CertifyBlocked(r)
         \/ Reject(r)
  PROVE  IInv'
<1> DEFINE a == Latest
<1>1. touched # NoRecord /\ a \in Acceptance /\ Good(a)
  BY LatestGood DEF RequestCustomer, RecordCustomer, RequestExecutive, RecordExecutive,
                    GeneratePackage, Certify, CertifyBlocked, Reject, Dispatched
<1>2. ASSUME NEW b, Write(r, b), b \in Acceptance, b.criteria = a.criteria, Advances(a, b)
      PROVE  IInv'
  <2>1. Good(b)
    BY <1>1, <1>2, Signed
  <2> QED
    BY <1>1, <1>2, <2>1, WriteKeeps
<1>3. CASE RequestCustomer(r)
  <2> DEFINE b == [a EXCEPT !.life = "customer_review", !.customer = "requested"]
  <2>1. Write(r, b) /\ a.life = "evidence_review" /\ Ready(a)
    BY <1>3 DEF RequestCustomer
  <2>2. b \in Acceptance /\ b.criteria = a.criteria
    BY <1>1 DEF Acceptance
  <2>3. Advances(a, b)
    BY <1>1, <2>1 DEF Advances, Acceptance
  <2> HIDE DEF a, b
  <2> QED
    BY <1>2, <2>1, <2>2, <2>3
<1>4. ASSUME NEW accepts \in BOOLEAN, RecordCustomer(r, accepts) PROVE IInv'
  <2> DEFINE b == IF accepts
                    THEN [a EXCEPT !.customer = "accepted", !.trail = @ \cup {"customer accepted"}]
                    ELSE [Rejected(a) EXCEPT !.customer = "rejected"]
  <2>1. Write(r, b) /\ a.life = "customer_review"
    BY <1>4 DEF RecordCustomer
  <2>2. b \in Acceptance /\ b.criteria = a.criteria
    BY <1>1 DEF Acceptance, Event, Rejected, Terminal
  <2>3. Advances(a, b)
    BY <1>1, <2>1 DEF Advances, Acceptance, Rejected, Terminal
  <2> HIDE DEF a, b
  <2> QED
    BY <1>2, <2>1, <2>2, <2>3
<1>5. CASE RequestExecutive(r)
  <2> DEFINE b == [a EXCEPT !.life = "executive_review", !.executive = "requested"]
  <2>1. Write(r, b) /\ a.life = "customer_review" /\ a.customer = "accepted"
    BY <1>5 DEF RequestExecutive
  <2>2. b \in Acceptance /\ b.criteria = a.criteria
    BY <1>1 DEF Acceptance
  <2>3. Advances(a, b)
    BY <1>1, <2>1 DEF Advances, Acceptance
  <2> HIDE DEF a, b
  <2> QED
    BY <1>2, <2>1, <2>2, <2>3
<1>6. ASSUME NEW approves \in BOOLEAN, RecordExecutive(r, approves) PROVE IInv'
  <2> DEFINE b == IF approves
                    THEN [a EXCEPT !.executive = "approved", !.trail = @ \cup {"executive approved"}]
                    ELSE [Rejected(a) EXCEPT !.executive = "rejected"]
  <2>1. Write(r, b) /\ a.life = "executive_review" /\ (approves => a.package = TRUE)
    BY <1>1, <1>6 DEF RecordExecutive, Acceptance
  <2>2. b \in Acceptance /\ b.criteria = a.criteria
    BY <1>1 DEF Acceptance, Event, Rejected, Terminal
  <2>3. Advances(a, b)
    BY <1>1, <2>1 DEF Advances, Acceptance, Rejected, Terminal
  <2> HIDE DEF a, b
  <2> QED
    BY <1>2, <2>1, <2>2, <2>3
<1>7. CASE GeneratePackage(r)
  <2> DEFINE b == [a EXCEPT !.package = TRUE]
  <2>1. Write(r, b)
    BY <1>7 DEF GeneratePackage
  <2>2. b \in Acceptance /\ b.criteria = a.criteria
    BY <1>1 DEF Acceptance
  <2>3. Advances(a, b)
    BY <1>1 DEF Advances, Acceptance
  <2> HIDE DEF a, b
  <2> QED
    BY <1>2, <2>1, <2>2, <2>3
<1>8. CASE Certify(r)
  <2> DEFINE b == [a EXCEPT !.life = "accepted", !.certification = "certified",
                            !.trail = @ \cup {"certified"}]
  <2>1. /\ Write(r, b) /\ a.life = "executive_review"
        /\ Ready(a) /\ a.executive = "approved"
    BY <1>8 DEF Certify, Certifiable
  <2>2. b \in Acceptance /\ b.criteria = a.criteria
    BY <1>1 DEF Acceptance, Event, Terminal
  <2>3. Advances(a, b)
    BY <1>1, <2>1 DEF Advances, Acceptance
  <2> HIDE DEF a, b
  <2> QED
    BY <1>2, <2>1, <2>2, <2>3
<1>9. CASE CertifyBlocked(r)
  BY <1>1, <1>9, WriteKeeps DEF CertifyBlocked, RolledBack
<1>10. CASE Reject(r)
  <2> DEFINE b == Rejected(a)
  <2>1. Write(r, b) /\ a.life \notin Terminal
    BY <1>10 DEF Reject, Rejectable
  <2>2. b \in Acceptance /\ b.criteria = a.criteria
    BY <1>1 DEF Acceptance, Event, Rejected, Terminal
  <2>3. Advances(a, b)
    BY <1>1, <2>1 DEF Advances, Acceptance, Rejected
  <2> HIDE DEF a, b
  <2> QED
    BY <1>2, <2>1, <2>2, <2>3
<1> QED
  BY <1>3, <1>4, <1>5, <1>6, <1>7, <1>8, <1>9, <1>10

\* The actions that leave the records alone.
LEMMA OthersKeep ==
  ASSUME IInv,
         \/ UNCHANGED vars
         \/ \E r \in Requests : \/ \E open \in BOOLEAN : SetBlockers(r, open)
                                \/ Gather(r)
                                \/ Refused(r)
  PROVE  IInv'
<1>1. records' = records /\ touched' = touched
  BY DEF vars, SetBlockers, Gather, Refused
<1>2. critical' \in BOOLEAN
  BY DEF IInv, TypeOK, vars, SetBlockers, Gather, Refused
<1>3. req' \in [Requests -> [pc : {"idle", "gathered"}, critical : BOOLEAN]]
  BY ReqType DEF IInv, TypeOK, vars, SetBlockers, Gather, Refused
<1> QED
  BY <1>1, <1>2, <1>3 DEF IInv, TypeOK, Good, Gates, Backed, Ready

\* Every step of every request keeps the invariant.
LEMMA IInvStep ==
  ASSUME IInv, [Next]_vars
  PROVE  IInv'
BY CreateKeeps, CriteriaKeep, StagesKeep, OthersKeep DEF Next

\* In every reachable state every acceptance record is good.
THEOREM InductiveInvariant == Spec => []IInv
<1>1. Init => IInv
  <2>1. <<>> \in Seq(Acceptance) /\ Len(<<>>) = 0 /\ DOMAIN <<>> = {}
    BY EmptySeq
  <2>2. Init => TypeOK
    <3> SUFFICES ASSUME Init PROVE TypeOK
      OBVIOUS
    <3>1. records \in Seq(Acceptance) /\ touched \in 0..Len(records)
      <4>1. 0 \in 0..0
        OBVIOUS
      <4> QED
        BY <2>1, <4>1 DEF Init, NoRecord
    <3>2. critical \in BOOLEAN
      BY DEF Init
    <3>3. req \in [Requests -> [pc : {"idle", "gathered"}, critical : BOOLEAN]]
      BY DEF Init, Idle
    <3> QED
      BY <3>1, <3>2, <3>3 DEF TypeOK
  <2> QED
    BY <2>1, <2>2 DEF Init, IInv
<1> QED
  BY <1>1, IInvStep, PTL DEF Spec

\* Records, requests and the control room's flag stay well formed.
THEOREM TypeCorrect == Spec => []TypeOK
BY InductiveInvariant, PTL DEF IInv

\* No order of client actions, no number of concurrent requests and no claim made
\* at creation accepts a pilot whose required criteria are not settled, or one the
\* customer and the executive did not sign, or lets one of them sign before its turn.
THEOREM GatesCorrect == Spec => []GatesHold
<1>1. IInv => GatesHold
  BY DEF IInv, Good, Gates, GatesHold
<1> QED
  BY <1>1, InductiveInvariant, PTL

\* The trail and the record agree: what was verified has evidence, what is accepted
\* was certified, what is rejected was rejected, and the mark of a refused
\* certification is rolled back with its transaction.
THEOREM StatusesCorrect == Spec => []StatusesBacked
<1>1. IInv => StatusesBacked
  BY DEF IInv, Good, Backed, StatusesBacked
<1> QED
  BY <1>1, InductiveInvariant, PTL

-----------------------------------------------------------------------------
(* What a step may do to the records it does not create.                   *)

Signing == {"customer_review", "executive_review"} \cup Terminal

\* An action that writes the latest record leaves its criteria alone once the
\* customer was asked, and everything but its package once it is closed.
LEMMA LatestStep ==
  ASSUME IInv, NEW r \in Requests,
         \/ \E k \in Criteria : SubmitEvidence(r, k) \/ VerifyCriterion(r, k) \/ WaiveCriterion(r, k)
         \/ RequestCustomer(r)
         \/ \E accepts \in BOOLEAN : RecordCustomer(r, accepts)
         \/ RequestExecutive(r)
         \/ \E approves \in BOOLEAN : RecordExecutive(r, approves)
         \/ GeneratePackage(r)
         \/ Certify(r)
         \/ CertifyBlocked(r)
         \/ Reject(r)
  PROVE  /\ touched \in DOMAIN records /\ touched' = touched
         /\ \E b : /\ records' = [records EXCEPT ![touched] = b]
                   /\ Latest.life \in Signing => b.criteria = Latest.criteria
                   /\ Latest.life \in Terminal => b = [Latest EXCEPT !.package = b.package]
<1> DEFINE a == Latest
           Goal == /\ touched \in DOMAIN records /\ touched' = touched
                   /\ \E b : /\ records' = [records EXCEPT ![touched] = b]
                             /\ a.life \in Signing => b.criteria = a.criteria
                             /\ a.life \in Terminal => b = [a EXCEPT !.package = b.package]
<1>1. touched \in DOMAIN records /\ a \in Acceptance
  BY LatestGood DEF SubmitEvidence, VerifyCriterion, WaiveCriterion, RequestCustomer, RecordCustomer,
                    RequestExecutive, RecordExecutive, GeneratePackage, Certify, CertifyBlocked,
                    Reject, Dispatched
<1>2. ASSUME NEW b, Write(r, b), a.life \notin Signing PROVE Goal
  BY <1>1, <1>2 DEF Write, Signing
<1>3. ASSUME NEW b, Write(r, b), b.criteria = a.criteria, a.life \notin Terminal PROVE Goal
  BY <1>1, <1>3 DEF Write
<1> SUFFICES Goal
  OBVIOUS
<1> HIDE DEF Goal
<1>4. CASE \E k \in Criteria : SubmitEvidence(r, k) \/ VerifyCriterion(r, k) \/ WaiveCriterion(r, k)
  <2>1. PICK b : Write(r, b)
    BY <1>4 DEF SubmitEvidence, VerifyCriterion, WaiveCriterion
  <2>2. a.life \notin Signing
    BY <1>4 DEF SubmitEvidence, TakesEvidence, VerifyCriterion, WaiveCriterion, Signing, Terminal
  <2> HIDE DEF a
  <2> QED
    BY <1>2, <2>1, <2>2
<1>5. CASE RequestCustomer(r)
  <2>1. PICK b : Write(r, b)
    BY <1>5 DEF RequestCustomer
  <2>2. a.life \notin Signing
    BY <1>5 DEF RequestCustomer, Signing, Terminal
  <2> HIDE DEF a
  <2> QED
    BY <1>2, <2>1, <2>2
<1>6. ASSUME NEW accepts \in BOOLEAN, RecordCustomer(r, accepts) PROVE Goal
  <2> DEFINE b == IF accepts
                    THEN [a EXCEPT !.customer = "accepted", !.trail = @ \cup {"customer accepted"}]
                    ELSE [Rejected(a) EXCEPT !.customer = "rejected"]
  <2>1. Write(r, b) /\ a.life \notin Terminal
    BY <1>6 DEF RecordCustomer, Terminal
  <2>2. b.criteria = a.criteria
    BY <1>1 DEF Acceptance, Rejected
  <2> HIDE DEF a, b
  <2> QED
    BY <1>3, <2>1, <2>2
<1>7. CASE RequestExecutive(r)
  <2> DEFINE b == [a EXCEPT !.life = "executive_review", !.executive = "requested"]
  <2>1. Write(r, b) /\ a.life \notin Terminal
    BY <1>7 DEF RequestExecutive, Terminal
  <2>2. b.criteria = a.criteria
    BY <1>1 DEF Acceptance, Rejected
  <2> HIDE DEF a, b
  <2> QED
    BY <1>3, <2>1, <2>2
<1>8. ASSUME NEW approves \in BOOLEAN, RecordExecutive(r, approves) PROVE Goal
  <2> DEFINE b == IF approves
                    THEN [a EXCEPT !.executive = "approved", !.trail = @ \cup {"executive approved"}]
                    ELSE [Rejected(a) EXCEPT !.executive = "rejected"]
  <2>1. Write(r, b) /\ a.life \notin Terminal
    BY <1>8 DEF RecordExecutive, Terminal
  <2>2. b.criteria = a.criteria
    BY <1>1 DEF Acceptance, Rejected
  <2> HIDE DEF a, b
  <2> QED
    BY <1>3, <2>1, <2>2
<1>9. CASE GeneratePackage(r)
  <2> DEFINE b == [a EXCEPT !.package = TRUE]
  <2>1. records' = [records EXCEPT ![touched] = b] /\ touched' = touched
    BY <1>9 DEF GeneratePackage, Write
  <2>2. b.criteria = a.criteria /\ b = [a EXCEPT !.package = b.package]
    BY <1>1 DEF Acceptance
  <2> QED
    BY <1>1, <2>1, <2>2 DEF Goal
<1>10. CASE Certify(r)
  <2> DEFINE b == [a EXCEPT !.life = "accepted", !.certification = "certified",
                            !.trail = @ \cup {"certified"}]
  <2>1. Write(r, b) /\ a.life \notin Terminal
    BY <1>10 DEF Certify, Terminal
  <2>2. b.criteria = a.criteria
    BY <1>1 DEF Acceptance, Rejected
  <2> HIDE DEF a, b
  <2> QED
    BY <1>3, <2>1, <2>2
<1>11. CASE CertifyBlocked(r)
  <2>1. Write(r, a) /\ a.life \notin Terminal
    BY <1>11 DEF CertifyBlocked, RolledBack, Terminal
  <2> HIDE DEF a
  <2> QED
    BY <1>3, <2>1
<1>12. CASE Reject(r)
  <2> DEFINE b == Rejected(a)
  <2>1. Write(r, b) /\ a.life \notin Terminal
    BY <1>12 DEF Reject, Rejectable
  <2>2. b.criteria = a.criteria
    BY <1>1 DEF Acceptance, Rejected
  <2> HIDE DEF a, b
  <2> QED
    BY <1>3, <2>1, <2>2
<1> QED
  BY <1>4, <1>5, <1>6, <1>7, <1>8, <1>9, <1>10, <1>11, <1>12

\* A step leaves the records alone, adds one while none is active, or writes the
\* latest one.
LEMMA RecordStep ==
  ASSUME IInv, [Next]_vars
  PROVE  \/ records' = records /\ touched' = touched
         \/ /\ \E b : records' = Append(records, b)
            /\ touched' = Len(records) + 1 /\ NoneActive
         \/ /\ touched \in DOMAIN records /\ touched' = touched
            /\ \E b : /\ records' = [records EXCEPT ![touched] = b]
                      /\ Latest.life \in Signing => b.criteria = Latest.criteria
                      /\ Latest.life \in Terminal => b = [Latest EXCEPT !.package = b.package]
<1>1. ASSUME UNCHANGED vars PROVE records' = records /\ touched' = touched
  BY <1>1 DEF vars
<1>2. ASSUME NEW r \in Requests, (\E open \in BOOLEAN : SetBlockers(r, open)) \/ Gather(r) \/ Refused(r)
      PROVE  records' = records /\ touched' = touched
  BY <1>2 DEF SetBlockers, Gather, Refused
<1>3. ASSUME NEW r \in Requests, NEW criteria \in [Criteria -> CreatedCriteria],
             NEW claim \in Claims, Create(r, criteria, claim)
      PROVE  (\E b : records' = Append(records, b)) /\ touched' = Len(records) + 1 /\ NoneActive
  BY <1>3 DEF Create
<1> QED
  BY <1>1, <1>2, <1>3, LatestStep DEF Next

\* Whatever requests overlap, at most one record is active, and it is the one
\* written last.
THEOREM ActiveCorrect == Spec => []ActiveIsLatest
<1>1. Init => ActiveIsLatest
  BY DEF Init, ActiveIsLatest
<1>2. ASSUME IInv, ActiveIsLatest, [Next]_vars PROVE ActiveIsLatest'
  <2>1. records \in Seq(Acceptance)
    BY <1>2 DEF IInv, TypeOK
  <2>2. CASE records' = records /\ touched' = touched
    BY <1>2, <2>2 DEF ActiveIsLatest, Active
  <2>3. ASSUME NEW b, records' = Append(records, b), touched' = Len(records) + 1, NoneActive
        PROVE  ActiveIsLatest'
    <3>1. /\ DOMAIN records' = 1..(Len(records) + 1) /\ DOMAIN records = 1..Len(records)
          /\ Len(records) \in Nat
          /\ \A i \in 1..Len(records) : records'[i] = records[i]
      BY <2>1, <2>3
    <3> QED
      BY <2>3, <3>1 DEF ActiveIsLatest, Active, NoneActive
  <2>4. ASSUME NEW b, touched' = touched, records' = [records EXCEPT ![touched] = b]
        PROVE  ActiveIsLatest'
    BY <1>2, <2>4 DEF ActiveIsLatest, Active
  <2> QED
    BY <1>2, <2>2, <2>3, <2>4, RecordStep
<1> QED
  BY <1>1, <1>2, InductiveInvariant, PTL DEF Spec

\* Once the customer was asked, no request changes the criteria of a record,
\* whatever it found when it gathered its context.
THEOREM SignedCorrect == Spec => SignedEvidenceFixed
<1>1. ASSUME IInv, [Next]_vars, NEW i \in DOMAIN records, records[i].life \in Signing
      PROVE  records'[i].criteria = records[i].criteria
  <2>1. \A b : records' = Append(records, b) => records'[i] = records[i]
    BY <1>1 DEF IInv, TypeOK
  <2>2. \A b : records' = [records EXCEPT ![touched] = b] =>
          records'[i] = IF i = touched THEN b ELSE records[i]
    BY <1>1
  <2> QED
    BY <1>1, <2>1, <2>2, RecordStep DEF Latest
<1>2. IInv /\ [Next]_vars => [\A i \in DOMAIN records :
        records[i].life \in {"customer_review", "executive_review"} \cup Terminal
          => records'[i].criteria = records[i].criteria]_vars
  BY <1>1 DEF Signing
<1> QED
  BY <1>2, InductiveInvariant, PTL DEF Spec, SignedEvidenceFixed

\* A closed record changes in nothing but its package, although every request
\* gathered its context while the record may still have been open.
THEOREM ClosedCorrect == Spec => ClosedStays
<1>1. ASSUME IInv, [Next]_vars, NEW i \in DOMAIN records, ~Active(i)
      PROVE  records'[i] = [records[i] EXCEPT !.package = records'[i].package]
  <2>1. records[i] \in Acceptance
    BY <1>1, ElementOfSeq DEF IInv, TypeOK
  <2>2. records[i] = [records[i] EXCEPT !.package = records[i].package]
    BY <2>1 DEF Acceptance
  <2>3. \A b : records' = Append(records, b) => records'[i] = records[i]
    BY <1>1 DEF IInv, TypeOK
  <2>4. \A b : records' = [records EXCEPT ![touched] = b] =>
          records'[i] = IF i = touched THEN b ELSE records[i]
    BY <1>1
  <2> QED
    BY <1>1, <2>2, <2>3, <2>4, RecordStep DEF Latest, Active
<1>2. IInv /\ [Next]_vars => [\A i \in DOMAIN records :
        ~Active(i) => records'[i] = [records[i] EXCEPT !.package = records'[i].package]]_vars
  BY <1>1
<1> QED
  BY <1>2, InductiveInvariant, PTL DEF Spec, ClosedStays

=============================================================================
