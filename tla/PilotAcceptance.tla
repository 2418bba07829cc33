--------------------------- MODULE PilotAcceptance ---------------------------
(***************************************************************************)
(* The acceptance record of a pilot (src/production-acceptance.js): its    *)
(* criteria are evidenced and verified, the customer and the executive     *)
(* sign, and the pilot is certified or rejected.                           *)
(*                                                                         *)
(* The server gathers the context of the record (contract, impact,         *)
(* outcome, control room) in several reads before it opens the transaction *)
(* that judges the action, so an action sees the record as it is and the   *)
(* control room as it was.                                                 *)
(*                                                                         *)
(* A client of the API may create the record with statuses, signatures and *)
(* a package of its own: only the lifecycle and the audit trail are not    *)
(* taken from the request.  What the record says of its past is therefore  *)
(* stated of the trail.                                                    *)
(***************************************************************************)
EXTENDS Naturals, Sequences

CONSTANTS
  Requests,         \* requests the server works on at the same time
  Criteria,         \* the keys of the acceptance criteria
  CreatedCriteria,  \* a criterion as a create request and its context make it
  Claims,           \* what else a create request may claim
  MaxRecords        \* bound: acceptance records of the organization

VARIABLES
  records,    \* db.pilotAcceptances of the organization, in creation order
  touched,    \* the record written last, so the one with the newest updatedAt
  critical,   \* has the control room an open critical blocker?
  req         \* what each request holds between its reads and its transaction

vars == <<records, touched, critical, req>>

NoRecord == 0

Idle == [pc |-> "idle", critical |-> FALSE]

Terminal == {"accepted", "rejected"}

\* "checked": the trail holds an acceptance_criterion_verified of it.
Criterion == [status : {"missing", "submitted", "verified", "waived"},
              evidence : BOOLEAN, required : BOOLEAN, checked : BOOLEAN]

\* "package" is a generated evidencePackage with a checksum.
Claim ==
  [customer : {"not_requested", "requested", "accepted", "rejected"},
   executive : {"not_requested", "requested", "approved", "rejected"},
   package : BOOLEAN,
   certification : {"not_certified", "blocked", "certified"}]

ASSUME AcceptanceAssumption ==
  /\ MaxRecords \in Nat
  /\ CreatedCriteria \subseteq {c \in Criterion : ~c.checked}
  /\ Claims \subseteq Claim

\* auditEvents, as far as properties speak of them: customer_acceptance_recorded
\* and executive_approval_recorded with their result, acceptance_rejected among
\* the rejections.
Event == {"customer accepted", "executive approved", "rejected", "certified",
          "certification blocked"}

Acceptance ==
  [life : {"draft", "evidence_review", "customer_review", "executive_review"}
            \cup Terminal,
   criteria : [Criteria -> Criterion],
   customer : {"not_requested", "requested", "accepted", "rejected"},
   executive : {"not_requested", "requested", "approved", "rejected"},
   package : BOOLEAN,
   certification : {"not_certified", "blocked", "certified"},
   trail : SUBSET Event]

TypeOK ==
  /\ records \in Seq(Acceptance)
  /\ touched \in 0..Len(records)
  /\ critical \in BOOLEAN
  /\ req \in [Requests -> [pc : {"idle", "gathered"}, critical : BOOLEAN]]

Init ==
  /\ records = <<>>
  /\ touched = NoRecord
  /\ critical = FALSE
  /\ req = [r \in Requests |-> Idle]

-----------------------------------------------------------------------------

Active(i) == records[i].life \notin Terminal

\* findLatestAcceptance
Latest == records[touched]

\* requiredCriteriaReady
Ready(a) ==
  \A k \in Criteria :
    a.criteria[k].required => a.criteria[k].status \in {"verified", "waived"}

\* Mutant: the executive is not asked.
CustomerSuffices(a, open) ==
  Ready(a) /\ a.customer = "accepted" /\ a.package /\ ~open

\* certificationBlockers is empty; "open" is hasOpenCriticalBlockers of the
\* context the request gathered.
Certifiable(a, open) ==
  Ready(a) /\ a.customer = "accepted" /\ a.executive = "approved" /\ a.package
    /\ ~open

\* dispatchAcceptanceAction: the context is gathered and there is a record.  That
\* a terminal record takes nothing but generate_package shows in each guard.
Dispatched(r) ==
  /\ req[r].pc = "gathered"
  /\ touched # NoRecord

Ends(r) == req' = [req EXCEPT ![r] = Idle]

\* transact writes the latest record and answers.
Write(r, a) ==
  /\ records' = [records EXCEPT ![touched] = a]
  /\ Ends(r)
  /\ UNCHANGED <<touched, critical>>

-----------------------------------------------------------------------------
(* src/pilot-control-room.js and src/server.js                             *)

\* A request on the control room adds, changes or resolves blockers.
SetBlockers(r, open) ==
  /\ req[r].pc = "idle"
  /\ critical' = open
  /\ UNCHANGED <<records, touched, req>>

\* getPilotAcceptanceSourceContext
Gather(r) ==
  /\ req[r].pc = "idle"
  /\ req' = [req EXCEPT ![r] = [pc |-> "gathered", critical |-> critical]]
  /\ UNCHANGED <<records, touched, critical>>

\* 4xx, or a transaction that fails: nothing is written.
Refused(r) ==
  /\ req[r].pc = "gathered"
  /\ Ends(r)
  /\ UNCHANGED <<records, touched, critical>>

-----------------------------------------------------------------------------
(* src/production-acceptance.js                                            *)

\* Mutant: a draft does not count as active.
NoneUnderReview == \A i \in DOMAIN records : ~Active(i) \/ records[i].life = "draft"

NoneActive == \A i \in DOMAIN records : ~Active(i)

\* createPilotAcceptance: lifecycle and trail are the server's.  A criterion is the
\* default one of the context, which starts missing or submitted, with what the
\* request says of it; the rest is as the request claims.
Create(r, criteria, claim) ==
  /\ req[r].pc = "gathered"
  /\ Len(records) < MaxRecords
  /\ NoneActive
  /\ records' = Append(records,
       [life |-> "draft", criteria |-> criteria,
        customer |-> claim.customer, executive |-> claim.executive,
        package |-> claim.package, certification |-> claim.certification,
        trail |-> {}])
  /\ touched' = Len(records) + 1
  /\ Ends(r)
  /\ UNCHANGED critical

\* Mutant: evidence is taken at every stage before the end.
OpenForEvidence(a) == a.life \notin Terminal

TakesEvidence(a) == a.life \in {"draft", "evidence_review"}

SubmitEvidence(r, k) ==
  /\ Dispatched(r)
  /\ TakesEvidence(Latest)
  /\ Write(r, [Latest EXCEPT
       !.life = "evidence_review",
       !.criteria[k].status = IF @ = "missing" THEN "submitted" ELSE @,
       !.criteria[k].evidence = TRUE])

Evidenced(c) == c.evidence

VerifyCriterion(r, k) ==
  /\ Dispatched(r)
  /\ Latest.life = "evidence_review"
  /\ Evidenced(Latest.criteria[k])
  /\ Write(r, [Latest EXCEPT !.criteria[k].status = "verified",
                             !.criteria[k].checked = TRUE])

WaiveCriterion(r, k) ==
  /\ Dispatched(r)
  /\ Latest.life = "evidence_review"
  /\ Write(r, [Latest EXCEPT !.criteria[k].status = "waived"])

RequestCustomer(r) ==
  /\ Dispatched(r)
  /\ Latest.life = "evidence_review"
  /\ Ready(Latest)
  /\ Write(r, [Latest EXCEPT !.life = "customer_review", !.customer = "requested"])

\* What the three ways to reject a record have in common.
Rejected(a) ==
  [a EXCEPT !.life = "rejected", !.certification = "blocked", !.trail = @ \cup {"rejected"}]

RecordCustomer(r, accepts) ==
  /\ Dispatched(r)
  /\ Latest.life = "customer_review"
  /\ Write(r, IF accepts
                THEN [Latest EXCEPT !.customer = "accepted",
                                    !.trail = @ \cup {"customer accepted"}]
                ELSE [Rejected(Latest) EXCEPT !.customer = "rejected"])

RequestExecutive(r) ==
  /\ Dispatched(r)
  /\ Latest.life = "customer_review"
  /\ Latest.customer = "accepted"
  /\ Write(r, [Latest EXCEPT !.life = "executive_review", !.executive = "requested"])

RecordExecutive(r, approves) ==
  /\ Dispatched(r)
  /\ Latest.life = "executive_review"
  /\ approves => Latest.package
  /\ Write(r, IF approves
                THEN [Latest EXCEPT !.executive = "approved",
                                    !.trail = @ \cup {"executive approved"}]
                ELSE [Rejected(Latest) EXCEPT !.executive = "rejected"])

\* The only action a terminal record takes.
GeneratePackage(r) ==
  /\ Dispatched(r)
  /\ Write(r, [Latest EXCEPT !.package = TRUE])

Certify(r) ==
  /\ Dispatched(r)
  /\ Latest.life = "executive_review"
  /\ Certifiable(Latest, req[r].critical)
  /\ Write(r, [Latest EXCEPT !.life = "accepted", !.certification = "certified",
                             !.trail = @ \cup {"certified"}])

\* What certify with blockers leaves behind: it marks the record and throws,
\* and transact does not write what a mutator that throws has changed.
\* Mutant: a status the record does not know is written.
MarkedRefused(a) == [a EXCEPT !.certification = "refused"]

\* Mutant: the mark is written.
MarkedBlocked(a) ==
  [a EXCEPT !.certification = "blocked", !.trail = @ \cup {"certification blocked"}]

RolledBack(a) == a

CertifyBlocked(r) ==
  /\ Dispatched(r)
  /\ Latest.life = "executive_review"
  /\ ~Certifiable(Latest, req[r].critical)
  /\ Write(r, RolledBack(Latest))

\* Mutant: a closed record is rejected again.
Closable(a) == TRUE

Rejectable(a) == a.life \notin Terminal

Reject(r) ==
  /\ Dispatched(r)
  /\ Rejectable(Latest)
  /\ Write(r, Rejected(Latest))

-----------------------------------------------------------------------------
Next ==
  \E r \in Requests :
    \/ \E open \in BOOLEAN : SetBlockers(r, open)
    \/ Gather(r)
    \/ Refused(r)
    \/ \E criteria \in [Criteria -> CreatedCriteria], claim \in Claims : Create(r, criteria, claim)
    \/ \E k \in Criteria : SubmitEvidence(r, k)
    \/ \E k \in Criteria : VerifyCriterion(r, k)
    \/ \E k \in Criteria : WaiveCriterion(r, k)
    \/ RequestCustomer(r)
    \/ \E accepts \in BOOLEAN : RecordCustomer(r, accepts)
    \/ RequestExecutive(r)
    \/ \E approves \in BOOLEAN : RecordExecutive(r, approves)
    \/ GeneratePackage(r)
    \/ Certify(r)
    \/ CertifyBlocked(r)
    \/ Reject(r)

Spec == Init /\ [][Next]_vars

-----------------------------------------------------------------------------
(* Properties                                                              *)

\* Each stage of a record rests on the ones before it, whatever order the
\* clients' actions arrive in and whatever they claimed when they created it: no
\* review by the customer before the required criteria are settled, none by the
\* executive before the trail holds the customer's acceptance, no approval there
\* without a package, and accepted only after both signatures were recorded.
GatesHold ==
  \A i \in DOMAIN records :
    LET a == records[i] IN
    /\ a.life \in {"customer_review", "executive_review", "accepted"} => Ready(a)
    /\ a.life \in {"executive_review", "accepted"} =>
         /\ a.customer = "accepted" /\ "customer accepted" \in a.trail
         /\ a.executive = "approved" => a.package /\ "executive approved" \in a.trail
    /\ a.life = "accepted" => a.executive = "approved" /\ a.certification = "certified"

\* Concurrent creates leave one active record, and it is the one every action,
\* generate_package on a closed record included, will find.
ActiveIsLatest ==
  \A i \in DOMAIN records : Active(i) => i = touched

\* A record agrees with its trail: a criterion the trail says was verified has
\* evidence, the record is accepted exactly when it was certified and rejected
\* exactly when somebody rejected it, and says so.  A refused certification
\* leaves no trace in the database.
StatusesBacked ==
  \A i \in DOMAIN records :
    LET a == records[i] IN
    /\ \A k \in Criteria : a.criteria[k].checked => a.criteria[k].evidence
    /\ "certified" \in a.trail <=> a.life = "accepted"
    /\ "rejected" \in a.trail <=> a.life = "rejected"
    /\ a.life = "rejected" => a.certification = "blocked"
    /\ "certification blocked" \notin a.trail

\* What the customer was asked to accept does not change under the signatures:
\* once a record is in customer_review its criteria are fixed.
SignedEvidenceFixed ==
  [][\A i \in DOMAIN records :
       records[i].life \in {"customer_review", "executive_review"} \cup Terminal
         => records'[i].criteria = records[i].criteria]_vars

\* ACCEPTANCE_CLOSED: a closed record changes in nothing but its package.
ClosedStays ==
  [][\A i \in DOMAIN records :
       ~Active(i) => records'[i] = [records[i] EXCEPT !.package = records'[i].package]]_vars

\* tests/production-acceptance.test.js: certification is refused while the
\* control room has an open critical blocker.
CertifiedWhileClean ==
  [][\A i \in DOMAIN records :
       Active(i) /\ records'[i].life = "accepted" => ~critical]_vars

=============================================================================
