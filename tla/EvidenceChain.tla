------------------------------ MODULE EvidenceChain ------------------------------
(***************************************************************************)
(* The audit log (src/audit-log.js) and the decision ledger                *)
(* (src/decision-ledger.js): records of all organizations are appended to  *)
(* one log, each bound by a hash to the one before it of the same          *)
(* organization.  A behaviour is one of either of them.                    *)
(*                                                                         *)
(* A hash is the hashed content itself, with that of the records it goes   *)
(* back to, so equal hashes mean equal content.  The stored log may be     *)
(* changed behind the program's back: the chain exists to show it.         *)
(***************************************************************************)
EXTENDS Naturals, Sequences, SequencesExt

CONSTANTS
  Tenants,      \* organizations
  Payloads,     \* what a record says
  MaxLog        \* bound: records

ASSUME ChainAssumption == MaxLog \in Nat

VARIABLES
  book,         \* "audit" or "decisions": which of the two the log is
  log,          \* db.auditLog or db.decisionLedger
  spoilt        \* the organizations with a record that was changed or removed
                \* other than by cutting off the newest ones

chainVars == <<book, log, spoilt>>

ChainInit == book \in {"audit", "decisions"} /\ log = <<>> /\ spoilt = {}

\* Where the records of one organization are, and those of them before one.
OfOrg(records, org) == {i \in DOMAIN records : records[i].org = org}

Before(records, i) == {j \in OfOrg(records, records[i].org) : j < i}

\* hashRecord: what precedes the record, and the record.
HashOf(e) == Append(e.previous, <<e.org, e.payload>>)

\* previousHash of a first record.
NoHash == <<>>

\* The hash of the last of some records.
LastHash(records, at) == IF at = {} THEN NoHash ELSE records[Max(at)].hash

\* Mutant: the newest record of the log, of whichever organization.
NewestOfLog(org) == LastHash(log, DOMAIN log)

\* The organization's last record: the last of those filtered for an entry of the
\* audit log, the first met from the end for one of the ledger.
PreviousHash(org) == LastHash(log, OfOrg(log, org))

Appended(org, payload) ==
  /\ Len(log) < MaxLog
  /\ LET e == [org |-> org, payload |-> payload, previous |-> PreviousHash(org)] IN
       log' = Append(log, [org |-> org, payload |-> payload, previous |-> e.previous,
                           hash |-> HashOf(e)])
  /\ UNCHANGED <<book, spoilt>>

AppendAudit(org, payload) == book = "audit" /\ Appended(org, payload)

AppendDecision(org, payload) == book = "decisions" /\ Appended(org, payload)

\* The loop of verifyAuditLog and of verifyDecisionLedger: each record of the
\* organization names the one before it and is what it was when it was hashed.
Linked(records, i) ==
  /\ records[i].hash = HashOf(records[i])
  /\ records[i].previous = LastHash(records, Before(records, i))

Valid(records, org) == \A i \in OfOrg(records, org) : Linked(records, i)

\* The stored log is edited, once for an organization: a record says something
\* else,
Edited(i, payload) ==
  /\ log[i].org \notin spoilt
  /\ log[i].payload # payload
  /\ log' = [log EXCEPT ![i].payload = payload]
  /\ spoilt' = spoilt \cup {log[i].org}
  /\ UNCHANGED book

\* or is gone, while a later one of its organization stays,
Removed(i) ==
  /\ log[i].org \notin spoilt
  /\ \E j \in DOMAIN log : j > i /\ log[j].org = log[i].org
  /\ log' = RemoveAt(log, i)
  /\ spoilt' = spoilt \cup {log[i].org}
  /\ UNCHANGED book

\* or the newest of its organization is gone.
Cut(i) ==
  /\ log[i].org \notin spoilt
  /\ \A j \in DOMAIN log : j > i => log[j].org # log[i].org
  /\ log' = RemoveAt(log, i)
  /\ UNCHANGED <<book, spoilt>>

ChainNext ==
  \/ \E org \in Tenants, payload \in Payloads : AppendAudit(org, payload)
  \/ \E org \in Tenants, payload \in Payloads : AppendDecision(org, payload)
  \/ \E i \in DOMAIN log, payload \in Payloads : Edited(i, payload)
  \/ \E i \in DOMAIN log : Removed(i)
  \/ \E i \in DOMAIN log : Cut(i)

ChainSpec == ChainInit /\ [][ChainNext]_chainVars

-----------------------------------------------------------------------------
(* Properties                                                              *)

\* However the organizations' records interleave, and whatever is appended
\* afterwards, the verification tells an organization whose chain was changed
\* from the others, of whom nothing but newest records can be missing.
ChainTellsTheTruth == \A org \in Tenants : Valid(log, org) <=> org \notin spoilt

=============================================================================
