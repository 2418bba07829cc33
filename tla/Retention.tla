------------------------------- MODULE Retention -------------------------------
(***************************************************************************)
(* The retention workspace: a file of purchases is audited and turned into *)
(* a queue of decisions, each of them passes the contact policy, and the   *)
(* audience that may be contacted is exported (src/retention-product.js,   *)
(* src/channel-retention-readiness.js, src/channel-retention-dataset.js,   *)
(* src/contact-policy.js, src/retention-shadow.js, and the handlers of     *)
(* src/server.js, which read the configuration, await and then store);     *)
(* the workspace and the behavioral workspace (src/behavioral-policy.js)   *)
(* say what may be tried on it.                                            *)
(*                                                                         *)
(* Days stand for timestamps.  Columns of a file are mapped or not; what   *)
(* is kept of the mapping is whether the contact columns are.  The         *)
(* statistics of the baseline are left out: no decision depends on them.   *)
(***************************************************************************)
EXTENDS FiniteSets, FiniteSetsExt, Integers, Sequences, SequencesExt

CONSTANTS
  Files,          \* uploaded files: sequences of rows, which say who bought
                  \* which product when, the day it expires (0 for none),
                  \* whether it was paid, whether its values are sound, whether
                  \* its validity and expiry are understood, and what the
                  \* contact columns hold
  Lifecycles,     \* thresholds a client may send
  Cutoffs,        \* days a client may cut a file at; 0 is none
  Exclusions,     \* customers a shadow run leaves out
  UsualCycle,     \* days between purchases when nothing is known: 30
  RetentionCalls, \* requests served at the same time
  MaxAnalyses,    \* bound: analyses ever begun
  MaxShadowRuns   \* bound: shadow runs stored

\* parseBoolean, parseNonNegativeInteger and normalizeToken: a contact column
\* says one thing or the other, or nothing that is understood.
ContactColumns == [consent : {"granted", "denied", "none"}, optOut : {"yes", "no", "none"},
                   channel : {"allowed", "other", "none"}, count : {"under", "full", "none"}]

\* checks of buildContactSafetyWorkspace
ContactFields == {"consent", "opt_out", "preferred_channel", "frequency_cap"}

NoContact == [consent |-> "none", optOut |-> "none", channel |-> "none", count |-> "none"]

RowFields == {"customer", "product", "txn", "at", "expires", "paid", "sound", "timed", "contact"}

\* The thresholds are what boundedInteger lets through.
ASSUME RetentionAssumption ==
  /\ {MaxAnalyses, MaxShadowRuns, UsualCycle} \cup Cutoffs \subseteq Nat
  /\ \A file \in Files :
       /\ file \in Seq(ToSet(file))
       /\ \A i \in DOMAIN file :
            /\ DOMAIN file[i] = RowFields
            /\ file[i].at \in Int /\ file[i].expires \in Int /\ file[i].contact \in ContactColumns
  /\ \A l \in Lifecycles :
       {l.due, l.lapsed, l.dormant, l.lost, l.least} \subseteq Int /\ l.due < l.lapsed

VARIABLES
  config,         \* organization.retentionConfig
  analyses,       \* db.retentionAnalyses, in the order of their commits
  shadowRuns,     \* db.retentionShadowRuns
  drawn,          \* how many createdAt were drawn
  call            \* where each request is, and what it is about to store

retentionVars == <<config, analyses, shadowRuns, drawn, call>>

-----------------------------------------------------------------------------
(* From rows to decisions                                                  *)

\* previewRetentionRows: the columns it finds for a file that may be imported,
\* those of the contact among them or not.
Mappings == {"whole", "bare"}

\* mapRetentionRows
MappedRows(file, mapping) ==
  [i \in DOMAIN file |->
     IF mapping = "whole" THEN file[i] ELSE [file[i] EXCEPT !.contact = NoContact]]

\* resolveCutoff: without one, the day after the last purchase.
CutoffOf(rows, supplied) ==
  IF supplied # 0 THEN supplied ELSE 1 + Max({rows[i].at : i \in DOMAIN rows})

\* auditChannelRetentionData: one row that is not sound blocks the file.
NeedsDataFix(rows) == \E i \in DOMAIN rows : ~rows[i].sound

\* isSuccessfulPurchase and calculateCoverageDays
SuccessfulRows(rows) == {i \in DOMAIN rows : rows[i].paid /\ rows[i].sound}
CoverageDays(rows, some) ==
  IF Cardinality(some) < 2 THEN 0
  ELSE Max({rows[i].at : i \in some}) - Min({rows[i].at : i \in some})

\* status of auditChannelRetentionData: the history, the customers and those who
\* came back are enough for a baseline, or a diagnosis is all there is.
Readiness(rows, l) ==
  LET some == SuccessfulRows(rows)
      buyers == {rows[i].customer : i \in some}
      times(c) == Cardinality({i \in some : rows[i].customer = c})
  IN
  IF NeedsDataFix(rows) THEN "needs_data_fix"
  ELSE IF /\ CoverageDays(rows, some) >= l.history
          /\ Cardinality(buyers) >= l.customers
          /\ Cardinality({c \in buyers : times(c) >= 2}) >= l.repeat
    THEN "ready" ELSE "diagnostic_only"

\* classifyRows: understood in all columns, those that the audit lets pass among them,
\* paid, not after the cutoff, and the first of its transaction.
CleanRows(rows, cutoff) ==
  LET kept == {i \in DOMAIN rows :
                 rows[i].sound /\ rows[i].timed /\ rows[i].paid /\ rows[i].at <= cutoff} IN
  {i \in kept : \A j \in kept : j < i => rows[j].txn # rows[i].txn}

\* groupPurchases: the purchases of one unit, which is a customer's product.
UnitOf(row) == <<row.customer, row.product>>
PurchasesOf(rows, cutoff, unit) == {i \in CleanRows(rows, cutoff) : UnitOf(rows[i]) = unit}

\* The last of some rows in the order of time, of the file among equals.
NewestRow(rows, some) ==
  CHOOSE i \in some : \A j \in some :
    rows[j].at < rows[i].at \/ (rows[j].at = rows[i].at /\ j <= i)

\* sort: the things of a set, each at the place after all those that precede it.
Sorted(S, Precedes(_, _)) ==
  [k \in 1..Cardinality(S) |->
     CHOOSE x \in S : Cardinality({y \in S : Precedes(y, x)}) = k - 1]

\* The places of what a filter or a Map keeps.
Places(S) == Sorted(S, LAMBDA a, b : a < b)

\* purchaseGaps: the days from each purchase to the one before it.
InOrder(rows, some) ==
  Sorted(some, LAMBDA i, j :
    rows[i].at < rows[j].at \/ (rows[i].at = rows[j].at /\ i < j))
Gaps(rows, some) ==
  LET s == InOrder(rows, some) IN
  [k \in 1..(Len(s) - 1) |-> rows[s[k + 1]].at - rows[s[k]].at]

\* expectedCycleDays: the median of the gaps that are not zero, a half rounded up.
ExpectedCycle(rows, some) ==
  LET g == Gaps(rows, some)
      s == Sorted({k \in DOMAIN g : g[k] > 0},
                  LAMBDA i, j : g[i] < g[j] \/ (g[i] = g[j] /\ i < j))
      n == Len(s)
  IN IF n = 0 THEN UsualCycle
     ELSE (g[s[(n + 1) \div 2]] + g[s[(n + 2) \div 2]] + 1) \div 2

\* calculateDueAt of the last purchase of a unit
DueAt(rows, some) ==
  LET last == rows[NewestRow(rows, some)] IN
  IF last.expires > last.at THEN last.expires ELSE last.at + ExpectedCycle(rows, some)

\* classifyState
StateOf(days, l) ==
  CASE days < l.due                          -> "active"
    [] days >= l.due /\ days < l.lapsed      -> "due"
    [] days >= l.lapsed /\ days < l.dormant  -> "lapsed"
    [] days >= l.dormant /\ days < l.lost    -> "dormant"
    [] OTHER                                 -> "long_term_lost"

\* actionForState
ActionFor(state) ==
  CASE state = "due" -> "reminder_test" [] state = "lapsed" -> "channel_nudge_test"
    [] state = "dormant" -> "offer_eligibility_review" [] OTHER -> "no_action"

\* Mutant: what the first row of the customer says.
FirstContact(rows, customer) ==
  rows[Min({i \in DOMAIN rows : rows[i].customer = customer})].contact

\* buildContactProfiles: every row counts, also unpaid ones and later ones.
ContactOf(rows, customer) ==
  rows[NewestRow(rows, {i \in DOMAIN rows : rows[i].customer = customer})].contact

\* evaluateContactPermission
Permitted(p) ==
  p.consent = "granted" /\ p.optOut = "no" /\ p.channel = "allowed" /\ p.count = "under"

\* contract of evaluateContactPermission: which of the four fields are recorded.
RecordedFields(p) ==
  {f \in ContactFields :
     CASE f = "consent"           -> p.consent \in {"granted", "denied"}
       [] f = "opt_out"           -> p.optOut # "none"
       [] f = "preferred_channel" -> p.channel = "allowed"
       [] f = "frequency_cap"     -> p.count # "none"}

\* buildSnapshot of the purchases of a unit
SnapshotOf(rows, cutoff, l, unit) ==
  LET purchases == PurchasesOf(rows, cutoff, unit)
      days == cutoff - DueAt(rows, purchases)
  IN [unit |-> unit, days |-> days, state |-> StateOf(days, l), place |-> Min(purchases),
      eligible |-> Cardinality(purchases) >= l.least]

\* toQueueItem
QueueItem(s) ==
  [unit |-> s.unit, days |-> s.days, state |-> s.state, action |-> ActionFor(s.state)]

\* buildRetentionDecisionQueue, sorted by the days since the purchase fell due.
DecisionQueue(snapshots) ==
  LET sorted == Sorted({s \in snapshots : s.eligible /\ s.state # "active"},
        LAMBDA d, e : d.days > e.days \/ (d.days = e.days /\ d.place < e.place))
  IN [i \in DOMAIN sorted |-> QueueItem(sorted[i])]

\* applyContactPolicy
WithPermissions(queue, rows) ==
  [i \in DOMAIN queue |->
     LET item == queue[i] contact == ContactOf(rows, item.unit[1]) IN
     [unit |-> item.unit, state |-> item.state,
      recorded |-> RecordedFields(contact),
      allowed |-> Permitted(contact) /\ item.action # "no_action"]]

\* analyzeRetentionRows
QueueOf(file, c, supplied) ==
  LET rows == MappedRows(file, c.mapping)
      cutoff == CutoffOf(rows, supplied)
      units == {UnitOf(rows[i]) : i \in CleanRows(rows, cutoff)}
  IN IF NeedsDataFix(rows) THEN <<>>
     ELSE WithPermissions(
            DecisionQueue({SnapshotOf(rows, cutoff, c.lifecycle, u) : u \in units}), rows)

\* buildContactSafetyWorkspace: the checks that pass, which a field does when every
\* decision has it recorded,
PassedChecks(queue) ==
  {f \in ContactFields :
     queue # <<>> /\ \A i \in DOMAIN queue : f \in queue[i].recorded}

\* and contractReady.
ContractReady(queue) == PassedChecks(queue) = ContactFields

\* buildRetentionAudienceCsv
AudienceRows(queue) == {queue[i].unit : i \in {j \in DOMAIN queue : queue[j].allowed}}

\* GET /api/retention/audience.csv
Audience(queue) == IF ContractReady(queue) THEN AudienceRows(queue) ELSE {}

\* buildRetentionWorkspace of an analysis
WorkspaceStatus(readiness) == IF readiness = "ready" THEN "baseline_ready" ELSE readiness

\* buildBehavioralWorkspace: its status, the interventions that are not held back,
\* and the guardrails that block a live one, of a retention workspace, the checks of
\* the contact, a registered holdout and a campaign whose cost is known.
BehavioralWorkspace(shown, passed, registered, margin) ==
  LET baseline == shown = "baseline_ready" IN
  [status |-> IF ~baseline THEN "needs_baseline"
              ELSE IF registered /\ margin THEN "ready_for_controlled_test"
              ELSE "ready_for_shadow",
   open |-> {"intentional_no_action"}
     \cup (IF baseline THEN {"timely_reminder", "friction_reduction",
                             "non_monetary_reactivation"} ELSE {})
     \cup (IF registered /\ margin THEN {"incentive_eligibility_test"} ELSE {}),
   blocked |-> (IF registered THEN {} ELSE {"holdout_required"})
     \cup (IF "frequency_cap" \in passed THEN {} ELSE {"frequency_cap"})
     \cup (IF passed \cup {"frequency_cap"} = ContactFields THEN {} ELSE {"opt_out"})
     \cup (IF margin THEN {} ELSE {"financial_guardrail"})]

-----------------------------------------------------------------------------
(* Handlers                                                                *)

Resting == [pc |-> "idle"]
Demonstrating == [pc |-> "demo"]

\* normalizeLifecycle throws unless the thresholds ascend.
Ascending(l) == l.lapsed < l.dormant /\ l.dormant < l.lost

RetentionInit ==
  /\ config \in [lifecycle : {l \in Lifecycles : Ascending(l)},
                 mapping : {"whole"}]
  /\ analyses = <<>> /\ shadowRuns = <<>> /\ drawn = 0
  /\ call = [r \in RetentionCalls |-> Resting]

\* updateRetentionConfiguration up to its transaction; what the body leaves out
\* stays as it was read.
BeginUpdate(r, lifecycles, mappings, next) ==
  /\ call[r] = Resting
  /\ \E l \in lifecycles, mapping \in mappings :
       /\ Ascending(l)
       /\ call' = [call EXCEPT ![r] =
            [pc |-> "updating", next |-> next,
             config |-> [lifecycle |-> l, mapping |-> mapping]]]
  /\ UNCHANGED <<config, analyses, shadowRuns, drawn>>

StoreConfig(r) ==
  /\ call[r].pc = "updating"
  /\ config' = call[r].config
  /\ call' = [call EXCEPT ![r] = call[r].next]
  /\ UNCHANGED <<analyses, shadowRuns, drawn>>

\* loadRetentionDemoScenario: an update to a preset, and once it is stored the
\* import of the scenario's file, under the configuration read by then.
BeginDemo(r) == BeginUpdate(r, Lifecycles, {"whole"}, Demonstrating)

\* Mutant: the configuration is hashed as it was before the file was mapped.
HashedAsRead(read, used) == read

\* configurationHash is of the configuration the analysis used.
HashedAsUsed(read, used) == used

\* importRetentionAnalysis up to its transaction: the mapping is the one that
\* previewRetentionRows finds for the file.
BeginImportRetention(r, file, supplied, mapping) ==
  /\ call[r] \in {Resting, Demonstrating}
  /\ drawn < MaxAnalyses
  /\ drawn' = drawn + 1
  /\ LET used == [lifecycle |-> config.lifecycle, mapping |-> mapping] IN
       call' = [call EXCEPT ![r] =
         [pc |-> "importing", config |-> used,
          record |-> [createdAt |-> drawn, file |-> file, cutoff |-> supplied,
                      hash |-> HashedAsUsed(config, used),
                      snapshot |-> used, queue |-> QueueOf(file, used, supplied),
                      status |-> WorkspaceStatus(
                        Readiness(MappedRows(file, mapping), used.lifecycle))]]]
  /\ UNCHANGED <<config, analyses, shadowRuns>>

\* Its transaction writes the configuration back together with the record.
StoreAnalysis(r) ==
  /\ call[r].pc = "importing"
  /\ config' = call[r].config
  /\ analyses' = Append(analyses, call[r].record)
  /\ call' = [call EXCEPT ![r] = Resting]
  /\ UNCHANGED <<shadowRuns, drawn>>

\* getLatestRetentionRecord
LatestRecord ==
  analyses[CHOOSE i \in DOMAIN analyses : \A j \in DOMAIN analyses :
             analyses[j].createdAt <= analyses[i].createdAt]

\* statePriority of comparePriority
Urgency(state) ==
  CASE state = "dormant" -> 4 [] state = "lapsed" -> 3 [] state = "due" -> 2 [] OTHER -> 1

\* The first of some decisions by comparePriority.
MostUrgent(queue, some) ==
  CHOOSE j \in some : \A k \in some :
    \/ Urgency(queue[k].state) < Urgency(queue[j].state)
    \/ Urgency(queue[k].state) = Urgency(queue[j].state) /\ j <= k

\* One decision for a customer, the most urgent, at the place of the first.
Deduplicated(queue) ==
  LET own(i) == {j \in DOMAIN queue : queue[j].unit[1] = queue[i].unit[1]}
      firsts == Places({i \in DOMAIN queue : i = Min(own(i))})
  IN [i \in DOMAIN firsts |-> queue[MostUrgent(queue, own(firsts[i]))]]

\* buildRetentionShadowRun
ShadowRunOf(record, capacity, excluded) ==
  LET once == Deduplicated(record.queue)
      kept == Places({i \in DOMAIN once : once[i].unit[1] \notin excluded})
      chosen == [k \in DOMAIN kept |-> once[kept[k]]]
  IN
  [analysis |-> record.createdAt, capacity |-> capacity, excluded |-> excluded,
   selected |-> SubSeq(chosen, 1, IF Len(chosen) < capacity THEN Len(chosen) ELSE capacity)]

\* createRetentionShadowRun up to its transaction
BeginShadowRun(r, capacity, excluded) ==
  /\ call[r] = Resting
  /\ analyses # <<>>
  /\ call' = [call EXCEPT ![r] =
       [pc |-> "shadowing", run |-> ShadowRunOf(LatestRecord, capacity, excluded)]]
  /\ UNCHANGED <<config, analyses, shadowRuns, drawn>>

StoreShadowRun(r) ==
  /\ call[r].pc = "shadowing"
  /\ Len(shadowRuns) < MaxShadowRuns
  /\ shadowRuns' = Append(shadowRuns, call[r].run)
  /\ call' = [call EXCEPT ![r] = Resting]
  /\ UNCHANGED <<config, analyses, drawn>>

\* A request fails: the file of an import is deleted again, a preset stays stored.
RetentionFails(r) ==
  /\ call[r] # Resting
  /\ call' = [call EXCEPT ![r] = Resting]
  /\ UNCHANGED <<config, analyses, shadowRuns, drawn>>

RetentionNext ==
  \E r \in RetentionCalls :
    \/ BeginUpdate(r, Lifecycles \cup {config.lifecycle}, Mappings, Resting)
    \/ BeginDemo(r)
    \/ StoreConfig(r)
    \/ \E file \in Files, supplied \in Cutoffs, mapping \in Mappings :
         BeginImportRetention(r, file, supplied, mapping)
    \/ StoreAnalysis(r)
    \/ \E capacity \in 1..2, excluded \in Exclusions : BeginShadowRun(r, capacity, excluded)
    \/ StoreShadowRun(r)
    \/ RetentionFails(r)

RetentionSpec == RetentionInit /\ [][RetentionNext]_retentionVars

-----------------------------------------------------------------------------
(* What the pages show                                                     *)

\* hashRetentionConfiguration differs.
Stale == analyses # <<>> /\ LatestRecord.hash # config

\* getRetentionWorkspace; a stale workspace keeps the checks of the contact.
ShownStatus ==
  IF analyses = <<>> THEN "awaiting_data"
  ELSE IF Stale THEN "configuration_changed" ELSE LatestRecord.status

\* getContactPolicyWorkspace
ShownChecks == IF analyses = <<>> THEN {} ELSE PassedChecks(LatestRecord.queue)

\* getBehavioralWorkspace hands over no experiment; the campaign is read beside it.
Behavioral(margin) == BehavioralWorkspace(ShownStatus, ShownChecks, FALSE, margin)

-----------------------------------------------------------------------------
(* Properties                                                              *)

\* The settings are ones that normalizeLifecycle accepts; every record was drawn
\* once and stored at most once; a shadow run names a stored analysis and takes of
\* it, within its capacity, at most one decision of a customer, none of one left
\* out.
RetentionTypeOK ==
  /\ Ascending(config.lifecycle) /\ config.mapping \in Mappings
  /\ drawn \in 0..MaxAnalyses /\ Len(analyses) <= drawn
  /\ IsInjective([i \in DOMAIN analyses |-> analyses[i].createdAt])
  /\ \A i \in DOMAIN shadowRuns :
       LET run == shadowRuns[i] chosen == run.selected IN
       /\ \E a \in ToSet(analyses) :
            a.createdAt = run.analysis /\ ToSet(chosen) \subseteq ToSet(a.queue)
       /\ Len(chosen) <= run.capacity
       /\ Cardinality({chosen[k].unit[1] : k \in DOMAIN chosen} \ run.excluded) = Len(chosen)
  /\ \A r \in RetentionCalls : call[r].pc \in {"idle", "updating", "demo", "importing", "shadowing"}

\* Whatever files are imported, an exported decision is for a customer whose
\* newest row, paid or not, grants the contact, and for a product bought often
\* enough, whose last paid purchase of an understood expiry is due but not long lost;
\* and nothing is exported unless the contact columns were mapped and every row of
\* the file is sound.
AudiencePermitted ==
  \A k \in DOMAIN analyses : \A unit \in Audience(analyses[k].queue) :
    LET a == analyses[k]
        file == a.file
        l == a.snapshot.lifecycle
        theirs == {i \in DOMAIN file : file[i].customer = unit[1]}
        bought == {i \in theirs : file[i].product = unit[2] /\ file[i].paid}
        cutoff == CutoffOf(file, a.cutoff)
    IN
    /\ a.snapshot.mapping = "whole"
    /\ \A i \in DOMAIN file : file[i].sound
    /\ \E i \in theirs : /\ \A j \in theirs : file[j].at <= file[i].at
                         /\ Permitted(file[i].contact)
    /\ Cardinality({file[i].txn : i \in bought}) >= l.least
    /\ cutoff - DueAt(file, PurchasesOf(file, cutoff, unit)) \in l.due..(l.lost - 1)

\* However updates and imports overlap and overwrite each other's settings, a
\* workspace that is not called stale shows what the newest file says under the
\* settings the organization has now, and the behavioral workspace proposes an
\* intervention only when that file is long, large and sound enough by these
\* settings; its contact guardrails are open just when the audience may be exported.
FreshIsCurrent ==
  /\ analyses # <<>> /\ ~Stale =>
       LatestRecord.queue = QueueOf(LatestRecord.file, config, LatestRecord.cutoff)
  /\ \A margin \in BOOLEAN : LET b == Behavioral(margin) IN
       /\ b.status # "needs_baseline" \/ "timely_reminder" \in b.open =>
            /\ analyses # <<>> /\ ~Stale
            /\ Readiness(MappedRows(LatestRecord.file, config.mapping), config.lifecycle) = "ready"
       /\ {"frequency_cap", "opt_out"} \cap b.blocked = {} <=>
            analyses # <<>> /\ ContractReady(LatestRecord.queue)

=============================================================================
