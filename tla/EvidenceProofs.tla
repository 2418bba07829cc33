----------------------------- MODULE EvidenceProofs -----------------------------
(***************************************************************************)
(* What is said of evidence is what the evidence says: the workspaces of   *)
(* Retention show an analysis as current only under the settings it was    *)
(* made with and export only whom it lets contact; OutcomeGates decides    *)
(* for scale only on an experiment that climbed every step of the claim    *)
(* ladder; an acceptance of PilotEvidence says what was so; and the        *)
(* verification of EvidenceChain tells whose chain was changed.            *)
(***************************************************************************)
EXTENDS Retention, OutcomeGates, PilotEvidence, EvidenceChain, FiniteSetTheorems, SequenceTheorems,
        WellFoundedInduction, TLAPS

-----------------------------------------------------------------------------
(* The retention workspace                                                 *)

\* What an analysis says of its file is what the file says under the settings it
\* keeps a snapshot of, and its hash is of these settings.
GoodRecord(a) ==
  /\ a.createdAt \in Nat
  /\ a.hash = a.snapshot
  /\ a.queue = QueueOf(a.file, a.snapshot, a.cutoff)
  /\ a.status = WorkspaceStatus(
       Readiness(MappedRows(a.file, a.snapshot.mapping), a.snapshot.lifecycle))

\* Some analysis was begun last, so there is one to show.
SomeNewest ==
  \E i \in DOMAIN analyses : \A j \in DOMAIN analyses :
    analyses[j].createdAt <= analyses[i].createdAt

\* Every stored analysis is good, and so is every one that is about to be stored:
\* it was made of the settings as they were read, whatever they became meanwhile.
RetentionInv ==
  /\ drawn \in Nat
  /\ analyses \in Seq(ToSet(analyses))
  /\ \A i \in DOMAIN analyses : GoodRecord(analyses[i])
  /\ analyses # <<>> => SomeNewest
  /\ call = [r \in RetentionCalls |-> call[r]]
  /\ \A r \in RetentionCalls :
       /\ call[r].pc = "updating" => call[r].next \in {Resting, Demonstrating}
       /\ call[r].pc = "importing" => GoodRecord(call[r].record)

\* A sequence is one over what it holds.
LEMMA SeqOfItsOwn ==
  ASSUME NEW S, NEW s \in Seq(S)
  PROVE  s \in Seq(ToSet(s))
<1>1. \A i \in 1..Len(s) : s[i] \in ToSet(s)
  BY DEF ToSet
<1> QED
  BY <1>1, SeqDef

\* The readiness of an audit is one of three.
LEMMA ReadinessIsOneOf ==
  ASSUME NEW rows, NEW l
  PROVE  Readiness(rows, l) \in {"needs_data_fix", "ready", "diagnostic_only"}
BY DEF Readiness

\* An import prepares a good record, whatever the settings it has read.
LEMMA ImportPreparesGood ==
  ASSUME RetentionInv, NEW r \in RetentionCalls, NEW file, NEW supplied, NEW mapping,
         BeginImportRetention(r, file, supplied, mapping)
  PROVE  RetentionInv'
<1>1. PICK used : used = [lifecycle |-> config.lifecycle, mapping |-> mapping]
  OBVIOUS
<1>2. PICK a : a = [createdAt |-> drawn, file |-> file, cutoff |-> supplied,
                    hash |-> HashedAsUsed(config, used), snapshot |-> used,
                    queue |-> QueueOf(file, used, supplied),
                    status |-> WorkspaceStatus(
                      Readiness(MappedRows(file, mapping), used.lifecycle))]
  OBVIOUS
<1>3. /\ call' = [call EXCEPT ![r] = [pc |-> "importing", config |-> used, record |-> a]]
      /\ drawn' = drawn + 1
      /\ UNCHANGED <<config, analyses, shadowRuns>>
  BY <1>1, <1>2 DEF BeginImportRetention
<1>4. used.mapping = mapping
  BY <1>1
<1>5. GoodRecord(a)
  BY <1>2, <1>4 DEF GoodRecord, HashedAsUsed, RetentionInv
<1> HIDE DEF GoodRecord
<1>6. \A c \in RetentionCalls : call'[c] =
        IF c = r THEN [pc |-> "importing", config |-> used, record |-> a] ELSE call[c]
  BY <1>3 DEF RetentionInv
<1>7. call' = [c \in RetentionCalls |-> call'[c]]
  BY <1>3 DEF RetentionInv
<1> QED
  BY <1>3, <1>5, <1>6, <1>7 DEF RetentionInv, SomeNewest

\* Storing it leaves an analysis begun last.
LEMMA StoreAnalysisKeeps ==
  ASSUME RetentionInv, NEW r \in RetentionCalls, StoreAnalysis(r)
  PROVE  RetentionInv'
<1>1. PICK a : a = call[r].record
  OBVIOUS
<1>2. GoodRecord(a)
  BY <1>1 DEF StoreAnalysis, RetentionInv
<1>3. /\ analyses' = Append(analyses, a)
      /\ call' = [call EXCEPT ![r] = Resting]
      /\ UNCHANGED <<shadowRuns, drawn>>
  BY <1>1 DEF StoreAnalysis
<1>4. /\ analyses' \in Seq(ToSet(analyses')) /\ analyses' # <<>>
      /\ \A i : i \in DOMAIN analyses' <=> i \in DOMAIN analyses \/ i = Len(analyses')
      /\ \A i \in DOMAIN analyses : analyses'[i] = analyses[i]
      /\ analyses'[Len(analyses')] = a
  <2>1. PICK s, t : s = analyses /\ t = analyses'
    OBVIOUS
  <2>2. s \in Seq(ToSet(s)) /\ t = Append(s, a)
    BY <1>3, <2>1 DEF RetentionInv
  <2>3. t \in Seq(ToSet(s) \cup {a})
    BY <2>2
  <2>4. t \in Seq(ToSet(t))
    BY <2>3, SeqOfItsOwn
  <2>5. /\ t # <<>>
        /\ \A i : i \in DOMAIN t <=> i \in DOMAIN s \/ i = Len(t)
        /\ \A i \in DOMAIN s : t[i] = s[i]
        /\ t[Len(t)] = a
    BY <2>2
  <2> QED
    BY <2>1, <2>4, <2>5
<1>5. \A i \in DOMAIN analyses' : GoodRecord(analyses'[i])
  BY <1>2, <1>4 DEF RetentionInv
<1>6. SomeNewest'
  <2>1. a.createdAt \in Nat /\ \A i \in DOMAIN analyses : analyses[i].createdAt \in Nat
    BY <1>2 DEF RetentionInv, GoodRecord
  <2>2. CASE analyses = <<>>
    BY <1>4, <2>1, <2>2 DEF SomeNewest
  <2>3. CASE analyses # <<>>
    <3>1. PICK i \in DOMAIN analyses :
            \A j \in DOMAIN analyses : analyses[j].createdAt <= analyses[i].createdAt
      BY <2>3 DEF RetentionInv, SomeNewest
    <3>2. CASE a.createdAt <= analyses[i].createdAt
      <4>1. i \in DOMAIN analyses' /\ analyses'[i] = analyses[i]
        BY <1>4, <3>1
      <4>2. \A j \in DOMAIN analyses' : analyses'[j].createdAt <= analyses'[i].createdAt
        BY <1>4, <3>1, <3>2, <4>1
      <4> QED
        BY <4>1, <4>2 DEF SomeNewest
    <3>3. CASE ~(a.createdAt <= analyses[i].createdAt)
      <4>1. \A j \in DOMAIN analyses : analyses[j].createdAt <= a.createdAt
        BY <2>1, <3>1, <3>3
      <4>2. \A j \in DOMAIN analyses' : analyses'[j].createdAt <= a.createdAt
        <5>1. a.createdAt <= a.createdAt
          BY <2>1
        <5> QED
          BY <1>4, <4>1, <5>1
      <4> QED
        BY <1>4, <4>2 DEF SomeNewest
    <3> QED
      BY <3>2, <3>3
  <2> QED
    BY <2>2, <2>3
<1>7. \A c \in RetentionCalls : call'[c] = IF c = r THEN Resting ELSE call[c]
  BY <1>3 DEF RetentionInv
<1>8. call' = [c \in RetentionCalls |-> call'[c]]
  BY <1>3 DEF RetentionInv
<1> QED
  BY <1>3, <1>4, <1>5, <1>6, <1>7, <1>8 DEF RetentionInv, Resting

\* A step that stores no analysis and begins none leaves the others alone.
LEMMA CallGoesOn ==
  ASSUME RetentionInv, NEW r \in RetentionCalls, NEW x,
         call' = [call EXCEPT ![r] = x], UNCHANGED <<analyses, drawn>>,
         x.pc = "updating" => x.next \in {Resting, Demonstrating}, x.pc # "importing"
  PROVE  RetentionInv'
<1>1. \A c \in RetentionCalls : call'[c] = IF c = r THEN x ELSE call[c]
  BY DEF RetentionInv
<1>2. call' = [c \in RetentionCalls |-> call'[c]]
  BY DEF RetentionInv
<1> QED
  BY <1>1, <1>2 DEF RetentionInv, SomeNewest

\* Every step of the retention workspace keeps its records good.
LEMMA RetentionInvInductive ==
  RetentionSpec => []RetentionInv
<1>1. RetentionInit => RetentionInv
  BY DEF RetentionInit, RetentionInv, Resting, ToSet
<1>2. RetentionInv /\ [RetentionNext]_retentionVars => RetentionInv'
  <2> SUFFICES ASSUME RetentionInv, [RetentionNext]_retentionVars
      PROVE  RetentionInv'
    OBVIOUS
  <2>1. CASE UNCHANGED retentionVars
    BY <2>1 DEF retentionVars, RetentionInv, SomeNewest
  <2>2. ASSUME NEW r \in RetentionCalls, NEW lifecycles, NEW mappings,
               NEW next \in {Resting, Demonstrating}, BeginUpdate(r, lifecycles, mappings, next)
        PROVE  RetentionInv'
    <3>1. PICK l \in lifecycles, mapping \in mappings : call' = [call EXCEPT ![r] =
            [pc |-> "updating", next |-> next,
             config |-> [lifecycle |-> l, mapping |-> mapping]]]
      BY <2>2 DEF BeginUpdate
    <3>3. PICK x : x = [pc |-> "updating", next |-> next,
                        config |-> [lifecycle |-> l, mapping |-> mapping]]
      OBVIOUS
    <3>4. x.pc = "updating" /\ x.next \in {Resting, Demonstrating}
      BY <3>3
    <3>5. call' = [call EXCEPT ![r] = x]
      BY <3>1, <3>3
    <3>2. UNCHANGED <<analyses, drawn>>
      BY <2>2 DEF BeginUpdate
    <3> QED
      BY <3>2, <3>4, <3>5, CallGoesOn
  <2>3. ASSUME NEW r \in RetentionCalls, BeginDemo(r)
        PROVE  RetentionInv'
    BY <2>2, <2>3 DEF BeginDemo
  <2>4. ASSUME NEW r \in RetentionCalls, StoreConfig(r)
        PROVE  RetentionInv'
    <3>1. PICK next \in {Resting, Demonstrating} : call' = [call EXCEPT ![r] = next]
      BY <2>4 DEF StoreConfig, RetentionInv
    <3>2. UNCHANGED <<analyses, drawn>>
      BY <2>4 DEF StoreConfig
    <3>3. next.pc \in {"idle", "demo"}
      BY DEF Resting, Demonstrating
    <3> QED
      BY <3>1, <3>2, <3>3, CallGoesOn
  <2>5. ASSUME NEW r \in RetentionCalls, NEW capacity, NEW excluded,
               BeginShadowRun(r, capacity, excluded)
        PROVE  RetentionInv'
    <3>1. PICK x : x = [pc |-> "shadowing", run |-> ShadowRunOf(LatestRecord, capacity, excluded)]
      OBVIOUS
    <3>3. call' = [call EXCEPT ![r] = x]
      BY <2>5, <3>1 DEF BeginShadowRun
    <3>4. x.pc = "shadowing"
      BY <3>1
    <3>2. UNCHANGED <<analyses, drawn>>
      BY <2>5 DEF BeginShadowRun
    <3> QED
      BY <3>2, <3>3, <3>4, CallGoesOn
  <2>6. ASSUME NEW r \in RetentionCalls, StoreShadowRun(r) \/ RetentionFails(r)
        PROVE  RetentionInv'
    <3>1. call' = [call EXCEPT ![r] = Resting] /\ UNCHANGED <<analyses, drawn>>
      BY <2>6 DEF StoreShadowRun, RetentionFails
    <3>2. Resting.pc = "idle"
      BY DEF Resting
    <3> QED
      BY <3>1, <3>2, CallGoesOn
  <2> QED
    BY <2>1, <2>2, <2>3, <2>4, <2>5, <2>6, ImportPreparesGood, StoreAnalysisKeeps
       DEF RetentionNext
<1> QED
  BY <1>1, <1>2, PTL DEF RetentionSpec

\* The analysis that is shown is one that was stored.
LEMMA LatestIsGood ==
  ASSUME RetentionInv, analyses # <<>>
  PROVE  GoodRecord(LatestRecord)
<1>1. PICK i : i = CHOOSE k \in DOMAIN analyses : \A j \in DOMAIN analyses :
                     analyses[j].createdAt <= analyses[k].createdAt
  OBVIOUS
<1>2. i \in DOMAIN analyses
  BY <1>1 DEF RetentionInv, SomeNewest
<1>3. LatestRecord = analyses[i]
  BY <1>1 DEF LatestRecord
<1> QED
  BY <1>2, <1>3 DEF RetentionInv

\* What is shown as current is.
LEMMA InvShowsCurrent ==
  RetentionInv => FreshIsCurrent
<1> SUFFICES ASSUME RetentionInv
    PROVE  FreshIsCurrent
  OBVIOUS
<1>1. PICK a : a = LatestRecord
  OBVIOUS
<1>2. analyses # <<>> => GoodRecord(a)
  BY <1>1, LatestIsGood
<1>3. analyses # <<>> /\ ~Stale =>
        /\ a.snapshot = config
        /\ a.queue = QueueOf(a.file, config, a.cutoff)
        /\ a.status = WorkspaceStatus(Readiness(MappedRows(a.file, config.mapping), config.lifecycle))
  BY <1>1, <1>2 DEF Stale, GoodRecord
<1>4. ASSUME NEW margin \in BOOLEAN
      PROVE  LET b == Behavioral(margin) IN
             b.status # "needs_baseline" \/ "timely_reminder" \in b.open =>
               /\ analyses # <<>> /\ ~Stale
               /\ Readiness(MappedRows(a.file, config.mapping), config.lifecycle) = "ready"
  <2>1. PICK b : b = Behavioral(margin)
    OBVIOUS
  <2>2. ShownStatus # "baseline_ready" =>
          b.status = "needs_baseline" /\ "timely_reminder" \notin b.open
    BY <2>1 DEF Behavioral, BehavioralWorkspace
  <2>3. SUFFICES ASSUME ShownStatus = "baseline_ready"
        PROVE  /\ analyses # <<>> /\ ~Stale
               /\ Readiness(MappedRows(a.file, config.mapping), config.lifecycle) = "ready"
    BY <2>1, <2>2
  <2>4. analyses # <<>> /\ ~Stale /\ a.status = "baseline_ready"
    BY <1>1, <2>3 DEF ShownStatus
  <2> QED
    BY <1>3, <2>4, ReadinessIsOneOf DEF WorkspaceStatus
<1>5. ASSUME NEW margin \in BOOLEAN
      PROVE  {"frequency_cap", "opt_out"} \cap Behavioral(margin).blocked = {} <=>
               analyses # <<>> /\ ContractReady(a.queue)
  <2>1. PICK shown, passed, blocked :
          shown = ShownStatus /\ passed = ShownChecks /\ blocked = Behavioral(margin).blocked
    OBVIOUS
  <2>2. /\ "frequency_cap" \in blocked <=> "frequency_cap" \notin passed
        /\ "opt_out" \in blocked <=> passed \cup {"frequency_cap"} # ContactFields
    BY <2>1 DEF Behavioral, BehavioralWorkspace
  <2>3. {"frequency_cap", "opt_out"} \cap blocked = {} <=> passed = ContactFields
    BY <2>2 DEF ContactFields
  <2>4. passed = IF analyses = <<>> THEN {} ELSE PassedChecks(a.queue)
    BY <1>1, <2>1 DEF ShownChecks
  <2>5. ContactFields # {}
    BY DEF ContactFields
  <2> QED
    BY <2>1, <2>3, <2>4, <2>5 DEF ContractReady
<1> QED
  BY <1>1, <1>3, <1>4, <1>5 DEF FreshIsCurrent

\* However updates and imports overlap and overwrite each other's settings, what is
\* shown as current is what the newest file says under the settings of now.
THEOREM ShownAnalysisIsCurrent ==
  RetentionSpec => []FreshIsCurrent
BY RetentionInvInductive, InvShowsCurrent, PTL

-----------------------------------------------------------------------------
(* Finite sets                                                             *)

\* Of finitely many integers one is the greatest.
LEMMA SomeGreatest ==
  ASSUME NEW S, IsFiniteSet(S), S # {}, NEW f \in [S -> Int]
  PROVE  \E x \in S : \A y \in S : f[y] <= f[x]
<1> DEFINE Headless == {T \in SUBSET S : T # {} /\ ~ \E x \in T : \A y \in T : f[y] <= f[x]}
<1>1. SUFFICES ASSUME Headless # {}
      PROVE  FALSE
  OBVIOUS
<1>2. IsWellFoundedOn(StrictSubsetOrdering(S), SUBSET S)
  BY FS_StrictSubsetOrderingWellFounded, FS_FiniteSubsetsOfFinite
<1>3. \E T \in Headless : \A U \in Headless : <<U, T>> \notin StrictSubsetOrdering(S)
  <2>1. Headless \subseteq SUBSET S
    OBVIOUS
  <2> HIDE DEF Headless
  <2> QED
    BY <1>1, <1>2, <2>1, WFMin
<1>4. PICK T \in Headless : \A U \in Headless : <<U, T>> \notin StrictSubsetOrdering(S)
  BY <1>3
<1>5. PICK x \in T : TRUE
  OBVIOUS
<1>6. T \ {x} # {}
  OBVIOUS
<1>7. T \ {x} \notin Headless
  BY <1>4, <1>5 DEF StrictSubsetOrdering
<1>8. PICK z \in T \ {x} : \A y \in T \ {x} : f[y] <= f[z]
  BY <1>6, <1>7
<1>9. f[x] \in Int /\ f[z] \in Int /\ \A y \in T : f[y] \in Int
  BY <1>5, <1>8
<1>10. CASE f[x] <= f[z]
  BY <1>8, <1>10
<1>11. CASE ~(f[x] <= f[z])
  <2>1. \A y \in T : f[y] <= f[x]
    BY <1>8, <1>9, <1>11
  <2> QED
    BY <2>1, <1>5
<1> QED
  BY <1>10, <1>11

\* And one is the least.
LEMMA SomeLeast ==
  ASSUME NEW S, IsFiniteSet(S), S # {}, NEW f \in [S -> Int]
  PROVE  \E x \in S : \A y \in S : f[x] <= f[y]
<1> DEFINE g == [x \in S |-> 0 - f[x]]
<1>1. g \in [S -> Int]
  OBVIOUS
<1>2. PICK x \in S : \A y \in S : g[y] <= g[x]
  BY <1>1, SomeGreatest
<1>3. \A y \in S : f[x] <= f[y]
  BY <1>2
<1> QED
  BY <1>3

-----------------------------------------------------------------------------
(* The audience                                                            *)

\* Of any two things of a set one precedes the other.
Orders(R, S) ==
  /\ \A x \in S : <<x, x>> \notin R
  /\ \A x, y, z \in S : <<x, y>> \in R /\ <<y, z>> \in R => <<x, z>> \in R
  /\ \A x, y \in S : x # y => <<x, y>> \in R \/ <<y, x>> \in R

\* The things that precede one.
AheadOf(R, S, x) == {y \in S : <<y, x>> \in R}

\* Each place of a finite set in order is that of one of them.
LEMMA EveryPlaceIsTaken ==
  ASSUME NEW S, IsFiniteSet(S), NEW R, Orders(R, S), NEW k \in 1..Cardinality(S)
  PROVE  \E x \in S : Cardinality(AheadOf(R, S, x)) = k - 1
<1> DEFINE Ahead(x) == AheadOf(R, S, x)
<1>1. PICK n \in Nat : n = Cardinality(S)
  BY FS_CardinalityType
<1>2. \A x \in S : Ahead(x) \subseteq S /\ x \notin Ahead(x)
  BY DEF Orders, AheadOf
<1>3. \A x, y \in S : <<x, y>> \in R => Ahead(x) \subseteq Ahead(y) /\ x \in Ahead(y)
  BY DEF Orders, AheadOf
<1> HIDE DEF Ahead
<1>4. ASSUME NEW x \in S
      PROVE  IsFiniteSet(Ahead(x)) /\ Cardinality(Ahead(x)) \in 0..(n - 1)
  <2>1. IsFiniteSet(Ahead(x)) /\ Cardinality(Ahead(x)) <= n /\ Cardinality(Ahead(x)) # n
    BY <1>1, <1>2, FS_Subset
  <2>2. Cardinality(Ahead(x)) \in Nat
    BY <2>1, FS_CardinalityType
  <2> QED
    BY <1>1, <2>1, <2>2
<1>5. PICK f : f = [x \in S |-> Cardinality(Ahead(x))]
  OBVIOUS
<1>6. ASSUME NEW x \in S, NEW y \in S, <<x, y>> \in R PROVE f[x] # f[y]
  <2>1. Ahead(x) \subseteq Ahead(y) /\ Ahead(x) # Ahead(y)
    BY <1>2, <1>3, <1>6
  <2>2. Cardinality(Ahead(x)) # Cardinality(Ahead(y))
    BY <1>4, <2>1, FS_Subset
  <2> QED
    BY <1>5, <2>2
<1>7. f \in Injection(S, 0..(n - 1))
  <2>1. f \in [S -> 0..(n - 1)]
    BY <1>4, <1>5
  <2>2. \A x, y \in S : f[x] = f[y] => x = y
    BY <1>6 DEF Orders
  <2> QED
    BY <2>1, <2>2 DEF Injection, IsInjective
<1>8. IsFiniteSet(0..(n - 1)) /\ Cardinality(0..(n - 1)) = n
  <2>1. 0 \in Int /\ n - 1 \in Int /\ (n = 0 <=> 0 > n - 1)
    BY <1>1
  <2>2. /\ IsFiniteSet(0..(n - 1))
        /\ Cardinality(0..(n - 1)) = IF 0 > n - 1 THEN 0 ELSE (n - 1) - 0 + 1
    BY <2>1, FS_Interval
  <2> QED
    BY <2>1, <2>2
<1>9. f \in Surjection(S, 0..(n - 1))
  BY <1>1, <1>7, <1>8, FS_Injection
<1>10. k - 1 \in 0..(n - 1)
  BY <1>1
<1>11. PICK x \in S : f[x] = k - 1
  BY <1>9, <1>10 DEF Surjection
<1> QED
  BY <1>5, <1>11 DEF Ahead

\* The rows of a file have days.
GoodRows(rows) ==
  /\ rows \in Seq(ToSet(rows))
  /\ \A i \in DOMAIN rows : rows[i].at \in Int /\ rows[i].expires \in Int

\* Some of the rows are finitely many numbers.
LEMMA SomeRows ==
  ASSUME NEW rows, GoodRows(rows), NEW some \in SUBSET DOMAIN rows
  PROVE  IsFiniteSet(some) /\ some \subseteq Int /\ Cardinality(some) \in Nat
<1>1. Len(rows) \in Nat /\ DOMAIN rows = 1..Len(rows)
  BY DEF GoodRows
<1>2. IsFiniteSet(1..Len(rows))
  BY <1>1, FS_Interval
<1>3. IsFiniteSet(some)
  BY <1>1, <1>2, FS_Subset
<1> QED
  BY <1>1, <1>3, FS_CardinalityType

\* Of some rows one is the newest.
LEMMA NewestIs ==
  ASSUME NEW rows, GoodRows(rows), NEW some \in SUBSET DOMAIN rows, some # {}
  PROVE  /\ NewestRow(rows, some) \in some
         /\ \A j \in some : rows[j].at <= rows[NewestRow(rows, some)].at
<1>1. IsFiniteSet(some) /\ some \subseteq Int /\ \A i \in some : rows[i].at \in Int
  BY SomeRows DEF GoodRows
<1>2. PICK f, g : f = [i \in some |-> rows[i].at] /\ g = [i \in some |-> i]
  OBVIOUS
<1>3. f \in [some -> Int]
  BY <1>1, <1>2
<1>4. PICK m \in some : \A j \in some : f[j] <= f[m]
  BY <1>1, <1>3, SomeGreatest
<1>5. PICK top : top = {i \in some : f[i] = f[m]}
  OBVIOUS
<1>6. top \subseteq some /\ IsFiniteSet(top) /\ top # {}
  <2>1. top \subseteq some /\ top # {}
    BY <1>5
  <2> QED
    BY <1>1, <2>1, FS_Subset
<1>7. PICK h : h = [i \in top |-> i]
  OBVIOUS
<1>8. h \in [top -> Int]
  BY <1>1, <1>6, <1>7
<1>9. PICK i \in top : \A j \in top : h[j] <= h[i]
  BY <1>6, <1>8, SomeGreatest
<1>10. /\ i \in some
       /\ \A j \in some : rows[j].at < rows[i].at \/ (rows[j].at = rows[i].at /\ j <= i)
  <2> SUFFICES ASSUME NEW j \in some
               PROVE  rows[j].at < rows[i].at \/ (rows[j].at = rows[i].at /\ j <= i)
    BY <1>6
  <2>1. rows[j].at \in Int /\ rows[m].at \in Int /\ rows[i].at = rows[m].at
        /\ rows[j].at <= rows[m].at
    BY <1>1, <1>2, <1>4, <1>5, <1>6
  <2>2. rows[j].at = rows[m].at => j <= i
    BY <1>2, <1>5, <1>7, <1>9
  <2> QED
    BY <2>1, <2>2
<1>11. PICK n : n = NewestRow(rows, some)
  OBVIOUS
<1>12. /\ n \in some
       /\ \A j \in some : rows[j].at < rows[n].at \/ (rows[j].at = rows[n].at /\ j <= n)
  BY <1>10, <1>11 DEF NewestRow
<1> QED
  BY <1>1, <1>11, <1>12

\* Rows in the order of time are these rows.
LEMMA OrderedRows ==
  ASSUME NEW rows, GoodRows(rows), NEW some \in SUBSET DOMAIN rows
  PROVE  InOrder(rows, some) \in [1..Cardinality(some) -> some]
<1>1. IsFiniteSet(some) /\ some \subseteq Int /\ \A i \in some : rows[i].at \in Int
  BY SomeRows DEF GoodRows
<1> DEFINE Precedes(i, j) == rows[i].at < rows[j].at \/ (rows[i].at = rows[j].at /\ i < j)
<1>2. PICK R : R = {p \in some \X some : Precedes(p[1], p[2])}
  OBVIOUS
<1>3. \A i, j \in some : <<i, j>> \in R <=> Precedes(i, j)
  BY <1>2
<1>4. Orders(R, some)
  BY <1>1, <1>3 DEF Orders
<1> HIDE DEF Precedes
<1>5. ASSUME NEW k \in 1..Cardinality(some)
      PROVE  \E x \in some : Cardinality({y \in some : Precedes(y, x)}) = k - 1
  <2>1. PICK x \in some : Cardinality(AheadOf(R, some, x)) = k - 1
    BY <1>1, <1>4, <1>5, EveryPlaceIsTaken
  <2>2. AheadOf(R, some, x) = {y \in some : Precedes(y, x)}
    BY <1>3 DEF AheadOf
  <2> QED
    BY <2>1, <2>2
<1>6. InOrder(rows, some) = [k \in 1..Cardinality(some) |->
        CHOOSE x \in some : Cardinality({y \in some : Precedes(y, x)}) = k - 1]
  BY DEF InOrder, Sorted, Precedes
<1> QED
  BY <1>5, <1>6

\* The usual days between purchases are a number.
LEMMA CycleIsNumber ==
  ASSUME NEW rows, GoodRows(rows), NEW some \in SUBSET DOMAIN rows
  PROVE  ExpectedCycle(rows, some) \in Int
<1>1. PICK s, g : s = InOrder(rows, some) /\ g = Gaps(rows, some)
  OBVIOUS
<1>2. PICK n \in Nat : n = Cardinality(some)
  BY SomeRows
<1>3. s \in [1..n -> some] /\ s \in Seq(some) /\ Len(s) = n
  <2>1. s \in [1..n -> some]
    BY <1>1, <1>2, OrderedRows
  <2> QED
    BY <2>1, SeqDef, LenProperties
<1>4. DOMAIN g = 1..(n - 1) /\ \A k \in DOMAIN g : g[k] \in Int
  <2>1. g = [k \in 1..(n - 1) |-> rows[s[k + 1]].at - rows[s[k]].at]
    BY <1>1, <1>3 DEF Gaps
  <2>2. ASSUME NEW k \in 1..(n - 1) PROVE rows[s[k + 1]].at - rows[s[k]].at \in Int
    <3>1. k \in 1..n /\ k + 1 \in 1..n
      BY <1>2
    <3>2. s[k] \in DOMAIN rows /\ s[k + 1] \in DOMAIN rows
      BY <1>3, <3>1
    <3> QED
      BY <3>2 DEF GoodRows
  <2> QED
    BY <2>1, <2>2
<1>5. PICK P : P = {k \in DOMAIN g : g[k] > 0}
  OBVIOUS
<1>6. P \subseteq DOMAIN g /\ P \subseteq Int /\ IsFiniteSet(P)
  <2>1. P \subseteq 1..(n - 1) /\ P \subseteq DOMAIN g
    BY <1>4, <1>5
  <2>2. IsFiniteSet(1..(n - 1))
    BY <1>2, FS_Interval
  <2> QED
    BY <2>1, <2>2, FS_Subset
<1> DEFINE Precedes(i, j) == g[i] < g[j] \/ (g[i] = g[j] /\ i < j)
<1>7. PICK R : R = {p \in P \X P : Precedes(p[1], p[2])}
  OBVIOUS
<1>8. \A i, j \in P : <<i, j>> \in R <=> Precedes(i, j)
  BY <1>7
<1>9. Orders(R, P)
  BY <1>4, <1>6, <1>8 DEF Orders
<1> HIDE DEF Precedes
<1>10. ASSUME NEW k \in 1..Cardinality(P)
       PROVE  \E x \in P : Cardinality({y \in P : Precedes(y, x)}) = k - 1
  <2>1. PICK x \in P : Cardinality(AheadOf(R, P, x)) = k - 1
    BY <1>6, <1>9, <1>10, EveryPlaceIsTaken
  <2>2. AheadOf(R, P, x) = {y \in P : Precedes(y, x)}
    BY <1>8 DEF AheadOf
  <2> QED
    BY <2>1, <2>2
<1>11. PICK m : m = [k \in 1..Cardinality(P) |->
         CHOOSE x \in P : Cardinality({y \in P : Precedes(y, x)}) = k - 1]
  OBVIOUS
<1>12. PICK c \in Nat : c = Cardinality(P)
  BY <1>6, FS_CardinalityType
<1>13. m \in [1..c -> P] /\ Len(m) = c
  <2>1. m \in [1..c -> P]
    BY <1>10, <1>11, <1>12
  <2> QED
    BY <2>1, SeqDef, LenProperties
<1>14. ExpectedCycle(rows, some) =
         IF Len(m) = 0 THEN UsualCycle
         ELSE (g[m[(Len(m) + 1) \div 2]] + g[m[(Len(m) + 2) \div 2]] + 1) \div 2
  BY <1>1, <1>5, <1>11 DEF ExpectedCycle, Sorted, Precedes
<1>15. CASE c = 0
  BY <1>13, <1>14, <1>15, RetentionAssumption
<1>16. CASE c # 0
  <2>1. (c + 1) \div 2 \in 1..c /\ (c + 2) \div 2 \in 1..c
    BY <1>16
  <2>2. m[(c + 1) \div 2] \in DOMAIN g /\ m[(c + 2) \div 2] \in DOMAIN g
    BY <1>6, <1>13, <2>1
  <2>3. PICK a \in Int, b \in Int : a = g[m[(c + 1) \div 2]] /\ b = g[m[(c + 2) \div 2]]
    BY <1>4, <2>2
  <2>4. ExpectedCycle(rows, some) = (a + b + 1) \div 2
    BY <1>13, <1>14, <1>16, <2>3
  <2> QED
    BY <2>4
<1> QED
  BY <1>15, <1>16

\* A purchase falls due on a day.
LEMMA DueIsNumber ==
  ASSUME NEW rows, GoodRows(rows), NEW some \in SUBSET DOMAIN rows, some # {}
  PROVE  DueAt(rows, some) \in Int
<1>1. PICK n : n = NewestRow(rows, some)
  OBVIOUS
<1>2. rows[n].at \in Int /\ rows[n].expires \in Int
  BY <1>1, NewestIs DEF GoodRows
<1>3. PICK c \in Int : c = ExpectedCycle(rows, some)
  BY CycleIsNumber
<1>4. DueAt(rows, some) = IF rows[n].expires > rows[n].at THEN rows[n].expires ELSE rows[n].at + c
  BY <1>1, <1>3 DEF DueAt
<1> QED
  BY <1>2, <1>4

\* So is the cutoff of a file with a row.
LEMMA CutoffIsNumber ==
  ASSUME NEW rows, GoodRows(rows), DOMAIN rows # {}, NEW supplied \in Nat
  PROVE  CutoffOf(rows, supplied) \in Int
<1>1. PICK f : f = [i \in DOMAIN rows |-> rows[i].at]
  OBVIOUS
<1>2. f \in [DOMAIN rows -> Int] /\ IsFiniteSet(DOMAIN rows)
  BY <1>1, SomeRows DEF GoodRows
<1>3. PICK i \in DOMAIN rows : \A j \in DOMAIN rows : f[j] <= f[i]
  BY <1>2, SomeGreatest
<1>4. PICK T : T = {rows[j].at : j \in DOMAIN rows}
  OBVIOUS
<1>5. T \subseteq Int /\ f[i] \in T /\ \A t \in T : f[i] >= t
  BY <1>1, <1>2, <1>3, <1>4
<1>6. Max(T) \in T
  BY <1>5 DEF Max
<1>7. PICK last \in Int : last = Max(T)
  BY <1>5, <1>6
<1> QED
  BY <1>4, <1>7 DEF CutoffOf

\* The least of finitely many numbers is one of them.
LEMMA MinIsOne ==
  ASSUME NEW S, IsFiniteSet(S), S # {}, S \subseteq Int
  PROVE  Min(S) \in S
<1>1. PICK f : f = [x \in S |-> x]
  OBVIOUS
<1>2. f \in [S -> Int]
  BY <1>1
<1>3. \E x \in S : \A y \in S : f[x] <= f[y]
  BY <1>2, SomeLeast
<1> QED
  BY <1>1, <1>3 DEF Min

\* What finitely many things are mapped to are no more, and as many when no two are
\* mapped to the same.
LEMMA ImageOf ==
  ASSUME NEW S, IsFiniteSet(S), NEW f, DOMAIN f = S, f = [x \in S |-> f[x]],
         NEW T, T = {f[x] : x \in S}
  PROVE  /\ IsFiniteSet(T)
         /\ (\A x, y \in S : f[x] = f[y] => x = y) => Cardinality(T) = Cardinality(S)
<1>1. f \in [S -> T] /\ \A t \in T : \E x \in S : f[x] = t
  OBVIOUS
<1>2. f \in Surjection(S, T)
  BY <1>1 DEF Surjection
<1>3. (\A x, y \in S : f[x] = f[y] => x = y) => f \in Injection(S, T)
  BY <1>1 DEF Injection, IsInjective
<1> QED
  BY <1>2, <1>3, FS_Surjection

\* The queue is made of the snapshots that are eligible and fall due.
LEMMA QueueOfSnapshots ==
  ASSUME NEW snapshots, IsFiniteSet(snapshots),
         \A s \in snapshots : s.days \in Int /\ s.place \in Int,
         \A s, t \in snapshots : s.place = t.place => s = t,
         NEW queue, queue = DecisionQueue(snapshots), NEW i \in DOMAIN queue
  PROVE  \E s \in snapshots : s.eligible /\ s.state # "active" /\ queue[i] = QueueItem(s)
<1>1. PICK S : S = {s \in snapshots : s.eligible /\ s.state # "active"}
  OBVIOUS
<1>2. S \subseteq snapshots /\ IsFiniteSet(S)
  <2>1. S \subseteq snapshots
    BY <1>1
  <2> QED
    BY <2>1, FS_Subset
<1> DEFINE Precedes(d, e) == d.days > e.days \/ (d.days = e.days /\ d.place < e.place)
<1>3. PICK R : R = {p \in S \X S : Precedes(p[1], p[2])}
  OBVIOUS
<1>4. \A d, e \in S : <<d, e>> \in R <=> Precedes(d, e)
  BY <1>3
<1>5. Orders(R, S)
  <2>1. \A s \in S : s.days \in Int /\ s.place \in Int
    BY <1>2
  <2>2. \A x \in S : <<x, x>> \notin R
    BY <1>4, <2>1
  <2>3. \A x, y, z \in S : <<x, y>> \in R /\ <<y, z>> \in R => <<x, z>> \in R
    BY <1>4, <2>1
  <2>4. \A x, y \in S : x # y => <<x, y>> \in R \/ <<y, x>> \in R
    <3> SUFFICES ASSUME NEW x \in S, NEW y \in S, x # y
                 PROVE  Precedes(x, y) \/ Precedes(y, x)
      BY <1>4
    <3>1. x.place # y.place
      BY <1>2
    <3> QED
      BY <2>1, <3>1
  <2> QED
    BY <2>2, <2>3, <2>4 DEF Orders
<1> HIDE DEF Precedes
<1>6. PICK sorted : sorted = [k \in 1..Cardinality(S) |->
         CHOOSE x \in S : Cardinality({y \in S : Precedes(y, x)}) = k - 1]
  OBVIOUS
<1>7. \A k \in DOMAIN sorted : sorted[k] \in S
  <2> SUFFICES ASSUME NEW k \in 1..Cardinality(S)
               PROVE  \E x \in S : Cardinality({y \in S : Precedes(y, x)}) = k - 1
    BY <1>6
  <2>1. PICK x \in S : Cardinality(AheadOf(R, S, x)) = k - 1
    BY <1>2, <1>5, EveryPlaceIsTaken
  <2>2. AheadOf(R, S, x) = {y \in S : Precedes(y, x)}
    BY <1>4 DEF AheadOf
  <2> QED
    BY <2>1, <2>2
<1>8. queue = [k \in DOMAIN sorted |-> QueueItem(sorted[k])]
  BY <1>1, <1>6 DEF DecisionQueue, Sorted, Precedes
<1> QED
  BY <1>1, <1>7, <1>8

\* What there is to know of the snapshot of a unit that was bought.
LEMMA SnapshotIs ==
  ASSUME NEW rows, GoodRows(rows), NEW cutoff \in Int, NEW l, NEW unit,
         NEW P, P = PurchasesOf(rows, cutoff, unit), P # {},
         NEW s, s = SnapshotOf(rows, cutoff, l, unit)
  PROVE  /\ P \subseteq DOMAIN rows
         /\ s.unit = unit /\ s.place \in P /\ s.place \in Int
         /\ s.days = cutoff - DueAt(rows, P) /\ s.days \in Int
         /\ s.state = StateOf(s.days, l)
         /\ s.eligible <=> Cardinality(P) >= l.least
<1>1. P \subseteq DOMAIN rows
  BY DEF PurchasesOf, CleanRows
<1>2. IsFiniteSet(P) /\ P \subseteq Int
  BY <1>1, SomeRows
<1>3. Min(P) \in P
  BY <1>2, MinIsOne
<1>4. PICK due \in Int : due = DueAt(rows, P)
  BY <1>1, DueIsNumber
<1>5. PICK days, state, place, eligible :
        /\ days = cutoff - due /\ state = StateOf(days, l) /\ place = Min(P)
        /\ eligible = (Cardinality(P) >= l.least)
  OBVIOUS
<1>6. s = [unit |-> unit, days |-> days, state |-> state, place |-> place, eligible |-> eligible]
  BY <1>4, <1>5 DEF SnapshotOf
<1>7. s.eligible <=> Cardinality(P) >= l.least
  <2>1. s.eligible = eligible
    BY <1>6
  <2> QED
    BY <1>5, <2>1, Zenon
<1>8. /\ s.unit = unit /\ s.place = place /\ s.days = days /\ s.state = state
  BY <1>6
<1> QED
  BY <1>1, <1>2, <1>3, <1>4, <1>5, <1>7, <1>8

\* What the mapping leaves of a row.
LEMMA RowsMapped ==
  ASSUME NEW file \in Files, NEW mapping \in Mappings, NEW rows, rows = MappedRows(file, mapping)
  PROVE  /\ GoodRows(rows) /\ DOMAIN rows = DOMAIN file
         /\ \A i \in DOMAIN file : rows[i].contact = NoContact \/ mapping = "whole"
         /\ mapping = "whole" => rows = file
<1>1. /\ file \in Seq(ToSet(file))
      /\ \A i \in DOMAIN file : /\ DOMAIN file[i] = RowFields
                               /\ file[i].at \in Int /\ file[i].expires \in Int
  BY RetentionAssumption
<1>2. /\ rows = [i \in DOMAIN file |-> rows[i]] /\ DOMAIN rows = DOMAIN file
      /\ \A i \in DOMAIN file :
           rows[i] = IF mapping = "whole" THEN file[i] ELSE [file[i] EXCEPT !.contact = NoContact]
  BY DEF MappedRows
<1>3. \A i \in DOMAIN file :
        /\ rows[i].at = file[i].at /\ rows[i].expires = file[i].expires
        /\ mapping # "whole" => rows[i].contact = NoContact
  BY <1>1, <1>2 DEF RowFields
<1>4. rows \in Seq(ToSet(rows))
  <2>1. Len(file) \in Nat /\ DOMAIN file = 1..Len(file)
    BY <1>1
  <2>2. \A i \in DOMAIN file : rows[i] \in ToSet(rows)
    BY <1>2 DEF ToSet
  <2>3. rows \in [1..Len(file) -> ToSet(rows)]
    BY <1>2, <2>1, <2>2
  <2> QED
    BY <2>1, <2>3, SeqDef
<1>5. mapping = "whole" => rows = file
  <2>1. file = [i \in DOMAIN file |-> file[i]]
    BY <1>1
  <2> QED
    BY <1>2, <2>1
<1> QED
  BY <1>1, <1>2, <1>3, <1>4, <1>5 DEF GoodRows

\* What an exported decision needs.
Deserves(file, c, supplied, unit) ==
  LET l == c.lifecycle
      theirs == {i \in DOMAIN file : file[i].customer = unit[1]}
      bought == {i \in theirs : file[i].product = unit[2] /\ file[i].paid}
      cutoff == CutoffOf(file, supplied)
  IN
  /\ c.mapping = "whole"
  /\ \A i \in DOMAIN file : file[i].sound
  /\ \E i \in theirs : /\ \A j \in theirs : file[j].at <= file[i].at
                       /\ Permitted(file[i].contact)
  /\ Cardinality({file[i].txn : i \in bought}) >= l.least
  /\ cutoff - DueAt(file, PurchasesOf(file, cutoff, unit)) \in l.due..(l.lost - 1)

\* An allowed decision has it.
LEMMA AllowedDeserves ==
  ASSUME NEW file \in Files, NEW c, c.mapping \in Mappings, c.lifecycle \in Lifecycles,
         Ascending(c.lifecycle), NEW supplied \in Cutoffs,
         NEW queue, queue = QueueOf(file, c, supplied),
         NEW i \in DOMAIN queue, queue[i].allowed
  PROVE  Deserves(file, c, supplied, queue[i].unit)
<1>1. PICK rows, l, cutoff : /\ rows = MappedRows(file, c.mapping) /\ l = c.lifecycle
                             /\ cutoff = CutoffOf(rows, supplied)
  OBVIOUS
<1>2. /\ GoodRows(rows) /\ DOMAIN rows = DOMAIN file
      /\ \A k \in DOMAIN file : rows[k].contact = NoContact \/ c.mapping = "whole"
      /\ c.mapping = "whole" => rows = file
  BY <1>1, RowsMapped
<1>3. /\ l.due \in Int /\ l.lapsed \in Int /\ l.dormant \in Int /\ l.lost \in Int /\ l.least \in Int
      /\ l.due < l.lapsed /\ l.lapsed < l.dormant /\ l.dormant < l.lost
      /\ supplied \in Nat
  BY <1>1, RetentionAssumption DEF Ascending
<1>4. PICK clean, snapshots :
        /\ clean = CleanRows(rows, cutoff)
        /\ snapshots = {SnapshotOf(rows, cutoff, l, u) : u \in {UnitOf(rows[k]) : k \in clean}}
  OBVIOUS
<1>5. PICK sorted : sorted = DecisionQueue(snapshots)
  OBVIOUS
<1>6. ~NeedsDataFix(rows) /\ queue = WithPermissions(sorted, rows)
  <2>1. queue = IF NeedsDataFix(rows) THEN <<>> ELSE WithPermissions(sorted, rows)
    BY <1>1, <1>4, <1>5 DEF QueueOf
  <2>2. DOMAIN <<>> = {}
    OBVIOUS
  <2> QED
    BY <2>1, <2>2
<1>7. /\ i \in DOMAIN sorted /\ queue[i].unit = sorted[i].unit
      /\ Permitted(ContactOf(rows, sorted[i].unit[1])) /\ sorted[i].action # "no_action"
  <2>1. i \in DOMAIN sorted
    BY <1>6 DEF WithPermissions
  <2>2. PICK item, contact : item = sorted[i] /\ contact = ContactOf(rows, item.unit[1])
    OBVIOUS
  <2>3. PICK ok : ok = (Permitted(contact) /\ item.action # "no_action")
    OBVIOUS
  <2>4. queue[i] = [unit |-> item.unit, state |-> item.state, recorded |-> RecordedFields(contact),
                    allowed |-> ok]
    BY <1>6, <2>1, <2>2, <2>3 DEF WithPermissions
  <2>5. queue[i].allowed = ok /\ queue[i].unit = item.unit
    BY <2>4
  <2> QED
    BY <2>1, <2>2, <2>3, <2>5
<1>8. clean \subseteq DOMAIN rows /\ IsFiniteSet(clean)
  <2>1. clean \subseteq DOMAIN rows
    BY <1>4 DEF CleanRows
  <2> QED
    BY <1>2, <2>1, SomeRows
<1>9. PICK f : f = [k \in clean |-> SnapshotOf(rows, cutoff, l, UnitOf(rows[k]))]
  OBVIOUS
<1>10. snapshots = {f[k] : k \in clean}
  BY <1>4, <1>9
<1>11. ASSUME NEW k \in clean
       PROVE  /\ cutoff \in Int
              /\ k \in PurchasesOf(rows, cutoff, UnitOf(rows[k]))
  BY <1>1, <1>2, <1>3, <1>4, <1>8, CutoffIsNumber DEF PurchasesOf
<1>12. ASSUME NEW k \in clean
       PROVE  LET P == PurchasesOf(rows, cutoff, UnitOf(rows[k])) s == f[k] IN
              /\ P \subseteq DOMAIN rows
              /\ s.unit = UnitOf(rows[k]) /\ s.place \in P /\ s.place \in Int
              /\ s.days = cutoff - DueAt(rows, P) /\ s.days \in Int
              /\ s.state = StateOf(s.days, l)
              /\ s.eligible <=> Cardinality(P) >= l.least
  <2>1. PICK P, s : P = PurchasesOf(rows, cutoff, UnitOf(rows[k])) /\ s = f[k]
    OBVIOUS
  <2>2. P # {} /\ cutoff \in Int /\ s = SnapshotOf(rows, cutoff, l, UnitOf(rows[k]))
    BY <1>9, <1>11, <2>1
  <2> QED
    BY <1>2, <2>1, <2>2, SnapshotIs
<1>13. IsFiniteSet(snapshots)
  BY <1>8, <1>9, <1>10, ImageOf
<1>14. \A s \in snapshots : s.days \in Int /\ s.place \in Int
  BY <1>10, <1>12
<1>15. ASSUME NEW s \in snapshots, NEW t \in snapshots, s.place = t.place
       PROVE  s = t
  <2>1. PICK j \in clean, k \in clean : s = f[j] /\ t = f[k]
    BY <1>10
  <2>2. /\ s.place \in PurchasesOf(rows, cutoff, UnitOf(rows[j]))
        /\ t.place \in PurchasesOf(rows, cutoff, UnitOf(rows[k]))
    BY <1>12, <2>1
  <2>3. UnitOf(rows[j]) = UnitOf(rows[k])
    BY <1>15, <2>2 DEF PurchasesOf
  <2> QED
    BY <1>9, <2>1, <2>3
<1>16. PICK s \in snapshots : s.eligible /\ s.state # "active" /\ sorted[i] = QueueItem(s)
  BY <1>5, <1>7, <1>13, <1>14, <1>15, QueueOfSnapshots
<1>17. PICK k \in clean : s = f[k]
  BY <1>10, <1>16
<1>18. PICK unit, P : unit = UnitOf(rows[k]) /\ P = PurchasesOf(rows, cutoff, unit)
  OBVIOUS
<1>19. /\ P \subseteq DOMAIN rows /\ s.unit = unit
       /\ s.days = cutoff - DueAt(rows, P) /\ s.days \in Int
       /\ s.state = StateOf(s.days, l) /\ Cardinality(P) >= l.least
  BY <1>12, <1>16, <1>17, <1>18
<1>20. sorted[i].unit = unit /\ queue[i].unit = unit /\ sorted[i].action = ActionFor(s.state)
  BY <1>7, <1>16, <1>19 DEF QueueItem
<1>21. unit[1] = rows[k].customer /\ unit[2] = rows[k].product
  BY <1>18 DEF UnitOf
<1>22. PICK theirs : theirs = {j \in DOMAIN rows : rows[j].customer = unit[1]}
  OBVIOUS
<1>23. PICK n : n = NewestRow(rows, theirs)
  OBVIOUS
<1>24. n \in theirs /\ \A j \in theirs : rows[j].at <= rows[n].at
  <2>1. theirs \subseteq DOMAIN rows /\ k \in theirs
    BY <1>8, <1>21, <1>22
  <2> QED
    BY <1>2, <1>23, <2>1, NewestIs
<1>25. Permitted(rows[n].contact)
  BY <1>7, <1>20, <1>22, <1>23 DEF ContactOf
<1>26. c.mapping = "whole" /\ rows = file
  BY <1>2, <1>22, <1>24, <1>25 DEF Permitted, NoContact
<1>27. s.days \in l.due..(l.lost - 1)
  <2>1. s.state \in {"due", "lapsed", "dormant"}
    BY <1>7, <1>20 DEF ActionFor
  <2> QED
    BY <1>3, <1>19, <2>1 DEF StateOf
<1>28. \A j \in DOMAIN file : file[j].sound
  BY <1>6, <1>26 DEF NeedsDataFix
<1>29. PICK bought, T : /\ bought = {j \in theirs : rows[j].product = unit[2] /\ rows[j].paid}
                        /\ T = {rows[j].txn : j \in bought}
  OBVIOUS
<1>30. Cardinality(T) >= l.least
  <2>1. P \subseteq bought /\ \A x, y \in P : rows[x].txn = rows[y].txn => x = y
    <3>1. P \subseteq clean /\ \A x \in P : UnitOf(rows[x]) = unit
      BY <1>4, <1>18 DEF PurchasesOf
    <3>2. \A x \in P : rows[x].customer = unit[1] /\ rows[x].product = unit[2]
      BY <3>1 DEF UnitOf
    <3>3. \A x \in clean : /\ x \in DOMAIN rows /\ rows[x].paid
                           /\ \A y \in clean : y < x => rows[y].txn # rows[x].txn
      BY <1>4 DEF CleanRows
    <3>4. P \subseteq Int
      BY <1>2, <1>19, SomeRows
    <3>5. \A x, y \in P : rows[x].txn = rows[y].txn => x = y
      BY <3>1, <3>3, <3>4
    <3> QED
      BY <1>22, <1>29, <3>1, <3>2, <3>3, <3>5
  <2>2. IsFiniteSet(P) /\ IsFiniteSet(bought) /\ Cardinality(P) \in Nat
    <3>1. bought \subseteq DOMAIN rows
      BY <1>22, <1>29
    <3> QED
      BY <1>2, <1>19, <3>1, SomeRows
  <2>3. PICK g, h, own : /\ g = [x \in P |-> rows[x].txn] /\ h = [x \in bought |-> rows[x].txn]
                         /\ own = {g[x] : x \in P}
    OBVIOUS
  <2>4. Cardinality(own) = Cardinality(P)
    <3>1. \A x, y \in P : g[x] = g[y] => x = y
      BY <2>1, <2>3
    <3> QED
      BY <2>2, <2>3, <3>1, ImageOf
  <2>5. IsFiniteSet(T)
    <3>1. T = {h[x] : x \in bought}
      BY <1>29, <2>3
    <3> QED
      BY <2>2, <2>3, <3>1, ImageOf
  <2>6. own \subseteq T
    BY <1>29, <2>1, <2>3
  <2>7. Cardinality(own) <= Cardinality(T) /\ Cardinality(T) \in Nat
    BY <2>5, <2>6, FS_Subset, FS_CardinalityType
  <2> QED
    BY <1>3, <1>19, <2>2, <2>4, <2>7
<1>31. cutoff - DueAt(file, PurchasesOf(file, cutoff, unit)) \in l.due..(l.lost - 1)
  BY <1>18, <1>19, <1>26, <1>27
<1>32. \E j \in theirs : /\ \A x \in theirs : file[x].at <= file[j].at
                          /\ Permitted(file[j].contact)
  BY <1>24, <1>25, <1>26
<1>33. /\ theirs = {j \in DOMAIN file : file[j].customer = unit[1]}
       /\ bought = {j \in theirs : file[j].product = unit[2] /\ file[j].paid}
       /\ T = {file[j].txn : j \in bought}
       /\ cutoff = CutoffOf(file, supplied)
  BY <1>1, <1>22, <1>26, <1>29
<1>34. Deserves(file, c, supplied, unit)
  BY <1>1, <1>26, <1>28, <1>30, <1>31, <1>32, <1>33 DEF Deserves
<1> QED
  BY <1>20, <1>34

\* Settings the server accepts.
GoodConfig(c) == c.mapping \in Mappings /\ c.lifecycle \in Lifecycles /\ Ascending(c.lifecycle)

\* What an analysis is made of.
MadeOf(a) == a.file \in Files /\ a.cutoff \in Cutoffs /\ GoodConfig(a.snapshot)

\* Whoever reads the settings reads good ones, and whoever stores some stores good
\* ones, with an analysis of a file under such settings.
AudienceInv ==
  /\ GoodConfig(config)
  /\ \A i \in DOMAIN analyses : MadeOf(analyses[i])
  /\ \A r \in RetentionCalls :
       /\ call[r].pc \in {"updating", "importing"} => GoodConfig(call[r].config)
       /\ call[r].pc = "importing" => MadeOf(call[r].record)

\* A step that stores neither settings nor analysis.
LEMMA CallKeepsAudience ==
  ASSUME RetentionInv, AudienceInv, NEW r \in RetentionCalls, NEW x,
         call' = [call EXCEPT ![r] = x], UNCHANGED <<config, analyses>>,
         x.pc \in {"updating", "importing"} => GoodConfig(x.config),
         x.pc = "importing" => MadeOf(x.record)
  PROVE  AudienceInv'
<1>1. \A c \in RetentionCalls : call'[c] = IF c = r THEN x ELSE call[c]
  BY DEF RetentionInv
<1>2. config' = config /\ analyses' = analyses
  OBVIOUS
<1> QED
  BY <1>1, <1>2 DEF AudienceInv, GoodConfig, MadeOf

\* One that stores settings, and perhaps an analysis, it had ready.
LEMMA StoreKeepsAudience ==
  ASSUME RetentionInv, AudienceInv, NEW r \in RetentionCalls, NEW x,
         x.pc \notin {"updating", "importing"}, call' = [call EXCEPT ![r] = x],
         call[r].pc \in {"updating", "importing"}, config' = call[r].config,
         \/ analyses' = analyses
         \/ call[r].pc = "importing" /\ analyses' = Append(analyses, call[r].record)
  PROVE  AudienceInv'
<1>1. \A c \in RetentionCalls : call'[c] = IF c = r THEN x ELSE call[c]
  BY DEF RetentionInv
<1>2. GoodConfig(config')
  BY DEF AudienceInv
<1>3. \A i \in DOMAIN analyses' : MadeOf(analyses'[i])
  <2>1. CASE analyses' = analyses
    BY <2>1 DEF AudienceInv
  <2>2. CASE call[r].pc = "importing" /\ analyses' = Append(analyses, call[r].record)
    <3>1. PICK s, a : s = analyses /\ a = call[r].record
      OBVIOUS
    <3>2. s \in Seq(ToSet(s)) /\ MadeOf(a) /\ \A i \in DOMAIN s : MadeOf(s[i])
      BY <2>2, <3>1 DEF RetentionInv, AudienceInv
    <3>3. \A i \in DOMAIN Append(s, a) : Append(s, a)[i] = a \/ (i \in DOMAIN s /\ Append(s, a)[i] = s[i])
      BY <3>2
    <3>4. analyses' = Append(s, a)
      BY <2>2, <3>1
    <3> QED
      BY <3>2, <3>3, <3>4
  <2> QED
    BY <2>1, <2>2
<1> QED
  BY <1>1, <1>2, <1>3 DEF AudienceInv, GoodConfig, MadeOf

\* Settings, analyses and requests stay as good as they were read.
LEMMA AudienceInvHolds ==
  RetentionSpec => []AudienceInv
<1>1. RetentionInit => AudienceInv
  <2> SUFFICES ASSUME RetentionInit PROVE AudienceInv
    OBVIOUS
  <2>1. GoodConfig(config)
    BY DEF RetentionInit, GoodConfig, Mappings
  <2> QED
    BY <2>1 DEF RetentionInit, AudienceInv, Resting
<1>2. RetentionInv /\ AudienceInv /\ [RetentionNext]_retentionVars => AudienceInv'
  <2> SUFFICES ASSUME RetentionInv, AudienceInv, [RetentionNext]_retentionVars
      PROVE  AudienceInv'
    OBVIOUS
  <2>1. CASE UNCHANGED retentionVars
    BY <2>1 DEF retentionVars, AudienceInv, GoodConfig, MadeOf
  <2>2. ASSUME NEW r \in RetentionCalls,
               NEW lifecycles \in SUBSET (Lifecycles \cup {config.lifecycle}),
               NEW mappings \in SUBSET Mappings, NEW next,
               BeginUpdate(r, lifecycles, mappings, next)
        PROVE  AudienceInv'
    <3>1. PICK l \in lifecycles, mapping \in mappings :
            /\ Ascending(l)
            /\ call' = [call EXCEPT ![r] =
                 [pc |-> "updating", next |-> next,
                  config |-> [lifecycle |-> l, mapping |-> mapping]]]
      BY <2>2 DEF BeginUpdate
    <3>2. PICK x : x = [pc |-> "updating", next |-> next,
                        config |-> [lifecycle |-> l, mapping |-> mapping]]
      OBVIOUS
    <3>3. x.pc = "updating" /\ GoodConfig(x.config)
      BY <3>1, <3>2 DEF GoodConfig, AudienceInv
    <3>4. call' = [call EXCEPT ![r] = x] /\ UNCHANGED <<config, analyses>>
      BY <2>2, <3>1, <3>2 DEF BeginUpdate
    <3> QED
      BY <3>3, <3>4, CallKeepsAudience
  <2>3. ASSUME NEW r \in RetentionCalls, BeginDemo(r)
        PROVE  AudienceInv'
    <3>1. BeginUpdate(r, Lifecycles, {"whole"}, Demonstrating)
      BY <2>3 DEF BeginDemo
    <3>2. Lifecycles \in SUBSET (Lifecycles \cup {config.lifecycle}) /\ {"whole"} \in SUBSET Mappings
      BY DEF Mappings
    <3> QED
      BY <2>2, <3>1, <3>2
  <2>4. ASSUME NEW r \in RetentionCalls, StoreConfig(r)
        PROVE  AudienceInv'
    <3>1. PICK next \in {Resting, Demonstrating} : call' = [call EXCEPT ![r] = next]
      BY <2>4 DEF StoreConfig, RetentionInv
    <3>2. next.pc \notin {"updating", "importing"}
      BY DEF Resting, Demonstrating
    <3> QED
      BY <2>4, <3>1, <3>2, StoreKeepsAudience DEF StoreConfig
  <2>5. ASSUME NEW r \in RetentionCalls, NEW file \in Files, NEW supplied \in Cutoffs,
               NEW mapping \in Mappings, BeginImportRetention(r, file, supplied, mapping)
        PROVE  AudienceInv'
    <3>1. PICK used : used = [lifecycle |-> config.lifecycle, mapping |-> mapping]
      OBVIOUS
    <3>2. PICK a : a = [createdAt |-> drawn, file |-> file, cutoff |-> supplied,
                        hash |-> HashedAsUsed(config, used), snapshot |-> used,
                        queue |-> QueueOf(file, used, supplied),
                        status |-> WorkspaceStatus(
                          Readiness(MappedRows(file, mapping), used.lifecycle))]
      OBVIOUS
    <3>3. PICK x : x = [pc |-> "importing", config |-> used, record |-> a]
      OBVIOUS
    <3>4. GoodConfig(used) /\ MadeOf(a)
      <4>1. GoodConfig(used)
        BY <3>1 DEF GoodConfig, AudienceInv
      <4>2. a.file = file /\ a.cutoff = supplied /\ a.snapshot = used
        BY <3>2
      <4> QED
        BY <4>1, <4>2 DEF MadeOf
    <3>5. call' = [call EXCEPT ![r] = x] /\ UNCHANGED <<config, analyses>>
      BY <2>5, <3>1, <3>2, <3>3 DEF BeginImportRetention
    <3>6. x.config = used /\ x.record = a
      BY <3>3
    <3> QED
      BY <3>4, <3>5, <3>6, CallKeepsAudience
  <2>6. ASSUME NEW r \in RetentionCalls, StoreAnalysis(r)
        PROVE  AudienceInv'
    <3>1. Resting.pc \notin {"updating", "importing"}
      BY DEF Resting
    <3> QED
      BY <2>6, <3>1, StoreKeepsAudience DEF StoreAnalysis
  <2>7. ASSUME NEW r \in RetentionCalls, NEW capacity, NEW excluded,
               BeginShadowRun(r, capacity, excluded)
        PROVE  AudienceInv'
    <3>1. PICK x : x = [pc |-> "shadowing", run |-> ShadowRunOf(LatestRecord, capacity, excluded)]
      OBVIOUS
    <3>2. call' = [call EXCEPT ![r] = x] /\ UNCHANGED <<config, analyses>>
      BY <2>7, <3>1 DEF BeginShadowRun
    <3>3. x.pc = "shadowing"
      BY <3>1
    <3> QED
      BY <3>2, <3>3, CallKeepsAudience
  <2>8. ASSUME NEW r \in RetentionCalls, StoreShadowRun(r) \/ RetentionFails(r)
        PROVE  AudienceInv'
    <3>1. call' = [call EXCEPT ![r] = Resting] /\ UNCHANGED <<config, analyses>>
      BY <2>8 DEF StoreShadowRun, RetentionFails
    <3>2. Resting.pc = "idle"
      BY DEF Resting
    <3> QED
      BY <3>1, <3>2, CallKeepsAudience
  <2> QED
    <3>1. CASE RetentionNext
      <4>1. PICK r \in RetentionCalls :
              \/ BeginUpdate(r, Lifecycles \cup {config.lifecycle}, Mappings, Resting)
              \/ BeginDemo(r) \/ StoreConfig(r) \/ StoreAnalysis(r)
              \/ \E file \in Files, supplied \in Cutoffs, mapping \in Mappings :
                   BeginImportRetention(r, file, supplied, mapping)
              \/ \E capacity \in 1..2, excluded \in Exclusions :
                   BeginShadowRun(r, capacity, excluded)
              \/ StoreShadowRun(r) \/ RetentionFails(r)
        BY <3>1 DEF RetentionNext
      <4> QED
        BY <2>2, <2>3, <2>4, <2>5, <2>6, <2>7, <2>8, <4>1
    <3> QED
      BY <2>1, <3>1
<1> QED
  BY <1>1, <1>2, RetentionInvInductive, PTL DEF RetentionSpec

\* Whatever is imported under whichever settings, an exported decision is for somebody
\* who may be contacted, of a product that is due, of a file that is sound.
THEOREM AudienceIsPermitted ==
  RetentionSpec => []AudiencePermitted
<1>1. RetentionInv /\ AudienceInv => AudiencePermitted
  <2> SUFFICES ASSUME RetentionInv, AudienceInv, NEW k \in DOMAIN analyses,
                      NEW unit \in Audience(analyses[k].queue)
               PROVE  Deserves(analyses[k].file, analyses[k].snapshot, analyses[k].cutoff, unit)
    BY DEF AudiencePermitted, Deserves
  <2>1. PICK a, queue : a = analyses[k] /\ queue = a.queue
    OBVIOUS
  <2>2. /\ a.file \in Files /\ a.cutoff \in Cutoffs /\ GoodConfig(a.snapshot)
        /\ queue = QueueOf(a.file, a.snapshot, a.cutoff)
    BY <2>1 DEF RetentionInv, GoodRecord, AudienceInv, MadeOf
  <2>3. PICK i \in DOMAIN queue : queue[i].allowed /\ unit = queue[i].unit
    BY <2>1 DEF Audience, AudienceRows
  <2> QED
    BY <2>1, <2>2, <2>3, AllowedDeserves DEF GoodConfig
<1> QED
  BY <1>1, RetentionInvInductive, AudienceInvHolds, PTL

-----------------------------------------------------------------------------
(* Shadow runs                                                             *)

\* Numbers in their order: each place is that of one of them, and of one only.
LEMMA PlacesInOrder ==
  ASSUME NEW S \in SUBSET Int, IsFiniteSet(S),
         NEW sorted, sorted = Places(S)
  PROVE  /\ Cardinality(S) \in Nat /\ DOMAIN sorted = 1..Cardinality(S)
         /\ \A k \in DOMAIN sorted : sorted[k] \in S
         /\ \A j, k \in DOMAIN sorted : sorted[j] = sorted[k] => j = k
<1>1. PICK n \in Nat : n = Cardinality(S)
  BY FS_CardinalityType
<1>0. sorted = [k \in 1..Cardinality(S) |->
                  CHOOSE x \in S : Cardinality({y \in S : y < x}) = k - 1]
  BY DEF Places, Sorted
<1>2. PICK R : R = {p \in S \X S : p[1] < p[2]}
  OBVIOUS
<1>3. \A d, e \in S : <<d, e>> \in R <=> d < e
  BY <1>2
<1>4. Orders(R, S)
  <2>1. \A x \in S : x \in Int
    OBVIOUS
  <2>2. \A x \in S : <<x, x>> \notin R
    BY <1>3, <2>1
  <2>3. \A x, y, z \in S : <<x, y>> \in R /\ <<y, z>> \in R => <<x, z>> \in R
    BY <1>3, <2>1
  <2>4. \A x, y \in S : x # y => <<x, y>> \in R \/ <<y, x>> \in R
    BY <1>3, <2>1
  <2> QED
    BY <2>2, <2>3, <2>4 DEF Orders
<1>5. ASSUME NEW k \in 1..Cardinality(S)
      PROVE  sorted[k] \in S /\ Cardinality({y \in S : y < sorted[k]}) = k - 1
  <2>1. PICK x \in S : Cardinality(AheadOf(R, S, x)) = k - 1
    BY <1>4, EveryPlaceIsTaken
  <2>2. AheadOf(R, S, x) = {y \in S : y < x}
    BY <1>3 DEF AheadOf
  <2>3. sorted[k] = CHOOSE z \in S : Cardinality({y \in S : y < z}) = k - 1
    BY <1>0
  <2>4. Cardinality({y \in S : y < x}) = k - 1
    BY <2>1, <2>2
  <2> QED
    BY <2>3, <2>4
<1>6. Cardinality(S) \in Nat /\ DOMAIN sorted = 1..Cardinality(S)
  BY <1>0, <1>1
<1>7. ASSUME NEW j \in 1..Cardinality(S), NEW k \in 1..Cardinality(S), sorted[j] = sorted[k]
      PROVE  j = k
  <2>1. j - 1 = k - 1
    BY <1>5, <1>7
  <2>2. j \in 1..n /\ k \in 1..n
    BY <1>1
  <2> QED
    BY <2>1, <2>2
<1> QED
  BY <1>5, <1>6, <1>7

\* A queue has its decisions one after the other.
LEMMA QueueIsNumbered ==
  ASSUME NEW file \in Files, NEW c, c.mapping \in Mappings, NEW supplied,
         NEW queue, queue = QueueOf(file, c, supplied)
  PROVE  \E n \in Nat : DOMAIN queue = 1..n
<1>1. PICK rows, cutoff, clean, units, snapshots :
        /\ rows = MappedRows(file, c.mapping) /\ cutoff = CutoffOf(rows, supplied)
        /\ clean = CleanRows(rows, cutoff)
        /\ units = {UnitOf(rows[i]) : i \in clean}
        /\ snapshots = {SnapshotOf(rows, cutoff, c.lifecycle, u) : u \in units}
  OBVIOUS
<1>2. PICK sorted : sorted = DecisionQueue(snapshots)
  OBVIOUS
<1>3. queue = IF NeedsDataFix(rows) THEN <<>> ELSE WithPermissions(sorted, rows)
  BY <1>1, <1>2 DEF QueueOf
<1>4. IsFiniteSet(snapshots)
  <2>1. clean \subseteq DOMAIN rows /\ GoodRows(rows)
    BY <1>1, RowsMapped DEF CleanRows
  <2>2. IsFiniteSet(clean)
    BY <2>1, SomeRows
  <2>3. PICK f : f = [k \in clean |-> SnapshotOf(rows, cutoff, c.lifecycle, UnitOf(rows[k]))]
    OBVIOUS
  <2>4. snapshots = {f[k] : k \in clean}
    BY <1>1, <2>3
  <2> QED
    BY <2>2, <2>3, <2>4, ImageOf
<1>5. PICK S : S = {s \in snapshots : s.eligible /\ s.state # "active"}
  OBVIOUS
<1>6. IsFiniteSet(S)
  <2>1. S \subseteq snapshots
    BY <1>5
  <2> QED
    BY <1>4, <2>1, FS_Subset
<1>7. Cardinality(S) \in Nat
  BY <1>6, FS_CardinalityType
<1>8. DOMAIN sorted = 1..Cardinality(S)
  BY <1>2, <1>5 DEF DecisionQueue, Sorted
<1>9. DOMAIN WithPermissions(sorted, rows) = DOMAIN sorted
  BY DEF WithPermissions
<1>10. CASE NeedsDataFix(rows)
  <2>1. DOMAIN queue = 1..0
    BY <1>3, <1>10
  <2> QED
    BY <2>1
<1>11. CASE ~NeedsDataFix(rows)
  BY <1>3, <1>7, <1>8, <1>9, <1>11
<1> QED
  BY <1>10, <1>11

\* Of the decisions of one customer one is kept.
LEMMA OnceEach ==
  ASSUME NEW queue, NEW n \in Nat, DOMAIN queue = 1..n,
         NEW once, once = Deduplicated(queue)
  PROVE  /\ \E m \in Nat : DOMAIN once = 1..m
         /\ \A k \in DOMAIN once : \E i \in DOMAIN queue : once[k] = queue[i]
         /\ \A j, k \in DOMAIN once : once[j].unit[1] = once[k].unit[1] => j = k
<1> DEFINE own(i) == {j \in DOMAIN queue : queue[j].unit[1] = queue[i].unit[1]}
           best(i) == MostUrgent(queue, own(i))
           S == {i \in DOMAIN queue : i = Min(own(i))}
<1>1. PICK firsts : firsts = Places(S)
  OBVIOUS
<1>2. once = [i \in DOMAIN firsts |-> queue[best(firsts[i])]]
  BY <1>1 DEF Deduplicated
<1>3. IsFiniteSet(DOMAIN queue) /\ DOMAIN queue \subseteq Int
  BY FS_Interval
<1>4. S \in SUBSET Int /\ IsFiniteSet(S)
  <2>1. S \subseteq DOMAIN queue
    OBVIOUS
  <2> QED
    BY <1>3, <2>1, FS_Subset
<1>5. /\ Cardinality(S) \in Nat /\ DOMAIN firsts = 1..Cardinality(S)
      /\ \A k \in DOMAIN firsts : firsts[k] \in S
      /\ \A j, k \in DOMAIN firsts : firsts[j] = firsts[k] => j = k
  <2> HIDE DEF S
  <2> QED
    BY <1>1, <1>4, PlacesInOrder
<1>6. ASSUME NEW i \in DOMAIN queue
      PROVE  best(i) \in own(i)
  <2>1. PICK T, U : T = own(i) /\ U = [j \in T |-> Urgency(queue[j].state)]
    OBVIOUS
  <2>2. IsFiniteSet(T) /\ i \in T /\ T \subseteq DOMAIN queue
    <3>1. i \in T /\ T \subseteq DOMAIN queue
      BY <2>1
    <3> QED
      BY <1>3, <3>1, FS_Subset
  <2>3. U \in [T -> Int]
    BY <2>1 DEF Urgency
  <2>4. PICK x \in T : \A y \in T : U[y] <= U[x]
    BY <2>2, <2>3, SomeGreatest
  <2>5. PICK V, g : V = {y \in T : U[y] = U[x]} /\ g = [y \in V |-> y]
    OBVIOUS
  <2>6. IsFiniteSet(V) /\ x \in V /\ V \subseteq T
    <3>1. x \in V /\ V \subseteq T
      BY <2>5
    <3> QED
      BY <2>2, <3>1, FS_Subset
  <2>7. g \in [V -> Int]
    BY <1>3, <2>2, <2>5, <2>6
  <2>8. PICK z \in V : \A y \in V : g[z] <= g[y]
    BY <2>6, <2>7, SomeLeast
  <2> DEFINE better(j, k) == \/ Urgency(queue[k].state) < Urgency(queue[j].state)
                             \/ Urgency(queue[k].state) = Urgency(queue[j].state) /\ j <= k
  <2>9. \A y \in T : better(z, y)
    <3> SUFFICES ASSUME NEW y \in T PROVE better(z, y)
      OBVIOUS
    <3>1. U[y] <= U[x] /\ U[z] = U[x] /\ U[x] \in Int /\ U[y] \in Int
      BY <2>3, <2>4, <2>5, <2>8
    <3>2. Urgency(queue[y].state) = U[y] /\ Urgency(queue[z].state) = U[z]
      BY <2>1, <2>6
    <3>3. CASE U[y] = U[x]
      <4>1. z <= y
        BY <2>5, <2>8, <3>3
      <4> QED
        BY <3>1, <3>2, <3>3, <4>1
    <3>4. CASE U[y] # U[x]
      BY <3>1, <3>2, <3>4
    <3> QED
      BY <3>3, <3>4
  <2>10. z \in T /\ best(i) = MostUrgent(queue, T)
    BY <2>1, <2>6
  <2>11. best(i) = CHOOSE j \in T : \A k \in T : better(j, k)
    BY <2>10, Zenon DEF MostUrgent
  <2> HIDE DEF better, best
  <2>12. best(i) \in T
    BY <2>9, <2>10, <2>11
  <2> QED
    BY <2>1, <2>12
<1>7. \A k \in DOMAIN once : /\ firsts[k] \in S /\ best(firsts[k]) \in own(firsts[k])
                             /\ once[k] = queue[best(firsts[k])]
  BY <1>2, <1>5, <1>6
<1> HIDE DEF best
<1>8. \A k \in DOMAIN once : /\ best(firsts[k]) \in DOMAIN queue
                             /\ once[k].unit[1] = queue[firsts[k]].unit[1]
  BY <1>7
<1>9. ASSUME NEW j \in DOMAIN once, NEW k \in DOMAIN once, once[j].unit[1] = once[k].unit[1]
      PROVE  j = k
  <2>1. queue[firsts[j]].unit[1] = queue[firsts[k]].unit[1]
    BY <1>8, <1>9
  <2>2. own(firsts[j]) = own(firsts[k])
    BY <2>1
  <2>3. firsts[j] = Min(own(firsts[j])) /\ firsts[k] = Min(own(firsts[k]))
    BY <1>7
  <2>4. firsts[j] = firsts[k]
    BY <2>2, <2>3
  <2> QED
    BY <1>2, <1>5, <2>4
<1> QED
  BY <1>2, <1>5, <1>7, <1>8, <1>9

\* What a shadow run takes of an analysis.
ShareOf(run, a) ==
  /\ a.createdAt = run.analysis
  /\ ToSet(run.selected) \subseteq ToSet(a.queue)
  /\ Len(run.selected) <= run.capacity
  /\ Cardinality({run.selected[k].unit[1] : k \in DOMAIN run.selected} \ run.excluded)
       = Len(run.selected)

\* Decisions of a queue, at places of some that are left of it, one of each customer.
OneOfEach(queue, once, S, kept) ==
  /\ \E c \in Nat : DOMAIN kept = 1..c
  /\ \A k \in DOMAIN kept : kept[k] \in S /\ once[kept[k]] \in ToSet(queue)
  /\ \A j, k \in DOMAIN kept : once[kept[j]].unit[1] = once[kept[k]].unit[1] => j = k

LEMMA ChosenOnce ==
  ASSUME NEW queue, NEW n \in Nat, DOMAIN queue = 1..n,
         NEW once, once = Deduplicated(queue),
         NEW S, S \subseteq DOMAIN once, NEW kept, kept = Places(S)
  PROVE  OneOfEach(queue, once, S, kept)
<1>2. PICK m \in Nat : DOMAIN once = 1..m
  BY OnceEach
<1>3. /\ \A k \in DOMAIN once : \E i \in DOMAIN queue : once[k] = queue[i]
      /\ \A j, k \in DOMAIN once : once[j].unit[1] = once[k].unit[1] => j = k
  BY OnceEach
<1>4. S \in SUBSET Int /\ IsFiniteSet(S) /\ S \subseteq DOMAIN once
  <2>1. S \subseteq 1..m /\ IsFiniteSet(1..m)
    BY <1>2, FS_Interval
  <2> QED
    BY <1>2, <2>1, FS_Subset
<1>5. PICK c \in Nat : c = Cardinality(S)
  BY <1>4, FS_CardinalityType
<1>6. /\ DOMAIN kept = 1..c
      /\ \A k \in DOMAIN kept : kept[k] \in S
      /\ \A j, k \in DOMAIN kept : kept[j] = kept[k] => j = k
  BY <1>4, <1>5, PlacesInOrder
<1>7. \A k \in 1..c : kept[k] \in S /\ once[kept[k]] \in ToSet(queue)
  <2> SUFFICES ASSUME NEW k \in 1..c
               PROVE  kept[k] \in S /\ once[kept[k]] \in ToSet(queue)
    OBVIOUS
  <2>1. PICK z : z = kept[k]
    OBVIOUS
  <2>2. z \in S /\ z \in DOMAIN once
    BY <1>6, <2>1
  <2>3. PICK i \in DOMAIN queue : once[z] = queue[i]
    BY <1>3, <2>2
  <2>4. once[z] \in ToSet(queue)
    BY <2>3 DEF ToSet
  <2> QED
    BY <2>1, <2>2, <2>4
<1>8. \A j, k \in 1..c : once[kept[j]].unit[1] = once[kept[k]].unit[1] => j = k
  <2> SUFFICES ASSUME NEW j \in 1..c, NEW k \in 1..c,
                      once[kept[j]].unit[1] = once[kept[k]].unit[1]
               PROVE  j = k
    OBVIOUS
  <2>1. kept[j] \in DOMAIN once /\ kept[k] \in DOMAIN once
    BY <1>4, <1>6
  <2>2. kept[j] = kept[k]
    BY <1>3, <2>1
  <2> QED
    BY <1>6, <2>2
<1> QED
  BY <1>6, <1>7, <1>8 DEF OneOfEach

\* Nobody is taken twice, nobody who is left out, and no more than there is room for.
LEMMA ShadowRunTakesItsShare ==
  ASSUME NEW a, NEW n \in Nat, DOMAIN a.queue = 1..n, NEW capacity \in Nat, NEW excluded,
         NEW run, run = ShadowRunOf(a, capacity, excluded)
  PROVE  ShareOf(run, a)
<1>1. PICK queue : queue = a.queue
  OBVIOUS
<1>2. PICK once : once = Deduplicated(queue)
  OBVIOUS
<1>0. PICK S : S = {i \in DOMAIN once : once[i].unit[1] \notin excluded}
  OBVIOUS
<1>3. PICK kept : kept = Places(S)
  OBVIOUS
<1>4. PICK chosen : chosen = [k \in DOMAIN kept |-> once[kept[k]]]
  OBVIOUS
<1>5. PICK last : last = IF Len(chosen) < capacity THEN Len(chosen) ELSE capacity
  OBVIOUS
<1>6. PICK s : s = SubSeq(chosen, 1, last)
  OBVIOUS
<1>7. run = [analysis |-> a.createdAt, capacity |-> capacity, excluded |-> excluded,
             selected |-> s]
  BY <1>0, <1>1, <1>2, <1>3, <1>4, <1>5, <1>6 DEF ShadowRunOf
<1>8. DOMAIN queue = 1..n
  BY <1>1
<1>9. PICK c \in Nat :
        /\ DOMAIN kept = 1..c
        /\ \A k \in 1..c : /\ once[kept[k]] \in ToSet(queue)
                           /\ once[kept[k]].unit[1] \notin excluded
        /\ \A j, k \in 1..c : once[kept[j]].unit[1] = once[kept[k]].unit[1] => j = k
  <2>1. S \subseteq DOMAIN once
    BY <1>0
  <2>2. /\ \E c \in Nat : DOMAIN kept = 1..c
        /\ \A k \in DOMAIN kept : kept[k] \in S /\ once[kept[k]] \in ToSet(queue)
        /\ \A j, k \in DOMAIN kept : once[kept[j]].unit[1] = once[kept[k]].unit[1] => j = k
    <3>1. OneOfEach(queue, once, S, kept)
      BY <1>2, <1>3, <1>8, <2>1, ChosenOnce
    <3> QED
      BY <3>1 DEF OneOfEach
  <2>3. \A k \in DOMAIN kept : once[kept[k]].unit[1] \notin excluded
    BY <1>0, <2>2
  <2> QED
    BY <2>2, <2>3
<1>10. /\ DOMAIN chosen = 1..c
       /\ \A k \in 1..c : chosen[k] \in ToSet(queue) /\ chosen[k].unit[1] \notin excluded
       /\ \A j, k \in 1..c : chosen[j].unit[1] = chosen[k].unit[1] => j = k
       /\ chosen = [k \in 1..c |-> chosen[k]]
  <2>1. DOMAIN chosen = 1..c /\ \A k \in 1..c : chosen[k] = once[kept[k]]
    BY <1>4, <1>9
  <2>2. chosen = [k \in 1..c |-> chosen[k]]
    BY <1>4, <1>9
  <2> QED
    BY <1>9, <2>1, <2>2
<1>11. chosen \in Seq(ToSet(queue)) /\ Len(chosen) = c
  <2>1. chosen \in [1..c -> ToSet(queue)]
    BY <1>10
  <2>2. chosen \in Seq(ToSet(queue))
    BY <2>1, SeqDef
  <2> QED
    BY <1>10, <2>2
<1>12. last \in Nat /\ last <= c /\ last <= capacity
  <2>1. last = IF c < capacity THEN c ELSE capacity
    BY <1>5, <1>11
  <2> QED
    BY <2>1
<1>13. s \in Seq(ToSet(queue)) /\ Len(s) = last /\ \A k \in 1..last : s[k] = chosen[k]
  <2>1. \A i \in 1..last : chosen[i] \in ToSet(queue)
    BY <1>10, <1>12
  <2>2. SubSeq(chosen, 1, last) \in Seq(ToSet(queue))
    BY <1>12, <2>1, SubSeqProperties
  <2>3. Len(SubSeq(chosen, 1, last)) = last
    BY <1>11, <1>12
  <2>4. \A i \in 1..last : SubSeq(chosen, 1, last)[i] = chosen[i]
    BY <1>11, <1>12
  <2> QED
    BY <1>6, <2>2, <2>3, <2>4
<1>14. ToSet(s) \subseteq ToSet(queue) /\ DOMAIN s = 1..last
  BY <1>13 DEF ToSet
<1>15. PICK f : f = [k \in 1..last |-> s[k].unit[1]]
  OBVIOUS
<1>16. PICK T : T = {f[k] : k \in 1..last}
  OBVIOUS
<1>17. \A k \in 1..last : k \in 1..c /\ f[k] = chosen[k].unit[1]
  BY <1>12, <1>13, <1>15
<1>18. \A j, k \in 1..last : f[j] = f[k] => j = k
  BY <1>10, <1>17
<1>19. IsFiniteSet(1..last) /\ Cardinality(1..last) = last
  <2>1. IsFiniteSet(1..last) /\ Cardinality(1..last) = IF 1 > last THEN 0 ELSE last - 1 + 1
    BY <1>12, FS_Interval
  <2> QED
    BY <1>12, <2>1
<1>20. Cardinality(T) = last
  <2>1. PICK D : D = 1..last
    OBVIOUS
  <2>2. IsFiniteSet(D) /\ Cardinality(D) = last
    BY <1>19, <2>1
  <2>3. f = [k \in D |-> s[k].unit[1]]
    BY <1>15, <2>1
  <2>4. T = {f[k] : k \in D}
    BY <1>16, <2>1
  <2>5. Cardinality(T) = Cardinality(D)
    <3>1. \A j, k \in D : f[j] = f[k] => j = k
      BY <1>18, <2>1
    <3> QED
      BY <2>2, <2>3, <2>4, <3>1, ImageOf
  <2> QED
    BY <2>2, <2>5
<1>21. T \ excluded = T
  <2>1. \A t \in T : t \notin excluded
    BY <1>10, <1>16, <1>17
  <2> QED
    BY <2>1
<1>22. T = {s[k].unit[1] : k \in DOMAIN s}
  BY <1>14, <1>15, <1>16
<1>23. /\ run.selected = s /\ run.analysis = a.createdAt
       /\ run.capacity = capacity /\ run.excluded = excluded
  BY <1>7
<1>24. Cardinality({s[k].unit[1] : k \in DOMAIN s} \ excluded) = Len(s)
  BY <1>13, <1>20, <1>21, <1>22
<1> QED
  BY <1>1, <1>12, <1>13, <1>14, <1>23, <1>24 DEF ShareOf

Shared(run) == \E a \in ToSet(analyses) : ShareOf(run, a)

\* A stamp is drawn for one analysis, which is stored or about to be.
DrawnOnce ==
  /\ drawn \in 0..MaxAnalyses
  /\ \A i \in DOMAIN analyses : analyses[i].createdAt < drawn
  /\ \A i, j \in DOMAIN analyses : analyses[i].createdAt = analyses[j].createdAt => i = j
  /\ \A r \in RetentionCalls : call[r].pc = "importing" =>
       /\ call[r].record.createdAt < drawn
       /\ \A i \in DOMAIN analyses : analyses[i].createdAt # call[r].record.createdAt
       /\ \A q \in RetentionCalls : q # r /\ call[q].pc = "importing" =>
            call[q].record.createdAt # call[r].record.createdAt

\* Every shadow run, stored or about to be, has its share of a stored analysis.
SharesInv ==
  /\ DrawnOnce
  /\ shadowRuns \in Seq(ToSet(shadowRuns))
  /\ \A i \in DOMAIN shadowRuns : Shared(shadowRuns[i])
  /\ \A r \in RetentionCalls :
       /\ call[r].pc \in {"idle", "updating", "demo", "importing", "shadowing"}
       /\ call[r].pc = "shadowing" => Shared(call[r].run)

\* A step that stores no analysis and draws no stamp.
LEMMA CallKeepsShares ==
  ASSUME RetentionInv, SharesInv, NEW r \in RetentionCalls, NEW x,
         call' = [call EXCEPT ![r] = x], UNCHANGED <<analyses, drawn>>,
         x.pc \in {"idle", "updating", "demo", "shadowing"}, x.pc = "shadowing" => Shared(x.run),
         \/ shadowRuns' = shadowRuns
         \/ call[r].pc = "shadowing" /\ shadowRuns' = Append(shadowRuns, call[r].run)
  PROVE  SharesInv'
<1>1. \A c \in RetentionCalls : call'[c] = IF c = r THEN x ELSE call[c]
  BY DEF RetentionInv
<1>2. \A run : Shared(run)' <=> Shared(run)
  BY DEF Shared
<1>3. DrawnOnce'
  BY <1>1 DEF SharesInv, DrawnOnce
<1>4. /\ shadowRuns' \in Seq(ToSet(shadowRuns'))
      /\ \A i \in DOMAIN shadowRuns' : Shared(shadowRuns'[i])
  <2>1. CASE shadowRuns' = shadowRuns
    BY <2>1 DEF SharesInv
  <2>2. CASE call[r].pc = "shadowing" /\ shadowRuns' = Append(shadowRuns, call[r].run)
    <3>1. PICK s, t, run : s = shadowRuns /\ t = shadowRuns' /\ run = call[r].run
      OBVIOUS
    <3>2. s \in Seq(ToSet(s)) /\ t = Append(s, run) /\ Shared(run) /\ \A i \in DOMAIN s : Shared(s[i])
      BY <2>2, <3>1 DEF SharesInv
    <3>3. t \in Seq(ToSet(s) \cup {run})
      BY <3>2
    <3>4. t \in Seq(ToSet(t))
      BY <3>3, SeqOfItsOwn
    <3>5. \A i \in DOMAIN t : t[i] = run \/ (i \in DOMAIN s /\ t[i] = s[i])
      BY <3>2
    <3> QED
      BY <3>1, <3>2, <3>4, <3>5
  <2> QED
    BY <2>1, <2>2
<1>5. \A c \in RetentionCalls :
        /\ call'[c].pc \in {"idle", "updating", "demo", "importing", "shadowing"}
        /\ call'[c].pc = "shadowing" => Shared(call'[c].run)
  BY <1>1 DEF SharesInv
<1> QED
  BY <1>2, <1>3, <1>4, <1>5 DEF SharesInv

\* An import draws the next stamp.
LEMMA BeginImportKeepsShares ==
  ASSUME RetentionInv, SharesInv, NEW r \in RetentionCalls, NEW file, NEW supplied, NEW mapping,
         BeginImportRetention(r, file, supplied, mapping)
  PROVE  SharesInv'
<1>1. PICK x : /\ call' = [call EXCEPT ![r] = x] /\ x.pc = "importing"
               /\ x.record.createdAt = drawn
  <2>1. PICK used : used = [lifecycle |-> config.lifecycle, mapping |-> mapping]
    OBVIOUS
  <2>2. PICK a : a = [createdAt |-> drawn, file |-> file, cutoff |-> supplied,
                      hash |-> HashedAsUsed(config, used), snapshot |-> used,
                      queue |-> QueueOf(file, used, supplied),
                      status |-> WorkspaceStatus(
                        Readiness(MappedRows(file, mapping), used.lifecycle))]
    OBVIOUS
  <2>3. PICK y : y = [pc |-> "importing", config |-> used, record |-> a]
    OBVIOUS
  <2>4. call' = [call EXCEPT ![r] = y]
    BY <2>1, <2>2, <2>3 DEF BeginImportRetention
  <2>5. y.pc = "importing" /\ y.record = a /\ a.createdAt = drawn
    BY <2>2, <2>3
  <2> QED
    BY <2>4, <2>5
<1>2. drawn \in Nat /\ drawn' = drawn + 1 /\ drawn' \in 0..MaxAnalyses
  <2>1. MaxAnalyses \in Nat
    BY RetentionAssumption
  <2>2. drawn \in Nat /\ drawn < MaxAnalyses /\ drawn' = drawn + 1
    BY DEF BeginImportRetention, RetentionInv
  <2> QED
    BY <2>1, <2>2
<1>3. UNCHANGED <<analyses, shadowRuns>>
  BY DEF BeginImportRetention
<1>4. \A c \in RetentionCalls : call'[c] = IF c = r THEN x ELSE call[c]
  BY <1>1 DEF RetentionInv
<1>5. \A i \in DOMAIN analyses : analyses[i].createdAt \in Nat /\ analyses[i].createdAt < drawn
  BY DEF RetentionInv, GoodRecord, SharesInv, DrawnOnce
<1>6. \A c \in RetentionCalls : call[c].pc = "importing" =>
        call[c].record.createdAt \in Nat /\ call[c].record.createdAt < drawn
  BY DEF RetentionInv, GoodRecord, SharesInv, DrawnOnce
<1>7. DrawnOnce'
  <2>1. \A i \in DOMAIN analyses : analyses[i].createdAt < drawn' /\ analyses[i].createdAt # drawn
    BY <1>2, <1>5
  <2>2. ASSUME NEW c \in RetentionCalls, call'[c].pc = "importing"
        PROVE  /\ call'[c].record.createdAt < drawn'
               /\ \A i \in DOMAIN analyses : analyses[i].createdAt # call'[c].record.createdAt
               /\ \A q \in RetentionCalls : q # c /\ call'[q].pc = "importing" =>
                    call'[q].record.createdAt # call'[c].record.createdAt
    <3>1. CASE c = r
      <4>1. call'[c].record.createdAt = drawn
        BY <1>1, <1>4, <3>1
      <4>2. \A q \in RetentionCalls : q # c /\ call'[q].pc = "importing" =>
              call'[q].record.createdAt # drawn
        BY <1>2, <1>4, <1>6, <3>1
      <4> QED
        BY <1>2, <2>1, <4>1, <4>2
    <3>2. CASE c # r
      <4>1. call'[c] = call[c] /\ call[c].pc = "importing"
        BY <1>4, <2>2, <3>2
      <4>2. call'[c].record.createdAt < drawn' /\ call'[c].record.createdAt # drawn
        BY <1>2, <1>6, <4>1
      <4>3. \A i \in DOMAIN analyses : analyses[i].createdAt # call'[c].record.createdAt
        BY <4>1 DEF SharesInv, DrawnOnce
      <4>4. ASSUME NEW q \in RetentionCalls, q # c, call'[q].pc = "importing"
            PROVE  call'[q].record.createdAt # call'[c].record.createdAt
        <5>1. CASE q = r
          BY <1>1, <1>4, <4>2, <5>1
        <5>2. CASE q # r
          BY <1>4, <4>1, <4>4, <5>2 DEF SharesInv, DrawnOnce
        <5> QED
          BY <5>1, <5>2
      <4> QED
        BY <4>2, <4>3, <4>4
    <3> QED
      BY <3>1, <3>2
  <2>3. \A i, j \in DOMAIN analyses : analyses[i].createdAt = analyses[j].createdAt => i = j
    BY DEF SharesInv, DrawnOnce
  <2> QED
    BY <1>2, <1>3, <2>1, <2>2, <2>3 DEF DrawnOnce
<1>8. \A run : Shared(run)' <=> Shared(run)
  BY <1>3 DEF Shared
<1>9. \A c \in RetentionCalls :
        /\ call'[c].pc \in {"idle", "updating", "demo", "importing", "shadowing"}
        /\ call'[c].pc = "shadowing" => Shared(call'[c].run)
  BY <1>1, <1>4 DEF SharesInv
<1> QED
  BY <1>3, <1>7, <1>8, <1>9 DEF SharesInv

\* An analysis is stored under the stamp that was drawn for it.
LEMMA StoreAnalysisKeepsShares ==
  ASSUME RetentionInv, SharesInv, NEW r \in RetentionCalls, StoreAnalysis(r)
  PROVE  SharesInv'
<1>1. PICK s, t, a : s = analyses /\ t = analyses' /\ a = call[r].record
  OBVIOUS
<1>2. /\ call[r].pc = "importing" /\ t = Append(s, a) /\ UNCHANGED <<shadowRuns, drawn>>
      /\ call' = [call EXCEPT ![r] = Resting]
  BY <1>1 DEF StoreAnalysis
<1>3. s \in Seq(ToSet(s))
  BY <1>1 DEF RetentionInv
<1>4. /\ DOMAIN t = 1..(Len(s) + 1) /\ DOMAIN s = 1..Len(s) /\ Len(s) \in Nat
      /\ \A i \in DOMAIN s : t[i] = s[i]
      /\ t[Len(s) + 1] = a
  BY <1>2, <1>3
<1>5. Resting.pc = "idle"
  BY DEF Resting
<1>6. \A c \in RetentionCalls : call'[c] = IF c = r THEN Resting ELSE call[c]
  BY <1>2 DEF RetentionInv
<1>7. \A i \in DOMAIN t : (i \in DOMAIN s /\ t[i] = s[i]) \/ (i = Len(s) + 1 /\ t[i] = a)
  BY <1>4
<1>8. /\ a.createdAt < drawn /\ \A i \in DOMAIN s : s[i].createdAt # a.createdAt
      /\ \A i \in DOMAIN s : s[i].createdAt < drawn
      /\ \A i, j \in DOMAIN s : s[i].createdAt = s[j].createdAt => i = j
  BY <1>1, <1>2 DEF SharesInv, DrawnOnce
<1>9. DrawnOnce'
  <2>1. \A i \in DOMAIN t : t[i].createdAt < drawn
    BY <1>7, <1>8
  <2>2. \A i, j \in DOMAIN t : t[i].createdAt = t[j].createdAt => i = j
    BY <1>7, <1>8
  <2>3. ASSUME NEW c \in RetentionCalls, call'[c].pc = "importing"
        PROVE  /\ call'[c].record.createdAt < drawn
               /\ \A i \in DOMAIN t : t[i].createdAt # call'[c].record.createdAt
               /\ \A q \in RetentionCalls : q # c /\ call'[q].pc = "importing" =>
                    call'[q].record.createdAt # call'[c].record.createdAt
    <3>1. c # r /\ call'[c] = call[c]
      BY <1>5, <1>6, <2>3
    <3>2. /\ call[c].record.createdAt < drawn
          /\ \A i \in DOMAIN s : s[i].createdAt # call[c].record.createdAt
          /\ \A q \in RetentionCalls : q # c /\ call[q].pc = "importing" =>
               call[q].record.createdAt # call[c].record.createdAt
      BY <1>1, <2>3, <3>1 DEF SharesInv, DrawnOnce
    <3>3. a.createdAt # call[c].record.createdAt
      BY <1>1, <1>2, <3>1, <3>2
    <3>4. \A i \in DOMAIN t : t[i].createdAt # call[c].record.createdAt
      BY <1>7, <3>2, <3>3
    <3>5. \A q \in RetentionCalls : call'[q].pc = "importing" =>
            call[q].pc = "importing" /\ call'[q] = call[q]
      BY <1>5, <1>6
    <3> QED
      BY <3>1, <3>2, <3>4, <3>5
  <2>4. drawn' \in 0..MaxAnalyses
    BY <1>2 DEF SharesInv, DrawnOnce
  <2> QED
    BY <1>1, <1>2, <2>1, <2>2, <2>3, <2>4 DEF DrawnOnce
<1>10. \A run : (\E x \in ToSet(s) : ShareOf(run, x)) => \E x \in ToSet(t) : ShareOf(run, x)
  <2>1. ToSet(s) \subseteq ToSet(t)
    BY <1>4 DEF ToSet
  <2> QED
    BY <2>1
<1>11. \A run : Shared(run) => \E x \in ToSet(t) : ShareOf(run, x)
  BY <1>1, <1>10 DEF Shared
<1>12. (\A i \in DOMAIN shadowRuns : Shared(shadowRuns[i]))'
  BY <1>1, <1>2, <1>11 DEF Shared, SharesInv
<1>13. (\A c \in RetentionCalls :
          /\ call[c].pc \in {"idle", "updating", "demo", "importing", "shadowing"}
          /\ call[c].pc = "shadowing" => Shared(call[c].run))'
  <2>1. \A c \in RetentionCalls :
          /\ call'[c].pc \in {"idle", "updating", "demo", "importing", "shadowing"}
          /\ call'[c].pc = "shadowing" => \E x \in ToSet(t) : ShareOf(call'[c].run, x)
    BY <1>5, <1>6, <1>11 DEF SharesInv
  <2> QED
    BY <1>1, <2>1 DEF Shared
<1>14. shadowRuns' \in Seq(ToSet(shadowRuns'))
  BY <1>2 DEF SharesInv
<1> QED
  BY <1>9, <1>12, <1>13, <1>14 DEF SharesInv

\* The shadow run that is begun has its share of the newest analysis.
LEMMA BeginShadowKeepsShares ==
  ASSUME RetentionInv, AudienceInv, SharesInv, NEW r \in RetentionCalls,
         NEW capacity \in Nat, NEW excluded, BeginShadowRun(r, capacity, excluded)
  PROVE  SharesInv'
<1>1. PICK a : a = LatestRecord
  OBVIOUS
<1>2. PICK run : run = ShadowRunOf(a, capacity, excluded)
  OBVIOUS
<1>3. PICK x : x = [pc |-> "shadowing", run |-> run]
  OBVIOUS
<1>4. call' = [call EXCEPT ![r] = x] /\ UNCHANGED <<analyses, shadowRuns, drawn>>
  BY <1>1, <1>2, <1>3 DEF BeginShadowRun
<1>5. PICK i : i = CHOOSE k \in DOMAIN analyses : \A j \in DOMAIN analyses :
                     analyses[j].createdAt <= analyses[k].createdAt
  OBVIOUS
<1>6. i \in DOMAIN analyses
  BY <1>5 DEF BeginShadowRun, RetentionInv, SomeNewest
<1>7. a = analyses[i]
  BY <1>1, <1>5 DEF LatestRecord
<1>8. GoodRecord(a) /\ MadeOf(a)
  BY <1>6, <1>7 DEF RetentionInv, AudienceInv
<1>9. PICK file, c, supplied, queue :
        file = a.file /\ c = a.snapshot /\ supplied = a.cutoff /\ queue = a.queue
  OBVIOUS
<1>10. file \in Files /\ c.mapping \in Mappings /\ queue = QueueOf(file, c, supplied)
  BY <1>8, <1>9 DEF GoodRecord, MadeOf, GoodConfig
<1>11. PICK n \in Nat : DOMAIN a.queue = 1..n
  BY <1>9, <1>10, QueueIsNumbered
<1>12. ShareOf(run, a)
  BY <1>2, <1>11, ShadowRunTakesItsShare
<1>13. a \in ToSet(analyses)
  BY <1>6, <1>7 DEF ToSet
<1>14. x.pc = "shadowing" /\ Shared(x.run)
  BY <1>3, <1>12, <1>13 DEF Shared
<1> QED
  BY <1>4, <1>14, CallKeepsShares

LEMMA SharesInvHolds ==
  RetentionSpec => []SharesInv
<1>1. RetentionInit => SharesInv
  <2> SUFFICES ASSUME RetentionInit PROVE SharesInv
    OBVIOUS
  <2>1. MaxAnalyses \in Nat
    BY RetentionAssumption
  <2>2. drawn = 0 /\ analyses = <<>> /\ shadowRuns = <<>>
    BY DEF RetentionInit
  <2>3. \A r \in RetentionCalls : call[r].pc = "idle"
    BY DEF RetentionInit, Resting
  <2>4. DrawnOnce
    BY <2>1, <2>2, <2>3 DEF DrawnOnce
  <2> QED
    BY <2>2, <2>3, <2>4 DEF SharesInv
<1>2. RetentionInv /\ AudienceInv /\ SharesInv /\ [RetentionNext]_retentionVars => SharesInv'
  <2> SUFFICES ASSUME RetentionInv, AudienceInv, SharesInv, [RetentionNext]_retentionVars
      PROVE  SharesInv'
    OBVIOUS
  <2>1. CASE UNCHANGED retentionVars
    BY <2>1 DEF retentionVars, SharesInv, DrawnOnce, Shared
  <2>2. ASSUME NEW r \in RetentionCalls, NEW lifecycles, NEW mappings, NEW next,
               BeginUpdate(r, lifecycles, mappings, next)
        PROVE  SharesInv'
    <3>1. PICK x : call' = [call EXCEPT ![r] = x] /\ x.pc = "updating"
      <4>1. PICK l \in lifecycles, mapping \in mappings :
              call' = [call EXCEPT ![r] =
                [pc |-> "updating", next |-> next,
                 config |-> [lifecycle |-> l, mapping |-> mapping]]]
        BY <2>2 DEF BeginUpdate
      <4>2. PICK x : x = [pc |-> "updating", next |-> next,
                          config |-> [lifecycle |-> l, mapping |-> mapping]]
        OBVIOUS
      <4>3. x.pc = "updating"
        BY <4>2
      <4>4. call' = [call EXCEPT ![r] = x]
        BY <4>1, <4>2
      <4> QED
        BY <4>3, <4>4
    <3>2. UNCHANGED <<analyses, drawn, shadowRuns>>
      BY <2>2 DEF BeginUpdate
    <3> QED
      BY <3>1, <3>2, CallKeepsShares
  <2>3. ASSUME NEW r \in RetentionCalls, BeginDemo(r)
        PROVE  SharesInv'
    <3>1. BeginUpdate(r, Lifecycles, {"whole"}, Demonstrating)
      BY <2>3 DEF BeginDemo
    <3> QED
      BY <2>2, <3>1
  <2>4. ASSUME NEW r \in RetentionCalls, StoreConfig(r)
        PROVE  SharesInv'
    <3>1. PICK next \in {Resting, Demonstrating} : call' = [call EXCEPT ![r] = next]
      BY <2>4 DEF StoreConfig, RetentionInv
    <3>2. next.pc \in {"idle", "demo"}
      BY DEF Resting, Demonstrating
    <3>3. UNCHANGED <<analyses, drawn, shadowRuns>>
      BY <2>4 DEF StoreConfig
    <3> QED
      BY <3>1, <3>2, <3>3, CallKeepsShares
  <2>5. ASSUME NEW r \in RetentionCalls, NEW capacity \in 1..2, NEW excluded \in Exclusions,
               BeginShadowRun(r, capacity, excluded)
        PROVE  SharesInv'
    BY <2>5, BeginShadowKeepsShares
  <2>6. ASSUME NEW r \in RetentionCalls, StoreShadowRun(r) \/ RetentionFails(r)
        PROVE  SharesInv'
    <3>1. call' = [call EXCEPT ![r] = Resting] /\ UNCHANGED <<analyses, drawn>>
      BY <2>6 DEF StoreShadowRun, RetentionFails
    <3>2. Resting.pc = "idle"
      BY DEF Resting
    <3>3. \/ shadowRuns' = shadowRuns
          \/ call[r].pc = "shadowing" /\ shadowRuns' = Append(shadowRuns, call[r].run)
      BY <2>6 DEF StoreShadowRun, RetentionFails
    <3> QED
      BY <3>1, <3>2, <3>3, CallKeepsShares
  <2> QED
    <3>1. CASE RetentionNext
      <4>1. PICK r \in RetentionCalls :
              \/ BeginUpdate(r, Lifecycles \cup {config.lifecycle}, Mappings, Resting)
              \/ BeginDemo(r) \/ StoreConfig(r) \/ StoreAnalysis(r)
              \/ \E file \in Files, supplied \in Cutoffs, mapping \in Mappings :
                   BeginImportRetention(r, file, supplied, mapping)
              \/ \E capacity \in 1..2, excluded \in Exclusions :
                   BeginShadowRun(r, capacity, excluded)
              \/ StoreShadowRun(r) \/ RetentionFails(r)
        BY <3>1 DEF RetentionNext
      <4> QED
        BY <2>2, <2>3, <2>4, <2>5, <2>6, <4>1, BeginImportKeepsShares, StoreAnalysisKeepsShares
    <3> QED
      BY <2>1, <3>1
<1> QED
  BY <1>1, <1>2, RetentionInvInductive, AudienceInvHolds, PTL DEF RetentionSpec

\* However imports, updates and shadow runs overlap, the settings are ones the server
\* accepts, an analysis is stored once, under a stamp of its own, and a shadow run takes
\* of a stored analysis, within its capacity, one decision of a customer at most and
\* none of a customer it leaves out.
THEOREM ShadowRunsTakeTheirShare ==
  RetentionSpec => []RetentionTypeOK
<1>1. RetentionInv /\ AudienceInv /\ SharesInv => RetentionTypeOK
  <2> SUFFICES ASSUME RetentionInv, AudienceInv, SharesInv
      PROVE  RetentionTypeOK
    OBVIOUS
  <2>1. Ascending(config.lifecycle) /\ config.mapping \in Mappings
    BY DEF AudienceInv, GoodConfig
  <2>2. PICK s, f : s = analyses /\ f = [i \in DOMAIN analyses |-> analyses[i].createdAt]
    OBVIOUS
  <2>3. s \in Seq(ToSet(s)) /\ drawn \in Nat
    BY <2>2 DEF RetentionInv
  <2>4. /\ \A i \in DOMAIN s : f[i] \in 0..(drawn - 1)
        /\ f \in [DOMAIN s -> 0..(drawn - 1)]
    <3>1. \A i \in DOMAIN s : f[i] \in Nat /\ f[i] < drawn
      BY <2>2 DEF RetentionInv, GoodRecord, SharesInv, DrawnOnce
    <3> QED
      BY <2>2, <2>3, <3>1
  <2>5. \A i, j \in DOMAIN s : f[i] = f[j] => i = j
    BY <2>2 DEF SharesInv, DrawnOnce
  <2>6. IsInjective(f)
    BY <2>2, <2>5 DEF IsInjective
  <2>7. Len(s) <= drawn
    <3>1. PICK S, T : S = 1..Len(s) /\ T = 0..(drawn - 1)
      OBVIOUS
    <3>2. IsFiniteSet(S) /\ Cardinality(S) = Len(s)
      <4>1. PICK n \in Nat : n = Len(s)
        BY <2>3
      <4>2. Cardinality(1..n) = (IF 1 > n THEN 0 ELSE n - 1 + 1) /\ IsFiniteSet(1..n)
        BY FS_Interval
      <4> QED
        BY <3>1, <4>1, <4>2
    <3>3. IsFiniteSet(T) /\ Cardinality(T) = drawn
      BY <2>3, <3>1, FS_Interval
    <3>4. f \in Injection(S, T)
      BY <2>3, <2>4, <2>5, <3>1 DEF Injection, IsInjective
    <3> QED
      BY <3>2, <3>3, <3>4, FS_Injection
  <2>8. \A i \in DOMAIN shadowRuns :
          LET run == shadowRuns[i] chosen == run.selected IN
          /\ \E a \in ToSet(analyses) :
               a.createdAt = run.analysis /\ ToSet(chosen) \subseteq ToSet(a.queue)
          /\ Len(chosen) <= run.capacity
          /\ Cardinality({chosen[k].unit[1] : k \in DOMAIN chosen} \ run.excluded) = Len(chosen)
    <3> SUFFICES ASSUME NEW i \in DOMAIN shadowRuns
        PROVE  LET run == shadowRuns[i] chosen == run.selected IN
               /\ \E a \in ToSet(analyses) :
                    a.createdAt = run.analysis /\ ToSet(chosen) \subseteq ToSet(a.queue)
               /\ Len(chosen) <= run.capacity
               /\ Cardinality({chosen[k].unit[1] : k \in DOMAIN chosen} \ run.excluded)
                    = Len(chosen)
      OBVIOUS
    <3>1. PICK a \in ToSet(analyses) : ShareOf(shadowRuns[i], a)
      BY DEF SharesInv, Shared
    <3> QED
      BY <3>1 DEF ShareOf
  <2>9. \A r \in RetentionCalls :
          call[r].pc \in {"idle", "updating", "demo", "importing", "shadowing"}
    BY DEF SharesInv
  <2>10. drawn \in 0..MaxAnalyses
    BY DEF SharesInv, DrawnOnce
  <2> QED
    BY <2>1, <2>2, <2>6, <2>7, <2>8, <2>9, <2>10 DEF RetentionTypeOK
<1> QED
  BY <1>1, RetentionInvInductive, AudienceInvHolds, SharesInvHolds, PTL

-----------------------------------------------------------------------------
(* The claim ladder                                                        *)

\* The steps of the ladder below the claim, of an outcome of this experiment: the
\* server drew the groups, before anybody was exposed; everybody's window is closed
\* and nobody of the control was exposed; nearly everybody is reported.
Climbed(e, o) ==
  LET rows == o.rows IN
  /\ e.verified
  /\ 20 * Len(rows) >= 19 * Cardinality(Customers)
  /\ \A i \in DOMAIN rows :
       IF rows[i].group = "control" THEN rows[i].exposedAt = NotExposed
       ELSE rows[i].exposedAt \in e.lockedAt..(o.at - OutcomeWindow)
  /\ Len(rows) <= Cardinality(Customers)

\* An outcome of this experiment: no fatal issue, the groups drawn, and the decision
\* and the claim made of one and the same audit.
GoodOutcome(e, o) ==
  /\ o.rows \in OutcomeFiles
  /\ \A i \in DOMAIN o.rows :
       /\ o.rows[i].customer \in Customers
       /\ o.rows[i].group = e.assignment[o.rows[i].customer]
  /\ o.eligible => Climbed(e, o)
  /\ o.decision = Decision(o.eligible, o.rows, o.result)
  /\ o.evidenceStatus = EvidenceStatus(o.eligible, o.rows, o.result)
  /\ o.finance = "not_verified"

\* The outcomes are those of the current experiment: another one leaves none.
GatesInv ==
  /\ day \in Nat
  /\ outcomes \in Seq(ToSet(outcomes))
  /\ experiment = NoExperiment => outcomes = <<>>
  /\ experiment # NoExperiment =>
       /\ DOMAIN experiment.assignment = Customers
       /\ experiment.lockedAt \in Nat
  /\ \A k \in DOMAIN outcomes : GoodOutcome(experiment, outcomes[k])

\* An eligible outcome has climbed every step.
LEMMA EligibleClimbs ==
  ASSUME NEW e, NEW rows \in OutcomeFiles, NEW o, DecisionEligible(e, rows), day \in Nat,
         DOMAIN e.assignment = Customers, e.lockedAt \in Nat, o.rows = rows, o.at = day
  PROVE  Climbed(e, o)
<1>1. /\ rows \in Seq(ToSet(rows))
      /\ \A i \in DOMAIN rows : rows[i].exposedAt \in Int
      /\ IsFiniteSet(Customers) /\ OutcomeWindow \in Nat
  BY GatesAssumption DEF NotExposed
<1>2. DOMAIN rows = 1..Len(rows) /\ Len(rows) \in Nat
  BY <1>1
<1>3. /\ ~Fatal(e, rows) /\ e.verified /\ Prospective(e, rows) /\ Covered(e, rows)
      /\ WindowClosed(rows)
      /\ \A i \in Controls(rows) : rows[i].exposedAt = NotExposed
  BY DEF DecisionEligible
<1>4. Len(rows) <= Cardinality(Customers) /\ 20 * Len(rows) >= 19 * Cardinality(Customers)
  <2>1. PICK n \in Nat, all \in Nat : n = Len(rows) /\ all = Cardinality(Customers)
    BY <1>1, <1>2, FS_CardinalityType
  <2>2. 100 * n >= 95 * all /\ n <= all
    BY <1>3, <2>1 DEF Covered
  <2>3. 20 * n >= 19 * all
    BY <2>2
  <2> QED
    BY <2>1, <2>2, <2>3
<1>5. ASSUME NEW i \in DOMAIN rows, rows[i].group = "control"
      PROVE  rows[i].exposedAt = NotExposed
  BY <1>3, <1>5 DEF Controls, Treated
<1>6. ASSUME NEW i \in DOMAIN rows, rows[i].group # "control"
      PROVE  rows[i].exposedAt \in e.lockedAt..(day - OutcomeWindow)
  <2> DEFINE T == Treated(rows)
             f == [j \in T |-> rows[j].exposedAt]
  <2>1. i \in T /\ T \subseteq DOMAIN rows
    BY <1>6 DEF Treated
  <2>2. IsFiniteSet(T)
    <3>1. IsFiniteSet(DOMAIN rows)
      BY <1>2, FS_Interval
    <3> QED
      BY <2>1, <3>1, FS_Subset
  <2>3. f \in [T -> Int]
    BY <1>1, <2>1
  <2>4. /\ \E x \in T : \A y \in T : f[y] <= f[x]
        /\ \E x \in T : \A y \in T : f[x] <= f[y]
    <3> HIDE DEF T, f
    <3> QED
      BY <2>1, <2>2, <2>3, SomeGreatest, SomeLeast
  <2>5. Exposures(rows) = {f[j] : j \in T}
    BY <1>3, <2>1 DEF Exposures, WindowClosed
  <2>6. f[i] = rows[i].exposedAt /\ f[i] \in Exposures(rows)
    BY <2>1, <2>5
  <2>7. \A x \in Exposures(rows) : x \in Int
    BY <2>3, <2>5
  <2>8. /\ \E x \in Exposures(rows) : \A y \in Exposures(rows) : x >= y
        /\ \E x \in Exposures(rows) : \A y \in Exposures(rows) : x <= y
    <3> HIDE DEF T, f
    <3> QED
      BY <2>3, <2>4, <2>5
  <2>9. /\ Max(Exposures(rows)) \in Int /\ f[i] <= Max(Exposures(rows))
        /\ Min(Exposures(rows)) \in Int /\ Min(Exposures(rows)) <= f[i]
    <3> HIDE DEF T, f
    <3> QED
      BY <2>6, <2>7, <2>8 DEF Max, Min
  <2>10. e.lockedAt <= Min(Exposures(rows)) /\ day >= Max(Exposures(rows)) + OutcomeWindow
    BY <1>3 DEF Prospective, WindowClosed
  <2> QED
    <3> PICK x, m, n : x = f[i] /\ m = Max(Exposures(rows)) /\ n = Min(Exposures(rows))
      OBVIOUS
    <3>1. x \in Int /\ m \in Int /\ n \in Int /\ x <= m /\ n <= x
      BY <2>1, <2>3, <2>9
    <3>2. e.lockedAt <= n /\ day >= m + OutcomeWindow
      BY <2>10
    <3>3. x \in e.lockedAt..(day - OutcomeWindow)
      BY <1>1, <3>1, <3>2
    <3> QED
      BY <2>6, <3>3
<1> QED
  BY <1>3, <1>4, <1>5, <1>6 DEF Climbed

\* Both arms of an adequate file are large enough, and no larger than the file.
LEMMA AdequateArms ==
  ASSUME NEW rows \in OutcomeFiles, Adequate(rows), Len(rows) <= Cardinality(Customers)
  PROVE  LET of(g) == {i \in DOMAIN rows : rows[i].group = g} IN
         {Cardinality(of("control")), Len(rows) - Cardinality(of("control"))}
           \subseteq MinSample..Cardinality(Customers)
<1> DEFINE C == {i \in DOMAIN rows : rows[i].group = "control"}
           T == Treated(rows)
<1>1. DOMAIN rows = 1..Len(rows) /\ Len(rows) \in Nat
  BY GatesAssumption
<1>2. /\ IsFiniteSet(DOMAIN rows) /\ Cardinality(DOMAIN rows) = Len(rows)
      /\ Cardinality(Customers) \in Nat /\ MinSample \in Nat
  <2>1. MinSample \in Nat /\ IsFiniteSet(Customers)
    BY GatesAssumption
  <2>2. IsFiniteSet(1..Len(rows)) /\ Cardinality(1..Len(rows)) = Len(rows)
    <3>1. PICK n \in Nat : n = Len(rows)
      BY <1>1
    <3>2. IsFiniteSet(1..n) /\ Cardinality(1..n) = IF 1 > n THEN 0 ELSE n - 1 + 1
      BY FS_Interval
    <3> QED
      BY <3>1, <3>2
  <2> QED
    BY <1>1, <2>1, <2>2, FS_CardinalityType
<1>3. C = Controls(rows) /\ T = DOMAIN rows \ C /\ C \subseteq DOMAIN rows
  BY DEF Controls, Treated
<1>4. IsFiniteSet(C) /\ Cardinality(C) \in Nat /\ Cardinality(C) <= Len(rows)
  BY <1>2, <1>3, FS_Subset, FS_CardinalityType
<1>5. Cardinality(T) = Len(rows) - Cardinality(C)
  <2>1. DOMAIN rows \cap C = C
    BY <1>3
  <2> HIDE DEF C, T
  <2>2. Cardinality(DOMAIN rows \ C)
          = Cardinality(DOMAIN rows) - Cardinality(DOMAIN rows \cap C)
    BY <1>2, FS_Difference
  <2> QED
    BY <1>2, <1>3, <2>1, <2>2
<1>6. Cardinality(C) >= MinSample /\ Cardinality(T) >= MinSample
  BY <1>3 DEF Adequate, BothArms
<1>7. {Cardinality(C), Len(rows) - Cardinality(C)} \subseteq MinSample..Cardinality(Customers)
  <2> HIDE DEF C, T
  <2> QED
    BY <1>1, <1>2, <1>4, <1>5, <1>6
<1> QED
  BY <1>7

\* An imported outcome is a good one of the experiment it is imported for.
LEMMA ImportOutcomeKeeps ==
  ASSUME GatesInv, NEW rows \in OutcomeFiles, NEW s \in Results, ImportOutcome(rows, s)
  PROVE  GatesInv'
<1>1. PICK eligible \in BOOLEAN : eligible = DecisionEligible(experiment, rows)
  BY DEF DecisionEligible
<1>2. PICK o : o = [rows |-> rows, at |-> day, result |-> s, eligible |-> eligible,
                    decision |-> Decision(eligible, rows, s),
                    evidenceStatus |-> EvidenceStatus(eligible, rows, s),
                    finance |-> "not_verified"]
  OBVIOUS
<1>3. /\ outcomes' = Append(outcomes, o)
      /\ UNCHANGED <<day, experiment>>
      /\ experiment # NoExperiment /\ ~Fatal(experiment, rows)
  BY <1>1, <1>2 DEF ImportOutcome
<1>4. /\ o.rows = rows /\ o.at = day /\ o.result = s /\ o.eligible = eligible
      /\ o.decision = Decision(eligible, rows, s)
      /\ o.evidenceStatus = EvidenceStatus(eligible, rows, s)
      /\ o.finance = "not_verified"
  BY <1>2
<1>5. \A i \in DOMAIN rows :
        /\ rows[i].customer \in Customers
        /\ rows[i].group = experiment.assignment[rows[i].customer]
  BY <1>3 DEF Fatal, GatesInv
<1>6. eligible => Climbed(experiment, o)
  BY <1>1, <1>3, <1>4, EligibleClimbs DEF GatesInv
<1>7. GoodOutcome(experiment, o)
  BY <1>4, <1>5, <1>6 DEF GoodOutcome
<1>8. /\ outcomes' \in Seq(ToSet(outcomes'))
      /\ \A i : i \in DOMAIN outcomes' <=> i \in DOMAIN outcomes \/ i = Len(outcomes')
      /\ \A i \in DOMAIN outcomes : outcomes'[i] = outcomes[i]
      /\ outcomes'[Len(outcomes')] = o
  <2>1. PICK x, y : x = outcomes /\ y = outcomes'
    OBVIOUS
  <2>2. x \in Seq(ToSet(x)) /\ y = Append(x, o)
    BY <1>3, <2>1 DEF GatesInv
  <2>3. y \in Seq(ToSet(x) \cup {o})
    BY <2>2
  <2>4. y \in Seq(ToSet(y))
    BY <2>3, SeqOfItsOwn
  <2>5. /\ y # <<>>
        /\ \A i : i \in DOMAIN y <=> i \in DOMAIN x \/ i = Len(y)
        /\ \A i \in DOMAIN x : y[i] = x[i]
        /\ y[Len(y)] = o
    BY <2>2
  <2> QED
    BY <2>1, <2>4, <2>5
<1>9. \A k \in DOMAIN outcomes' : GoodOutcome(experiment, outcomes'[k])
  BY <1>7, <1>8 DEF GatesInv
<1> QED
  BY <1>3, <1>8, <1>9 DEF GatesInv

\* Every step of the gates keeps the outcomes of the experiment good.
LEMMA GatesInvInductive ==
  GatesSpec => []GatesInv
<1>1. GatesInit => GatesInv
  BY DEF GatesInit, GatesInv, ToSet
<1>2. GatesInv /\ [GatesNext]_gateVars => GatesInv'
  <2> SUFFICES ASSUME GatesInv, [GatesNext]_gateVars
      PROVE  GatesInv'
    OBVIOUS
  <2>1. ASSUME NEW a \in [Customers -> Groups], NEW evidence, NEW intact,
               experiment' = Experiment(a, evidence, intact), outcomes' = <<>>, UNCHANGED day
        PROVE  GatesInv'
    <3>1. experiment'.assignment = a /\ experiment'.lockedAt = day
      BY <2>1 DEF Experiment
    <3>2. DOMAIN outcomes' = {} /\ outcomes' \in Seq(ToSet(outcomes'))
      BY <2>1 DEF ToSet
    <3> QED
      BY <2>1, <3>1, <3>2 DEF GatesInv
  <2>2. CASE UNCHANGED gateVars
    BY <2>2 DEF gateVars, GatesInv
  <2>3. CASE ImportHistory
    BY <2>1, <2>3 DEF ImportHistory
  <2>4. CASE RegisterExperiment
    <3>1. PICK holdout \in Holdouts, recommended \in [Customers -> Treatments] :
            experiment' = Experiment(
              [c \in Customers |-> IF c \in holdout THEN "control" ELSE recommended[c]],
              Generated, TRUE)
      BY <2>4 DEF RegisterExperiment
    <3>2. [c \in Customers |-> IF c \in holdout THEN "control" ELSE recommended[c]]
            \in [Customers -> Groups]
      BY DEF Groups
    <3> QED
      BY <2>1, <2>4, <3>1, <3>2 DEF RegisterExperiment
  <2>5. CASE DayPasses
    BY <2>5 DEF DayPasses, GatesInv
  <2> QED
    BY <2>2, <2>3, <2>4, <2>5, ImportOutcomeKeeps DEF GatesNext
<1> QED
  BY <1>1, <1>2, PTL DEF GatesSpec

\* Among good outcomes only one at the top of the ladder decides for scale.
LEMMA InvClimbsTheLadder ==
  GatesInv => ScaleClimbedTheLadder
<1> SUFFICES ASSUME GatesInv, NEW k \in DOMAIN outcomes
    PROVE  LET o == outcomes[k] rows == o.rows
               of(g) == {i \in DOMAIN rows : rows[i].group = g}
           IN
           /\ o.decision = "scale" => /\ ClaimLevel(o) = "randomized_estimate"
                                      /\ o.result.primary.low > 0
                                      /\ o.result.revenue.low >= Margin
                                      /\ o.result.conversion.low >= Margin
           /\ DecisionComplete(o) <=> o.decision \in {"scale", "stop"}
           /\ ClaimLevel(o) # "pilot_observation" =>
                /\ experiment.verified
                /\ {rows[i].customer : i \in DOMAIN rows} \subseteq Customers
                /\ Len(rows) <= Cardinality(Customers)
                /\ 20 * Len(rows) >= 19 * Cardinality(Customers)
                /\ \A i \in DOMAIN rows :
                     /\ rows[i].group = experiment.assignment[rows[i].customer]
                     /\ IF rows[i].group = "control" THEN rows[i].exposedAt = NotExposed
                        ELSE rows[i].exposedAt \in experiment.lockedAt..(o.at - OutcomeWindow)
                /\ {Cardinality(of("control")), Len(rows) - Cardinality(of("control"))}
                     \subseteq MinSample..Cardinality(Customers)
  BY DEF ScaleClimbedTheLadder
<1>1. PICK o : o = outcomes[k]
  OBVIOUS
<1>2. GoodOutcome(experiment, o)
  BY <1>1 DEF GatesInv
<1>3. PICK rows, s : rows = o.rows /\ s = o.result
  OBVIOUS
<1>4. o.decision \in {"scale", "stop"} => o.eligible
  BY <1>2 DEF GoodOutcome, Decision
<1>5. o.decision = "scale" =>
        /\ StudyValid(rows, s) /\ Adequate(rows) /\ s.primary.low > 0
        /\ Guardrails(s) \cap {"fail", "inconclusive"} = {}
  BY <1>2, <1>3 DEF GoodOutcome, Decision
<1>6. Guardrails(s) \cap {"fail", "inconclusive"} = {} =>
        s.revenue.low >= Margin /\ s.conversion.low >= Margin
  BY DEF Guardrails, NonInferior
<1>7. o.decision = "scale" => ClaimLevel(o) = "randomized_estimate"
  BY <1>2, <1>3, <1>4, <1>5 DEF GoodOutcome, EvidenceStatus, ClaimLevel
<1>8. ClaimLevel(o) # "pilot_observation" => o.eligible /\ Adequate(rows)
  BY <1>2, <1>3 DEF GoodOutcome, EvidenceStatus, ClaimLevel
<1>9. o.eligible => Climbed(experiment, o)
  BY <1>2 DEF GoodOutcome
<1>10. /\ rows \in OutcomeFiles
       /\ \A i \in DOMAIN rows :
            /\ rows[i].customer \in Customers
            /\ rows[i].group = experiment.assignment[rows[i].customer]
  BY <1>2, <1>3 DEF GoodOutcome
<1>11. ClaimLevel(o) # "pilot_observation" =>
         LET of(g) == {i \in DOMAIN rows : rows[i].group = g} IN
         {Cardinality(of("control")), Len(rows) - Cardinality(of("control"))}
           \subseteq MinSample..Cardinality(Customers)
  BY <1>3, <1>8, <1>9, <1>10, AdequateArms DEF Climbed
<1>12. DecisionComplete(o) <=> o.decision \in {"scale", "stop"}
  BY <1>4 DEF DecisionComplete
<1>13. ClaimLevel(o) # "pilot_observation" => Climbed(experiment, o)
  BY <1>8, <1>9
<1> QED
  BY <1>1, <1>3, <1>5, <1>6, <1>7, <1>10, <1>11, <1>12, <1>13 DEF Climbed

\* Whatever files and declarations come in, a decision for scale and a claim of the
\* third step are made only of an experiment that climbed every step of the ladder.
THEOREM ScaleOnlyFromTheTop ==
  GatesSpec => []ScaleClimbedTheLadder
BY GatesInvInductive, InvClimbsTheLadder, PTL

-----------------------------------------------------------------------------
(* What an acceptance says of its sources                                  *)

Study == [analysis : Nat, verified : BOOLEAN, outcomes : Nat]

\* The sources are well formed where studies are looked up.
GoodSources(s) ==
  /\ DOMAIN s = {"contract", "finance", "room", "analyses", "experiments"}
  /\ s.analyses \in Seq(BOOLEAN) /\ s.experiments \in Seq(Study)
  /\ Studied(s)

\* Studies are added and get outcomes; nothing else of them changes.
SourcesGrow(s, t) ==
  /\ Len(s.analyses) <= Len(t.analyses)
  /\ \A a \in 1..Len(s.analyses) : t.analyses[a] = s.analyses[a]
  /\ Len(s.experiments) <= Len(t.experiments)
  /\ \A e \in 1..Len(s.experiments) :
       /\ t.experiments[e].analysis = s.experiments[e].analysis
       /\ t.experiments[e].verified = s.experiments[e].verified
       /\ s.experiments[e].outcomes <= t.experiments[e].outcomes

\* What was read of contract and ledger was so since the request came, and what
\* was read of the study is of one study and still so.
GoodContext(s, q) ==
  /\ q.contract \in ApprovedStages => "contract" \in q.held
  /\ q.finance = "verified" => "impact" \in q.held
  /\ q.analysis \in 0..Len(s.analyses)
  /\ q.ready => DataReady(s, q.analysis)
  /\ q.experiment \in 0..Len(s.experiments)
  /\ q.experiment # 0 => s.experiments[q.experiment].analysis = q.analysis
  /\ q.verified => q.experiment # 0 /\ s.experiments[q.experiment].verified
  /\ q.outcome # <<>> =>
       /\ q.experiment # 0 /\ q.outcome[1] = q.experiment
       /\ q.outcome[2] \in 0..s.experiments[q.experiment].outcomes

\* What was read of the room was so as well.
GoodRoom(q) ==
  /\ Rehearsed(q.room) => "rehearsal" \in q.held
  /\ ~q.room.critical => "drills" \in q.held
  /\ q.room.life \in Running => "running" \in q.held
  /\ q.room.life \in Concluded => "concluded" \in q.held

RequestFields ==
  {"pc", "kind", "unread", "held", "contract", "finance", "analysis", "ready",
   "experiment", "verified", "outcome", "room"}

GoodRequest(s, q) ==
  /\ DOMAIN q = RequestFields
  /\ q.pc \in {"idle", "sources", "outcome", "room", "transact"}
  /\ q.pc # "idle" => Facts(s) \subseteq q.held
  /\ GoodContext(s, q)
  /\ q.pc = "sources" => q.experiment = 0 /\ ~q.verified
  /\ q.pc \in {"sources", "outcome"} => q.outcome = <<>>
  /\ q.pc = "transact" => GoodRoom(q)

GoodAcceptance(s, a) ==
  a.persisted =>
    /\ DOMAIN a = {"persisted", "named", "experiment", "outcome", "submitted", "context",
                   "package", "stated"}
    /\ a.submitted \subseteq Submitted(a.context) /\ GoodContext(s, a.context) /\ GoodRoom(a.context)
    /\ a.package # {} =>
         a.package = Stated(a.stated) /\ GoodContext(s, a.stated) /\ GoodRoom(a.stated)
    /\ "outcome" \in a.submitted /\ a.named = FALSE =>
         a.outcome # <<>> /\ a.outcome[1] = a.experiment

EvidenceInv ==
  /\ GoodSources(sources)
  /\ GoodRequest(sources, request)
  /\ GoodAcceptance(sources, acceptance)

\* What is read of contract, ledger and room is among what is so.
LEMMA FactsOfSources ==
  ASSUME NEW s
  PROVE  /\ s.contract \in ApprovedStages => "contract" \in Facts(s)
         /\ s.finance = "verified" => "impact" \in Facts(s)
         /\ Rehearsed(s.room) => "rehearsal" \in Facts(s)
         /\ ~s.room.critical => "drills" \in Facts(s)
         /\ s.room.life \in Running => "running" \in Facts(s)
         /\ s.room.life \in Concluded => "concluded" \in Facts(s)
BY DEF Facts

\* What a request has read of the studies stays true while they grow.
LEMMA ContextStays ==
  ASSUME NEW s, NEW t, NEW q, GoodSources(s), GoodSources(t), SourcesGrow(s, t),
         GoodContext(s, q)
  PROVE  GoodContext(t, q)
<1>1. /\ Len(s.analyses) \in Nat /\ Len(t.analyses) \in Nat
      /\ Len(s.experiments) \in Nat /\ Len(t.experiments) \in Nat
      /\ \A e \in 1..Len(s.experiments) : s.experiments[e] \in Study
      /\ \A e \in 1..Len(t.experiments) : t.experiments[e] \in Study
  BY ElementOfSeq DEF GoodSources
<1>2. q.analysis \in 0..Len(t.analyses) /\ q.experiment \in 0..Len(t.experiments)
  BY <1>1 DEF GoodContext, SourcesGrow
<1>3. q.ready => DataReady(t, q.analysis)
  BY <1>1 DEF GoodContext, SourcesGrow, DataReady
<1>4. q.experiment # 0 =>
        /\ t.experiments[q.experiment].analysis = s.experiments[q.experiment].analysis
        /\ t.experiments[q.experiment].verified = s.experiments[q.experiment].verified
        /\ s.experiments[q.experiment].outcomes <= t.experiments[q.experiment].outcomes
        /\ s.experiments[q.experiment].outcomes \in Nat
        /\ t.experiments[q.experiment].outcomes \in Nat
  BY <1>1, <1>2 DEF GoodContext, SourcesGrow, Study
<1> QED
  BY <1>2, <1>3, <1>4 DEF GoodContext

\* What an acceptance says stays so while the sources grow.
LEMMA AcceptanceStays ==
  ASSUME NEW s, NEW t, NEW a, GoodSources(s), GoodSources(t), SourcesGrow(s, t),
         GoodAcceptance(s, a)
  PROVE  GoodAcceptance(t, a)
BY ContextStays DEF GoodAcceptance

\* The sources that move grow.
SourcesMove(s, t) == GoodSources(t) /\ SourcesGrow(s, t)

\* A change of contract, ledger or room leaves the studies as they are.
LEMMA StudiesStay ==
  ASSUME NEW s, NEW t, GoodSources(s), DOMAIN t = DOMAIN s,
         t.analyses = s.analyses, t.experiments = s.experiments
  PROVE  SourcesMove(s, t)
<1>1. s.analyses \in Seq(BOOLEAN) /\ s.experiments \in Seq(Study)
  BY DEF GoodSources
<1>2. /\ Len(s.analyses) \in Nat /\ Len(s.experiments) \in Nat
      /\ \A e \in 1..Len(s.experiments) : s.experiments[e] \in Study
  BY <1>1, ElementOfSeq
<1>3. \A e \in 1..Len(s.experiments) : s.experiments[e].outcomes \in Nat
  BY <1>2 DEF Study
<1> QED
  BY <1>2, <1>3 DEF SourcesMove, SourcesGrow, GoodSources, Studied

\* An experiment is added, on an analysis there is or together with a new one.
LEMMA StudyAdded ==
  ASSUME NEW s, NEW t, GoodSources(s), DOMAIN t = DOMAIN s, NEW x \in Study,
         t.experiments = Append(s.experiments, x),
         \/ t.analyses = s.analyses /\ x.analysis \in 1..Len(s.analyses)
         \/ \E ready \in BOOLEAN :
              t.analyses = Append(s.analyses, ready) /\ x.analysis = Len(s.analyses) + 1
  PROVE  SourcesMove(s, t)
<1> DEFINE m == Len(s.analyses)
           n == Len(s.experiments)
<1>1. /\ s.analyses \in Seq(BOOLEAN) /\ s.experiments \in Seq(Study)
      /\ {s.experiments[i].analysis : i \in DOMAIN s.experiments} = 1..m
  BY DEF GoodSources, Studied
<1>2. /\ m \in Nat /\ n \in Nat /\ DOMAIN s.experiments = 1..n
      /\ \A e \in 1..n : s.experiments[e] \in Study
  BY <1>1, ElementOfSeq
<1>3. /\ t.experiments \in Seq(Study) /\ Len(t.experiments) = n + 1
      /\ DOMAIN t.experiments = 1..(n + 1)
      /\ \A e \in 1..n : t.experiments[e] = s.experiments[e]
      /\ t.experiments[n + 1] = x
  BY <1>1, <1>2, AppendProperties
<1>4. /\ t.analyses \in Seq(BOOLEAN) /\ Len(t.analyses) \in {m, m + 1}
      /\ \A a \in 1..m : t.analyses[a] = s.analyses[a]
      /\ 1..Len(t.analyses) = 1..m \cup {x.analysis}
  <2>1. CASE t.analyses = s.analyses /\ x.analysis \in 1..m
    BY <1>1, <1>2, <2>1
  <2>2. CASE \E ready \in BOOLEAN :
               t.analyses = Append(s.analyses, ready) /\ x.analysis = m + 1
    <3>1. PICK ready \in BOOLEAN :
            t.analyses = Append(s.analyses, ready) /\ x.analysis = m + 1
      BY <2>2
    <3>2. /\ t.analyses \in Seq(BOOLEAN) /\ Len(t.analyses) = m + 1
          /\ \A a \in 1..m : t.analyses[a] = s.analyses[a]
      BY <1>1, <3>1, AppendProperties
    <3>3. 1..(m + 1) = 1..m \cup {m + 1}
      BY <1>2
    <3> QED
      BY <3>1, <3>2, <3>3
  <2> QED
    BY <2>1, <2>2
<1> HIDE DEF m, n
<1>5. {t.experiments[i].analysis : i \in 1..(n + 1)}
        = {s.experiments[i].analysis : i \in 1..n} \cup {x.analysis}
  <2>1. \A i \in 1..(n + 1) : i \in 1..n \/ i = n + 1
    BY <1>2
  <2>2. n + 1 \in 1..(n + 1) /\ 1..n \subseteq 1..(n + 1)
    BY <1>2
  <2> QED
    BY <1>3, <2>1, <2>2
<1>6. GoodSources(t)
  BY <1>1, <1>2, <1>3, <1>4, <1>5 DEF GoodSources, Studied, m
<1>7. SourcesGrow(s, t)
  <2>1. \A e \in 1..n : s.experiments[e].outcomes \in Nat
    BY <1>2 DEF Study
  <2> QED
    BY <1>2, <1>3, <1>4, <2>1 DEF SourcesGrow, m, n
<1> QED
  BY <1>6, <1>7 DEF SourcesMove

\* An outcome is one more of its experiment.
LEMMA OutcomeAdded ==
  ASSUME NEW s, NEW t, GoodSources(s), DOMAIN t = DOMAIN s, t.analyses = s.analyses,
         NEW i \in DOMAIN s.experiments,
         t.experiments = [s.experiments EXCEPT ![i].outcomes = @ + 1]
  PROVE  SourcesMove(s, t)
<1> DEFINE n == Len(s.experiments)
<1>1. /\ s.analyses \in Seq(BOOLEAN) /\ s.experiments \in Seq(Study)
      /\ {s.experiments[e].analysis : e \in DOMAIN s.experiments} = 1..Len(s.analyses)
      /\ Len(s.analyses) \in Nat
  BY DEF GoodSources, Studied
<1>2. /\ n \in Nat /\ DOMAIN s.experiments = 1..n
      /\ \A e \in 1..n : s.experiments[e] \in Study
  BY <1>1, ElementOfSeq
<1>3. PICK x : x = s.experiments[i]
  OBVIOUS
<1>4. PICK y : y = [x EXCEPT !.outcomes = @ + 1]
  OBVIOUS
<1>5. x \in Study
  BY <1>2, <1>3
<1>6. /\ y \in Study /\ y.analysis = x.analysis /\ y.verified = x.verified
      /\ y.outcomes = x.outcomes + 1
  BY <1>4, <1>5 DEF Study
<1>7. t.experiments = [s.experiments EXCEPT ![i] = y]
  BY <1>3, <1>4
<1>8. /\ t.experiments \in Seq(Study) /\ Len(t.experiments) = n
      /\ DOMAIN t.experiments = 1..n
      /\ \A e \in 1..n : t.experiments[e] = IF e = i THEN y ELSE s.experiments[e]
  <2>1. PICK u : u = s.experiments
    OBVIOUS
  <2>2. PICK v : v = t.experiments
    OBVIOUS
  <2>3. u \in Seq(Study) /\ i \in DOMAIN u /\ y \in Study /\ v = [u EXCEPT ![i] = y]
    BY <1>1, <1>6, <1>7, <2>1, <2>2
  <2>4. v \in Seq(Study) /\ Len(v) = Len(u) /\ DOMAIN v = DOMAIN u
    BY <2>3, ExceptSeq
  <2>5. \A e \in DOMAIN u : v[e] = IF e = i THEN y ELSE u[e]
    BY <2>3
  <2> QED
    BY <1>2, <2>1, <2>2, <2>4, <2>5
<1> HIDE DEF n
<1>9. \A e \in 1..n :
        /\ t.experiments[e].analysis = s.experiments[e].analysis
        /\ t.experiments[e].verified = s.experiments[e].verified
        /\ s.experiments[e].outcomes <= t.experiments[e].outcomes
  <2> TAKE e \in 1..n
  <2>1. s.experiments[e].outcomes \in Nat
    BY <1>2 DEF Study
  <2>2. CASE e = i
    BY <1>3, <1>6, <1>8, <2>1, <2>2
  <2>3. CASE e # i
    BY <1>8, <2>1, <2>3
  <2> QED
    BY <2>2, <2>3
<1>10. {t.experiments[e].analysis : e \in 1..n} = {s.experiments[e].analysis : e \in 1..n}
  BY <1>9
<1>11. GoodSources(t)
  BY <1>1, <1>2, <1>8, <1>10 DEF GoodSources, Studied
<1>12. SourcesGrow(s, t)
  BY <1>1, <1>2, <1>8, <1>9 DEF SourcesGrow, n
<1> QED
  BY <1>11, <1>12 DEF SourcesMove

\* However the others move, the studies grow.
LEMMA MovesGrow ==
  ASSUME NEW s, NEW t, GoodSources(s),
         t \in MoveRecord(s) \cup MoveStudy(s)
  PROVE  SourcesMove(s, t)
<1> DEFINE m == Len(s.analyses)
           n == Len(s.experiments)
           With(a, v) == [analysis |-> a, verified |-> v, outcomes |-> 0]
<1>1. DOMAIN s = {"contract", "finance", "room", "analyses", "experiments"}
  BY DEF GoodSources
<1>2. s.analyses \in Seq(BOOLEAN) /\ s.experiments \in Seq(Study)
  BY DEF GoodSources
<1>3. CASE t \in MoveContract(s)
  <2>1. PICK c : t = [s EXCEPT !.contract = c]
    BY <1>3 DEF MoveContract
  <2> QED
    BY <1>1, <2>1, StudiesStay
<1>4. CASE t \in MoveLedger(s)
  <2>1. PICK f : t = [s EXCEPT !.finance = f]
    BY <1>4 DEF MoveLedger
  <2> QED
    BY <1>1, <2>1, StudiesStay
<1>5. CASE t \in MoveRoom(s)
  <2>1. ASSUME NEW room, t = [s EXCEPT !.room = room] PROVE SourcesMove(s, t)
    BY <1>1, <2>1, StudiesStay
  <2>2. \E room : t = [s EXCEPT !.room = room]
    <3> DEFINE Fresh == [life : {"draft"}, ahead : BOOLEAN, critical : BOOLEAN]
               Onward == [s EXCEPT !.room = [life |-> RoomStages[StageRank(RoomStages, @.life) + 1],
                                             ahead |-> FALSE, critical |-> @.critical]]
    <3>1. CASE \E c \in BOOLEAN : t = [s EXCEPT !.room.critical = c]
      BY <3>1
    <3>2. CASE \E room \in Fresh : t = [s EXCEPT !.room = room]
      BY <3>2
    <3>3. CASE t = Onward
      BY <3>3
    <3> DEFINE Blocked == {[s EXCEPT !.room.critical = c] : c \in BOOLEAN}
               Created == {[s EXCEPT !.room = room] : room \in Fresh}
               Moved == IF s.room.life = "closed" THEN {} ELSE {Onward}
    <3>4. MoveRoom(s) = (Blocked \cup Created) \cup Moved
      BY DEF MoveRoom
    <3>5. t \in Moved => t = Onward
      OBVIOUS
    <3>6. t \in Blocked => \E c \in BOOLEAN : t = [s EXCEPT !.room.critical = c]
      OBVIOUS
    <3>7. t \in Created
            => \E room \in Fresh : t = [s EXCEPT !.room = room]
      OBVIOUS
    <3> HIDE DEF Fresh, Onward, Blocked, Created, Moved
    <3>8. t \in Blocked \/ t \in Created \/ t \in Moved
      BY <1>5, <3>4
    <3> QED
      BY <3>1, <3>2, <3>3, <3>5, <3>6, <3>7, <3>8
  <2> QED
    BY <2>1, <2>2
<1>6. CASE t \in MoveStudy(s)
  <2>1. CASE \E ready \in BOOLEAN :
               t = [s EXCEPT !.analyses = Append(@, ready),
                             !.experiments = Append(@, With(m + 1, FALSE))]
    <3>1. PICK ready \in BOOLEAN :
            t = [s EXCEPT !.analyses = Append(@, ready),
                          !.experiments = Append(@, With(m + 1, FALSE))]
      BY <2>1
    <3>2. PICK x : x = With(m + 1, FALSE)
      OBVIOUS
    <3>3. x \in Study /\ x.analysis = m + 1
      BY <1>2, <3>2 DEF Study
    <3>4. /\ DOMAIN t = DOMAIN s
          /\ t.analyses = Append(s.analyses, ready) /\ t.experiments = Append(s.experiments, x)
      BY <1>1, <3>1, <3>2
    <3> QED
      BY <3>3, <3>4, StudyAdded
  <2>2. CASE \E a \in DOMAIN s.analyses :
               t = [s EXCEPT !.experiments = Append(@, With(a, TRUE))]
    <3>0. PICK a \in DOMAIN s.analyses : t = [s EXCEPT !.experiments = Append(@, With(a, TRUE))]
      BY <2>2
    <3>1. PICK x : x = With(a, TRUE)
      OBVIOUS
    <3>2. x \in Study /\ x.analysis \in 1..m
      BY <1>2, <3>1 DEF Study
    <3>3. /\ DOMAIN t = DOMAIN s
          /\ t.analyses = s.analyses /\ t.experiments = Append(s.experiments, x)
      BY <1>1, <3>0, <3>1
    <3> QED
      BY <3>2, <3>3, StudyAdded
  <2>3. CASE \E i \in DOMAIN s.experiments :
               t = [s EXCEPT !.experiments[i].outcomes = @ + 1]
    <3>1. PICK i \in DOMAIN s.experiments :
            t = [s EXCEPT !.experiments[i].outcomes = @ + 1]
      BY <2>3
    <3>2. /\ DOMAIN t = DOMAIN s /\ t.analyses = s.analyses
          /\ t.experiments = [s.experiments EXCEPT ![i].outcomes = @ + 1]
      BY <1>1, <3>1
    <3> QED
      BY <3>2, OutcomeAdded
  <2> QED
    BY <1>6, <2>1, <2>2, <2>3 DEF MoveStudy
<1> QED
  BY <1>3, <1>4, <1>5, <1>6 DEF MoveRecord

\* The others move: what was read stays true, and what is so now is remembered.
LEMMA OthersKeepEvidence ==
  EvidenceInv /\ OthersMove => EvidenceInv'
<1> SUFFICES ASSUME EvidenceInv, OthersMove
             PROVE  EvidenceInv'
  OBVIOUS
<1>1. PICK s : s = sources
  OBVIOUS
<1>2. PICK t : t = sources'
  OBVIOUS
<1>3. PICK q : q = request
  OBVIOUS
<1>4. PICK r : r = request'
  OBVIOUS
<1>5. GoodSources(s) /\ GoodRequest(s, q) /\ GoodAcceptance(s, acceptance)
  BY <1>1, <1>3 DEF EvidenceInv
<1>6. SourcesMove(s, t)
  BY <1>1, <1>2, <1>5, MovesGrow DEF OthersMove
<1>7. GoodSources(t) /\ SourcesGrow(s, t)
  BY <1>6 DEF SourcesMove
<1>8. GoodContext(t, q)
  BY <1>5, <1>7, ContextStays DEF GoodRequest
<1>9. r = IF q.pc = "idle" THEN q ELSE [q EXCEPT !.held = @ \cup Facts(t)]
  BY <1>2, <1>3, <1>4 DEF OthersMove
<1>10. GoodRequest(t, r)
  <2>1. CASE q.pc = "idle"
    BY <1>5, <1>8, <1>9, <2>1 DEF GoodRequest
  <2>2. CASE q.pc # "idle"
    <3>1. DOMAIN q = RequestFields
      BY <1>5 DEF GoodRequest
    <3>2. PICK h : h = q.held \cup Facts(t)
      OBVIOUS
    <3>3. r = [q EXCEPT !.held = h]
      BY <1>9, <2>2, <3>2
    <3>4. /\ DOMAIN r = RequestFields /\ r.held = h
          /\ r.pc = q.pc /\ r.contract = q.contract /\ r.finance = q.finance
          /\ r.analysis = q.analysis /\ r.ready = q.ready /\ r.experiment = q.experiment
          /\ r.verified = q.verified /\ r.outcome = q.outcome /\ r.room = q.room
      BY <3>1, <3>3 DEF RequestFields
    <3>5. GoodContext(t, r)
      BY <1>8, <3>2, <3>4 DEF GoodContext
    <3>6. q.pc = "transact" => GoodRoom(r)
      BY <1>5, <3>2, <3>4 DEF GoodRequest, GoodRoom
    <3> QED
      BY <1>5, <3>2, <3>4, <3>5, <3>6 DEF GoodRequest
  <2> QED
    BY <2>1, <2>2
<1>11. GoodAcceptance(t, acceptance)
  BY <1>5, <1>7, AcceptanceStays
<1>12. acceptance' = acceptance
  BY DEF OthersMove
<1> QED
  BY <1>2, <1>4, <1>7, <1>10, <1>11, <1>12 DEF EvidenceInv

\* The current experiment of an analysis is one of that analysis.
LEMMA ExperimentOfItsAnalysis ==
  ASSUME NEW s, GoodSources(s), NEW a \in 0..Len(s.analyses), NEW e, e = ExperimentOf(s, a)
  PROVE  /\ e \in 0..Len(s.experiments)
         /\ e # 0 => s.experiments[e].analysis = a
<1>1. CASE a = 0
  BY <1>1 DEF ExperimentOf, GoodSources
<1>2. CASE a # 0
  <2> DEFINE those == {i \in DOMAIN s.experiments : s.experiments[i].analysis = a}
             F == [i \in those |-> i]
  <2>1. /\ s.analyses \in Seq(BOOLEAN) /\ s.experiments \in Seq(Study)
        /\ {s.experiments[i].analysis : i \in DOMAIN s.experiments} = 1..Len(s.analyses)
    BY DEF GoodSources, Studied
  <2>2. /\ Len(s.analyses) \in Nat /\ Len(s.experiments) \in Nat
        /\ DOMAIN s.experiments = 1..Len(s.experiments)
    BY <2>1
  <2>3. a \in 1..Len(s.analyses)
    BY <1>2, <2>2
  <2>4. those # {}
    BY <2>1, <2>3
  <2>5. those \subseteq 1..Len(s.experiments)
    BY <2>2
  <2>6. IsFiniteSet(those)
    <3>1. IsFiniteSet(1..Len(s.experiments))
      BY <2>2, FS_Interval
    <3> HIDE DEF those
    <3> QED
      BY <2>5, <3>1, FS_Subset
  <2>7. \E i \in those : \A j \in those : i >= j
    <3>1. F \in [those -> Int]
      BY <2>2, <2>5
    <3> HIDE DEF those
    <3>2. \E i \in those : \A j \in those : F[i] >= F[j]
      BY <2>4, <2>6, <3>1, SomeGreatest
    <3> QED
      BY <3>2
  <2>8. e = Max(those)
    BY <1>2 DEF ExperimentOf
  <2> HIDE DEF those
  <2>9. e \in those
    BY <2>7, <2>8 DEF Max
  <2> QED
    BY <2>2, <2>5, <2>9 DEF those
<1> QED
  BY <1>1, <1>2

\* A step of the request alone.
LEMMA RequestMoves ==
  ASSUME EvidenceInv, UNCHANGED <<sources, acceptance>>, GoodRequest(sources, request')
  PROVE  EvidenceInv'
<1>1. PICK r : r = request'
  OBVIOUS
<1> QED
  BY <1>1 DEF EvidenceInv

\* A request that reads the sources reads what is so.
LEMMA ReadingKeepsEvidence ==
  ASSUME EvidenceInv,
         \/ Begin
         \/ ReadSource("contract", [request EXCEPT !.contract = sources.contract])
         \/ ReadSource("ledger", [request EXCEPT !.finance = sources.finance])
         \/ ReadAnalysis \/ ReadExperiment \/ ReadOutcome \/ ReadRoom
  PROVE  EvidenceInv'
<1>1. PICK s : s = sources
  OBVIOUS
<1>2. PICK q : q = request
  OBVIOUS
<1>3. PICK r : r = request'
  OBVIOUS
<1>4. GoodSources(s) /\ GoodRequest(s, q)
  BY <1>1, <1>2 DEF EvidenceInv
<1>5. DOMAIN q = RequestFields /\ GoodContext(s, q)
  BY <1>4 DEF GoodRequest
<1>6. /\ s.analyses \in Seq(BOOLEAN) /\ Len(s.analyses) \in Nat
      /\ s.experiments \in Seq(Study) /\ Len(s.experiments) \in Nat
  BY <1>4 DEF GoodSources
<1>7. \A e \in 1..Len(s.experiments) : s.experiments[e] \in Study
  BY <1>6, ElementOfSeq
<1>8. UNCHANGED <<sources, acceptance>>
  BY DEF Begin, ReadSource, ReadAnalysis, ReadExperiment, ReadOutcome, ReadRoom
<1>9. CASE Begin
  <2>1. PICK kind : r = [Idling EXCEPT !.pc = "sources", !.kind = kind, !.held = Facts(s)]
    BY <1>1, <1>3, <1>9 DEF Begin
  <2>2. /\ DOMAIN r = RequestFields /\ r.pc = "sources" /\ r.held = Facts(s)
        /\ r.contract = Nothing /\ r.finance = Nothing /\ r.analysis = 0 /\ r.ready = FALSE
        /\ r.experiment = 0 /\ r.verified = FALSE /\ r.outcome = <<>>
    BY <2>1 DEF Idling, RequestFields
  <2>3. GoodContext(s, r)
    BY <1>6, <2>2 DEF GoodContext, Nothing, ApprovedStages
  <2>4. GoodRequest(s, r)
    BY <2>2, <2>3 DEF GoodRequest
  <2> QED
    BY <1>1, <1>3, <1>8, <2>4, RequestMoves
<1>10. CASE ReadSource("contract", [request EXCEPT !.contract = sources.contract])
  <2>1. /\ q.pc = "sources"
        /\ r = [[q EXCEPT !.contract = s.contract] EXCEPT !.unread = @ \ {"contract"}]
    BY <1>1, <1>2, <1>3, <1>10 DEF ReadSource
  <2>2. /\ DOMAIN r = RequestFields /\ r.pc = q.pc /\ r.held = q.held
        /\ r.contract = s.contract /\ r.finance = q.finance
        /\ r.analysis = q.analysis /\ r.ready = q.ready /\ r.experiment = q.experiment
        /\ r.verified = q.verified /\ r.outcome = q.outcome /\ r.room = q.room
    BY <1>5, <2>1 DEF RequestFields
  <2>3. r.contract \in ApprovedStages => "contract" \in r.held
    BY <1>4, <2>1, <2>2, FactsOfSources DEF GoodRequest
  <2>4. GoodContext(s, r)
    BY <1>5, <2>2, <2>3 DEF GoodContext
  <2>5. GoodRequest(s, r)
    BY <1>4, <2>1, <2>2, <2>4 DEF GoodRequest
  <2> QED
    BY <1>1, <1>3, <1>8, <2>5, RequestMoves
<1>11. CASE ReadSource("ledger", [request EXCEPT !.finance = sources.finance])
  <2>1. /\ q.pc = "sources"
        /\ r = [[q EXCEPT !.finance = s.finance] EXCEPT !.unread = @ \ {"ledger"}]
    BY <1>1, <1>2, <1>3, <1>11 DEF ReadSource
  <2>2. /\ DOMAIN r = RequestFields /\ r.pc = q.pc /\ r.held = q.held
        /\ r.contract = q.contract /\ r.finance = s.finance
        /\ r.analysis = q.analysis /\ r.ready = q.ready /\ r.experiment = q.experiment
        /\ r.verified = q.verified /\ r.outcome = q.outcome /\ r.room = q.room
    BY <1>5, <2>1 DEF RequestFields
  <2>3. r.finance = "verified" => "impact" \in r.held
    BY <1>4, <2>1, <2>2, FactsOfSources DEF GoodRequest
  <2>4. GoodContext(s, r)
    BY <1>5, <2>2, <2>3 DEF GoodContext
  <2>5. GoodRequest(s, r)
    BY <1>4, <2>1, <2>2, <2>4 DEF GoodRequest
  <2> QED
    BY <1>1, <1>3, <1>8, <2>5, RequestMoves
<1>12. CASE ReadAnalysis
  <2>1. PICK n : n = Len(s.analyses)
    OBVIOUS
  <2>2. /\ q.pc = "sources"
        /\ r = [[q EXCEPT !.analysis = n, !.ready = DataReady(s, n)]
                  EXCEPT !.unread = @ \ {"analysis"}]
    BY <1>1, <1>2, <1>3, <1>12, <2>1 DEF ReadAnalysis, ReadSource
  <2>3. /\ DOMAIN r = RequestFields /\ r.pc = q.pc /\ r.held = q.held
        /\ r.contract = q.contract /\ r.finance = q.finance
        /\ r.analysis = n /\ r.ready = DataReady(s, n) /\ r.experiment = q.experiment
        /\ r.verified = q.verified /\ r.outcome = q.outcome /\ r.room = q.room
    BY <1>5, <2>2 DEF RequestFields
  <2>4. q.experiment = 0 /\ ~q.verified /\ q.outcome = <<>>
    BY <1>4, <2>2 DEF GoodRequest
  <2>5. GoodContext(s, r)
    BY <1>5, <1>6, <2>1, <2>3, <2>4 DEF GoodContext
  <2>6. GoodRequest(s, r)
    BY <1>4, <2>2, <2>3, <2>4, <2>5 DEF GoodRequest
  <2> QED
    BY <1>1, <1>3, <1>8, <2>6, RequestMoves
<1>13. CASE ReadExperiment
  <2>1. PICK e : e = ExperimentOf(s, q.analysis)
    OBVIOUS
  <2>2. PICK v : v = (e # 0 /\ s.experiments[e].verified)
    OBVIOUS
  <2>3. q.pc = "sources" /\ r = [q EXCEPT !.pc = "outcome", !.experiment = e, !.verified = v]
    BY <1>1, <1>2, <1>3, <1>13, <2>1, <2>2 DEF ReadExperiment
  <2>4. /\ DOMAIN r = RequestFields /\ r.pc = "outcome" /\ r.held = q.held
        /\ r.contract = q.contract /\ r.finance = q.finance
        /\ r.analysis = q.analysis /\ r.ready = q.ready /\ r.experiment = e
        /\ r.verified = v /\ r.outcome = q.outcome /\ r.room = q.room
    BY <1>5, <2>3 DEF RequestFields
  <2>5. q.analysis \in 0..Len(s.analyses)
    BY <1>5 DEF GoodContext
  <2>6. e \in 0..Len(s.experiments) /\ (e # 0 => s.experiments[e].analysis = q.analysis)
    BY <1>4, <2>1, <2>5, ExperimentOfItsAnalysis
  <2>7. q.outcome = <<>>
    BY <1>4, <2>3 DEF GoodRequest
  <2>8. GoodContext(s, r)
    BY <1>5, <2>2, <2>4, <2>6, <2>7 DEF GoodContext
  <2>9. GoodRequest(s, r)
    BY <1>4, <2>3, <2>4, <2>7, <2>8 DEF GoodRequest
  <2> QED
    BY <1>1, <1>3, <1>8, <2>9, RequestMoves
<1>14. CASE ReadOutcome
  <2>1. PICK o : o = OutcomeOf(s, q.experiment)
    OBVIOUS
  <2>2. q.pc = "outcome" /\ r = [q EXCEPT !.pc = "room", !.outcome = o]
    BY <1>1, <1>2, <1>3, <1>14, <2>1 DEF ReadOutcome
  <2>3. /\ DOMAIN r = RequestFields /\ r.pc = "room" /\ r.held = q.held
        /\ r.contract = q.contract /\ r.finance = q.finance
        /\ r.analysis = q.analysis /\ r.ready = q.ready /\ r.experiment = q.experiment
        /\ r.verified = q.verified /\ r.outcome = o /\ r.room = q.room
    BY <1>5, <2>2 DEF RequestFields
  <2>4. o # <<>> =>
          /\ q.experiment # 0 /\ o[1] = q.experiment
          /\ o[2] \in 0..s.experiments[q.experiment].outcomes
    <3>1. q.experiment \in 0..Len(s.experiments)
      BY <1>5 DEF GoodContext
    <3>2. q.experiment # 0 => s.experiments[q.experiment].outcomes \in Nat
      BY <1>6, <1>7, <3>1 DEF Study
    <3> QED
      BY <2>1, <3>2 DEF OutcomeOf
  <2>5. GoodContext(s, r)
    BY <1>5, <2>3, <2>4 DEF GoodContext
  <2>6. GoodRequest(s, r)
    BY <1>4, <2>2, <2>3, <2>5 DEF GoodRequest
  <2> QED
    BY <1>1, <1>3, <1>8, <2>6, RequestMoves
<1>15. CASE ReadRoom
  <2>1. q.pc = "room" /\ r = [q EXCEPT !.pc = "transact", !.room = s.room]
    BY <1>1, <1>2, <1>3, <1>15 DEF ReadRoom
  <2>2. /\ DOMAIN r = RequestFields /\ r.pc = "transact" /\ r.held = q.held
        /\ r.contract = q.contract /\ r.finance = q.finance
        /\ r.analysis = q.analysis /\ r.ready = q.ready /\ r.experiment = q.experiment
        /\ r.verified = q.verified /\ r.outcome = q.outcome /\ r.room = s.room
    BY <1>5, <2>1 DEF RequestFields
  <2>3. GoodContext(s, r)
    BY <1>5, <2>2 DEF GoodContext
  <2>4. Facts(s) \subseteq r.held
    BY <1>4, <2>1, <2>2 DEF GoodRequest
  <2>5. GoodRoom(r)
    BY <2>2, <2>4, FactsOfSources DEF GoodRoom
  <2>6. GoodRequest(s, r)
    BY <2>2, <2>3, <2>4, <2>5 DEF GoodRequest
  <2> QED
    BY <1>1, <1>3, <1>8, <2>6, RequestMoves
<1> QED
  BY <1>9, <1>10, <1>11, <1>12, <1>13, <1>14, <1>15

\* One that writes an acceptance writes what was so when it read.
LEMMA WritingKeepsEvidence ==
  ASSUME EvidenceInv, CreateAcceptance \/ GeneratePackage \/ OtherAction \/ RefuseRequest
  PROVE  EvidenceInv'
<1>1. PICK s : s = sources
  OBVIOUS
<1>2. PICK q : q = request
  OBVIOUS
<1>3. PICK a : a = acceptance
  OBVIOUS
<1>4. PICK b : b = acceptance'
  OBVIOUS
<1>5. GoodSources(s) /\ GoodRequest(s, q) /\ GoodAcceptance(s, a)
  BY <1>1, <1>2, <1>3 DEF EvidenceInv
<1>6. q.pc = "transact" /\ UNCHANGED sources /\ request' = Idling
  <2>1. ASSUME CreateAcceptance
        PROVE  request.pc = "transact" /\ UNCHANGED sources /\ request' = Idling
    BY <2>1 DEF CreateAcceptance, Create
  <2>2. ASSUME GeneratePackage \/ OtherAction \/ RefuseRequest
        PROVE  request.pc = "transact" /\ UNCHANGED sources /\ request' = Idling
    BY <2>2 DEF GeneratePackage, OtherAction, RefuseRequest
  <2> QED
    BY <1>2, <2>1, <2>2
<1>7. DOMAIN q = RequestFields /\ GoodContext(s, q) /\ GoodRoom(q)
  BY <1>5, <1>6 DEF GoodRequest
<1>8. GoodRequest(s, Idling)
  <2>1. Len(s.analyses) \in Nat /\ Len(s.experiments) \in Nat
    BY <1>5 DEF GoodSources
  <2>2. GoodContext(s, Idling)
    BY <2>1 DEF GoodContext, Idling, Nothing, ApprovedStages
  <2> QED
    BY <2>2 DEF GoodRequest, Idling, RequestFields
<1>9. GoodAcceptance(s, b)
  <2>1. CASE CreateAcceptance
    <3>1. PICK claimed, named, study :
            /\ b = [persisted |-> TRUE, named |-> named,
                    experiment |-> study.experiment, outcome |-> study.outcome,
                    submitted |-> Submitted(q) \ claimed,
                    context |-> q, package |-> {}, stated |-> Idling]
            /\ \/ named = TRUE
               \/ study = [experiment |-> q.experiment, outcome |-> q.outcome]
      BY <1>2, <1>4, <2>1 DEF CreateAcceptance, Create
    <3>2. "outcome" \in Submitted(q) => q.outcome # <<>>
      BY DEF Submitted
    <3>3. q.outcome # <<>> => q.outcome[1] = q.experiment
      BY <1>7 DEF GoodContext
    <3> QED
      BY <1>7, <3>1, <3>2, <3>3 DEF GoodAcceptance
  <2>2. CASE GeneratePackage \/ OtherAction
    <3>1. /\ a.persisted
          /\ \/ b = Refilled(a, q)
             \/ b = [Refilled(a, q) EXCEPT !.package = Stated(q), !.stated = q]
      BY <1>2, <1>3, <1>4, <2>2 DEF GeneratePackage, OtherAction
    <3>2. DOMAIN a = {"persisted", "named", "experiment", "outcome", "submitted", "context",
                      "package", "stated"}
      BY <1>5, <3>1 DEF GoodAcceptance
    <3>3. PICK o : o = IF a.outcome = <<>> THEN q.outcome ELSE a.outcome
      OBVIOUS
    <3>4. Refilled(a, q) = [a EXCEPT !.outcome = o]
      BY <3>2, <3>3 DEF Refilled
    <3>5. /\ DOMAIN b = DOMAIN a /\ b.persisted = a.persisted
          /\ b.experiment = a.experiment /\ b.submitted = a.submitted /\ b.named = a.named
          /\ b.context = a.context /\ b.outcome = o
          /\ \/ b.package = a.package /\ b.stated = a.stated
             \/ b.package = Stated(q) /\ b.stated = q
      BY <3>1, <3>2, <3>4
    <3>6. "outcome" \in a.submitted /\ a.named = FALSE => a.outcome # <<>> /\ o = a.outcome
      BY <1>5, <3>1, <3>3 DEF GoodAcceptance
    <3> QED
      BY <1>5, <1>7, <3>1, <3>2, <3>5, <3>6 DEF GoodAcceptance
  <2>3. CASE RefuseRequest
    BY <1>3, <1>4, <1>5, <2>3 DEF RefuseRequest
  <2> QED
    BY <2>1, <2>2, <2>3
<1> QED
  BY <1>1, <1>4, <1>5, <1>6, <1>8, <1>9 DEF EvidenceInv

\* Sources, requests and acceptances stay good.
LEMMA EvidenceInvHolds ==
  EvidenceSpec => []EvidenceInv
<1>1. EvidenceInit => EvidenceInv
  <2> SUFFICES ASSUME EvidenceInit
               PROVE  EvidenceInv
    OBVIOUS
  <2>1. PICK s : s = sources
    OBVIOUS
  <2>2. s \in Situation /\ Studied(s)
    BY <2>1, EvidenceAssumption DEF EvidenceInit
  <2>3. GoodSources(s)
    BY <2>2 DEF GoodSources, Situation, Study
  <2>4. Len(s.analyses) \in Nat /\ Len(s.experiments) \in Nat
    BY <2>3 DEF GoodSources
  <2>5. GoodContext(s, Idling)
    BY <2>4 DEF GoodContext, Idling, Nothing, ApprovedStages
  <2>6. GoodRequest(s, Idling)
    BY <2>5 DEF GoodRequest, Idling, RequestFields
  <2>7. GoodAcceptance(s, NoAcceptance)
    BY DEF GoodAcceptance, NoAcceptance
  <2> QED
    BY <2>1, <2>3, <2>6, <2>7 DEF EvidenceInit, EvidenceInv
<1>2. EvidenceInv /\ [EvidenceNext]_evidenceVars => EvidenceInv'
  <2> SUFFICES ASSUME EvidenceInv, [EvidenceNext]_evidenceVars
               PROVE  EvidenceInv'
    OBVIOUS
  <2>1. CASE OthersMove
    BY <2>1, OthersKeepEvidence
  <2>2. CASE \/ Begin
             \/ ReadSource("contract", [request EXCEPT !.contract = sources.contract])
             \/ ReadSource("ledger", [request EXCEPT !.finance = sources.finance])
             \/ ReadAnalysis \/ ReadExperiment \/ ReadOutcome \/ ReadRoom
    BY <2>2, ReadingKeepsEvidence
  <2>3. CASE CreateAcceptance \/ GeneratePackage \/ OtherAction \/ RefuseRequest
    BY <2>3, WritingKeepsEvidence
  <2>4. CASE UNCHANGED evidenceVars
    BY <2>4 DEF EvidenceInv, evidenceVars
  <2> QED
    BY <2>1, <2>2, <2>3, <2>4 DEF EvidenceNext
<1> QED
  BY <1>1, <1>2, PTL DEF EvidenceSpec

\* Who says less of what was so says no more than was so.
LEMMA SaidLess ==
  ASSUME NEW says, NEW less, less \subseteq says, NEW q, WasTrue(says, q)
  PROVE  WasTrue(less, q)
BY DEF WasTrue

\* What good reading says was so.
LEMMA SaidOfGoodReading ==
  ASSUME EvidenceInv, NEW q, GoodContext(sources, q), GoodRoom(q)
  PROVE  WasTrue(Submitted(q), q) /\ WasTrue(Stated(q), q)
<1>1. PICK s : s = sources
  OBVIOUS
<1>2. GoodSources(s) /\ GoodContext(s, q) /\ GoodRoom(q)
  BY <1>1 DEF EvidenceInv
<1>3. s.experiments \in Seq(Study) /\ Len(s.experiments) \in Nat
  BY <1>2 DEF GoodSources
<1>4. \A e \in 1..Len(s.experiments) : s.experiments[e] \in Study
  BY <1>3, ElementOfSeq
<1>5. q.experiment \in 0..Len(s.experiments)
  BY <1>2 DEF GoodContext
<1>6. q.experiment # 0 => s.experiments[q.experiment].outcomes \in Nat
  BY <1>3, <1>4, <1>5 DEF Study
<1>7. q.outcome # <<>> =>
        /\ q.outcome[1] = q.experiment
        /\ q.outcome[2] <= s.experiments[q.experiment].outcomes
  BY <1>2, <1>6 DEF GoodContext
<1>8. Submitted(q) \ {"outcome", "decision"} \subseteq q.held
  BY <1>2 DEF Submitted, GoodContext, GoodRoom
<1>9. Stated(q) \ {"outcome", "decision"} \subseteq q.held
  BY <1>8 DEF Stated
<1>10. /\ "outcome" \in Submitted(q) => q.outcome # <<>>
       /\ "outcome" \in Stated(q) => q.outcome # <<>>
       /\ "decision" \notin Submitted(q)
  BY DEF Submitted, Stated
<1>11. "decision" \in Stated(q) => q.room.life \in Concluded \/ ExecutiveReady(q)
  BY DEF Stated
<1>12. "decision" \in Stated(q) =>
         \/ "concluded" \in q.held
         \/ /\ {"contract", "impact"} \subseteq q.held
            /\ DataReady(s, q.analysis)
            /\ "running" \in q.held \/ s.experiments[q.experiment].verified
  BY <1>2, <1>11 DEF ExecutiveReady, GoodContext, GoodRoom
<1>13. q.experiment # 0 => s.experiments[q.experiment].analysis = q.analysis
  BY <1>2 DEF GoodContext
<1> QED
  BY <1>1, <1>7, <1>8, <1>9, <1>10, <1>12, <1>13 DEF WasTrue

\* Whatever moves between the reads of a request, each criterion that starts as
\* submitted and each statement of a package was so at some moment of its request,
\* and data, experiment and outcome are of one study.
THEOREM AcceptanceSaysWhatWasSo ==
  EvidenceSpec => []EvidenceWasTrue
<1>1. EvidenceInv => EvidenceWasTrue
  <2>1. SUFFICES ASSUME EvidenceInv, acceptance.persisted
                 PROVE  /\ WasTrue(acceptance.submitted, acceptance.context)
                        /\ acceptance.package # {} =>
                             WasTrue(acceptance.package, acceptance.stated)
                        /\ "outcome" \in acceptance.submitted /\ acceptance.named = FALSE =>
                             acceptance.outcome[1] = acceptance.experiment
    BY DEF EvidenceWasTrue
  <2>2. GoodAcceptance(sources, acceptance)
    BY <2>1 DEF EvidenceInv
  <2>3. WasTrue(acceptance.submitted, acceptance.context)
    <3>1. acceptance.submitted \subseteq Submitted(acceptance.context)
      BY <2>1, <2>2 DEF GoodAcceptance
    <3>2. WasTrue(Submitted(acceptance.context), acceptance.context)
      BY <2>1, <2>2, SaidOfGoodReading DEF GoodAcceptance
    <3> QED
      BY <3>1, <3>2, SaidLess
  <2>4. acceptance.package # {} => WasTrue(acceptance.package, acceptance.stated)
    BY <2>1, <2>2, SaidOfGoodReading DEF GoodAcceptance
  <2> QED
    BY <2>1, <2>2, <2>3, <2>4 DEF GoodAcceptance
<1> QED
  BY <1>1, EvidenceInvHolds, PTL

-----------------------------------------------------------------------------
(* The evidence chains                                                     *)

Hashes == Seq(Tenants \X Payloads)

Record == [org : Tenants, payload : Payloads, previous : Hashes, hash : Hashes]

\* The records of the organizations nobody spoilt are linked, of each of the
\* others one is not.
ChainInv ==
  /\ log \in Seq(Record)
  /\ spoilt \subseteq Tenants
  /\ ChainTellsTheTruth

\* A hash is longer than the one it goes back to, and tells what was said.
LEMMA HashSays ==
  ASSUME NEW e \in Record
  PROVE  /\ HashOf(e) \in Hashes /\ HashOf(e) # e.previous
         /\ \A d \in Record : HashOf(d) = HashOf(e) => d.payload = e.payload
<1>1. e.previous \in Seq(Tenants \X Payloads) /\ <<e.org, e.payload>> \in Tenants \X Payloads
  BY DEF Record, Hashes
<1>2. HashOf(e) \in Hashes /\ Len(HashOf(e)) = Len(e.previous) + 1 /\ Len(e.previous) \in Nat
      /\ HashOf(e)[Len(HashOf(e))] = <<e.org, e.payload>>
  BY <1>1, AppendProperties DEF HashOf, Hashes
<1>3. ASSUME NEW d \in Record, HashOf(d) = HashOf(e) PROVE d.payload = e.payload
  <2>1. d.previous \in Seq(Tenants \X Payloads) /\ <<d.org, d.payload>> \in Tenants \X Payloads
    BY DEF Record, Hashes
  <2>2. HashOf(d)[Len(HashOf(d))] = <<d.org, d.payload>>
    BY <2>1, AppendProperties DEF HashOf, Hashes
  <2> QED
    BY <1>2, <1>3, <2>2
<1>4. HashOf(e) # e.previous
  BY <1>2
<1> QED
  BY <1>2, <1>3, <1>4

\* The last of some records is the one none of them comes after.
LEMMA LastIs ==
  ASSUME NEW records \in Seq(Record), NEW at \in SUBSET (DOMAIN records)
  PROVE  /\ at # {} => \E m \in at : \A j \in at : j <= m
         /\ \A m \in at : (\A j \in at : j <= m) => LastHash(records, at) = records[m].hash
         /\ at = {} => LastHash(records, at) = NoHash
<1>1. /\ Len(records) \in Nat /\ DOMAIN records = 1..Len(records)
  OBVIOUS
<1>2. IsFiniteSet(at) /\ at \subseteq Int
  <2>1. IsFiniteSet(DOMAIN records)
    BY <1>1, FS_Interval
  <2> QED
    BY <1>1, <2>1, FS_Subset
<1>3. ASSUME at # {} PROVE \E m \in at : \A j \in at : j <= m
  <2>1. PICK f : f = [x \in at |-> x]
    OBVIOUS
  <2>2. f \in [at -> Int]
    BY <1>2, <2>1
  <2>3. \E m \in at : \A j \in at : f[j] <= f[m]
    BY <1>2, <1>3, <2>2, SomeGreatest
  <2> QED
    BY <2>1, <2>3
<1>4. ASSUME NEW m \in at, \A j \in at : j <= m
      PROVE  LastHash(records, at) = records[m].hash
  <2>1. Max(at) = m
    BY <1>2, <1>4 DEF Max
  <2> QED
    BY <2>1 DEF LastHash
<1> QED
  BY <1>3, <1>4 DEF LastHash

\* Where a record of one log and one of another come last of theirs, and say the same
\* of the record before, they are linked alike.
LEMMA LinkedAlike ==
  ASSUME NEW R \in Seq(Record), NEW T \in Seq(Record), NEW i \in DOMAIN R, NEW j \in DOMAIN T,
         T[j] = R[i],
         \/ Before(R, i) = {} /\ Before(T, j) = {}
         \/ \E m \in Before(R, i), n \in Before(T, j) :
              /\ T[n].hash = R[m].hash
              /\ \A x \in Before(R, i) : x <= m
              /\ \A x \in Before(T, j) : x <= n
  PROVE  Linked(T, j) <=> Linked(R, i)
<1>1. Before(R, i) \subseteq DOMAIN R /\ Before(T, j) \subseteq DOMAIN T
  BY DEF Before, OfOrg
<1>2. LastHash(T, Before(T, j)) = LastHash(R, Before(R, i))
  BY <1>1, LastIs
<1> QED
  BY <1>2 DEF Linked, HashOf

\* A record of a log that is kept keeps its links.
LEMMA AppendKeepsLinks ==
  ASSUME NEW R \in Seq(Record), NEW e \in Record, NEW i \in DOMAIN R
  PROVE  /\ Append(R, e) \in Seq(Record)
         /\ i \in DOMAIN Append(R, e) /\ Append(R, e)[i] = R[i]
         /\ Linked(Append(R, e), i) <=> Linked(R, i)
<1>1. PICK T : T = Append(R, e)
  OBVIOUS
<1>2. /\ T \in Seq(Record) /\ Len(T) = Len(R) + 1
      /\ \A j \in DOMAIN R : j \in DOMAIN T /\ T[j] = R[j]
  BY <1>1, AppendProperties
<1>3. Before(T, i) = Before(R, i)
  BY <1>2 DEF Before, OfOrg
<1>4. Before(R, i) \subseteq DOMAIN R
  BY DEF Before, OfOrg
<1>5. \/ Before(R, i) = {}
      \/ \E m \in Before(R, i) : \A x \in Before(R, i) : x <= m
  BY <1>4, LastIs
<1>6. Linked(T, i) <=> Linked(R, i)
  BY <1>2, <1>3, <1>4, <1>5, LinkedAlike
<1> QED
  BY <1>1, <1>2, <1>6

\* An appended record leaves the chains as true as they were.
LEMMA AppendKeepsChains ==
  ASSUME ChainInv, NEW org \in Tenants, NEW payload \in Payloads, Appended(org, payload)
  PROVE  ChainInv'
<1>1. log \in Seq(Record) /\ spoilt \subseteq Tenants /\ ChainTellsTheTruth
  BY DEF ChainInv
<1>2. PICK e : e = [org |-> org, payload |-> payload, previous |-> PreviousHash(org),
                    hash |-> Append(PreviousHash(org), <<org, payload>>)]
  OBVIOUS
<1>3. log' = Append(log, e) /\ spoilt' = spoilt
  BY <1>2 DEF Appended, HashOf
<1>4. OfOrg(log, org) \subseteq DOMAIN log
  BY DEF OfOrg
<1>5. PreviousHash(org) \in Hashes
  <2>1. CASE OfOrg(log, org) = {}
    <3>1. PreviousHash(org) = NoHash
      BY <1>1, <1>4, <2>1, LastIs DEF PreviousHash
    <3>2. NoHash \in Hashes
      BY DEF NoHash, Hashes
    <3> QED
      BY <3>1, <3>2
  <2>2. CASE OfOrg(log, org) # {}
    <3>1. PICK m \in OfOrg(log, org) : \A j \in OfOrg(log, org) : j <= m
      BY <1>1, <1>4, <2>2, LastIs
    <3>2. PreviousHash(org) = log[m].hash
      BY <1>1, <1>4, <3>1, LastIs DEF PreviousHash
    <3>3. log[m] \in Record
      BY <1>1, <1>4
    <3> QED
      BY <3>2, <3>3 DEF Record
  <2> QED
    BY <2>1, <2>2
<1>6. e \in Record /\ e.hash = HashOf(e)
  <2>1. Append(PreviousHash(org), <<org, payload>>) \in Hashes
    BY <1>5, AppendProperties DEF Hashes
  <2> QED
    BY <1>2, <1>5, <2>1 DEF Record, HashOf
<1>7. PICK T, n : T = Append(log, e) /\ n = Len(log) + 1
  OBVIOUS
<1>8. /\ T \in Seq(Record) /\ n \in Nat /\ DOMAIN T = (DOMAIN log) \cup {n} /\ T[n] = e
      /\ n \notin DOMAIN log /\ ~(n < n) /\ \A i \in DOMAIN log : i < n /\ T[i] = log[i]
  <2>1. Len(log) \in Nat /\ DOMAIN log = 1..Len(log)
    BY <1>1
  <2> QED
    BY <1>1, <1>6, <1>7, <2>1, AppendProperties
<1>9. \A i \in DOMAIN log : Linked(T, i) <=> Linked(log, i)
  BY <1>1, <1>6, <1>7, AppendKeepsLinks
<1>10. Linked(T, n)
  <2>1. e.org = org /\ e.previous = PreviousHash(org)
    BY <1>2
  <2>2. Before(T, n) = OfOrg(log, org)
    BY <1>8, <2>1 DEF Before, OfOrg
  <2>3. LastHash(T, Before(T, n)) = PreviousHash(org)
    <3>1. OfOrg(log, org) \subseteq DOMAIN T
      BY <1>4, <1>8
    <3>2. CASE OfOrg(log, org) = {}
      BY <2>2, <3>2 DEF PreviousHash, LastHash
    <3>3. CASE OfOrg(log, org) # {}
      <4>1. PICK m \in OfOrg(log, org) : \A j \in OfOrg(log, org) : j <= m
        BY <1>1, <1>4, <3>3, LastIs
      <4>2. PreviousHash(org) = log[m].hash
        BY <1>1, <1>4, <4>1, LastIs DEF PreviousHash
      <4>3. LastHash(T, OfOrg(log, org)) = T[m].hash
        BY <1>8, <3>1, <4>1, LastIs
      <4> QED
        BY <1>4, <1>8, <2>2, <4>2, <4>3
    <3> QED
      BY <3>2, <3>3
  <2> QED
    BY <1>6, <1>8, <2>1, <2>3 DEF Linked
<1>11. \A o \in Tenants : Valid(T, o) <=> Valid(log, o)
  BY <1>8, <1>9, <1>10 DEF Valid, OfOrg
<1>12. log' = T
  BY <1>3, <1>7
<1>13. \A o \in Tenants : Valid(log, o)' <=> Valid(T, o)
  BY <1>12 DEF Valid, OfOrg, Linked, LastHash, Before
<1>14. ChainTellsTheTruth'
  BY <1>1, <1>3, <1>11, <1>13 DEF ChainTellsTheTruth
<1> QED
  BY <1>1, <1>3, <1>8, <1>12, <1>14 DEF ChainInv

\* A record that says something else gives its organization away, and nobody else.
LEMMA EditGivesAway ==
  ASSUME ChainInv, NEW i \in DOMAIN log, NEW payload \in Payloads, Edited(i, payload)
  PROVE  ChainInv'
<1>1. log \in Seq(Record) /\ spoilt \subseteq Tenants /\ ChainTellsTheTruth /\ log[i] \in Record
  BY DEF ChainInv
<1>2. PICK T : T = [log EXCEPT ![i].payload = payload]
  OBVIOUS
<1>3. log' = T /\ spoilt' = spoilt \cup {log[i].org} /\ log[i].payload # payload
  BY <1>2 DEF Edited
<1>4. /\ DOMAIN T = DOMAIN log /\ Len(T) = Len(log)
      /\ T[i] = [log[i] EXCEPT !.payload = payload]
      /\ \A j \in DOMAIN log : j # i => T[j] = log[j]
  BY <1>1, <1>2
<1>5. T[i] \in Record /\ T[i].payload = payload /\ T[i].hash = log[i].hash
      /\ T[i].org = log[i].org
  BY <1>1, <1>4 DEF Record
<1>6. T \in Seq(Record)
  <2>1. \A j \in DOMAIN log : T[j] \in Record
    BY <1>1, <1>4, <1>5
  <2> QED
    BY <1>1, <1>2, <2>1
<1>7. \A o : OfOrg(T, o) = OfOrg(log, o)
  BY <1>4, <1>5 DEF OfOrg
<1>8. ASSUME NEW j \in DOMAIN log, j # i PROVE Linked(T, j) <=> Linked(log, j)
  <2>1. T[j] = log[j]
    BY <1>4, <1>8
  <2>2. Before(T, j) = Before(log, j)
    BY <1>7, <2>1 DEF Before
  <2>3. Before(log, j) \subseteq DOMAIN log
    BY DEF Before, OfOrg
  <2>4. \A m \in DOMAIN log : T[m].hash = log[m].hash
    BY <1>4, <1>5
  <2>5. \/ Before(log, j) = {}
        \/ \E m \in Before(log, j) : \A x \in Before(log, j) : x <= m
    BY <1>1, <2>3, LastIs
  <2> QED
    BY <1>1, <1>4, <1>6, <2>1, <2>2, <2>3, <2>4, <2>5, LinkedAlike
<1>9. ~Valid(T, log[i].org)
  <2>1. i \in OfOrg(log, log[i].org) /\ log[i].org \in Tenants /\ log[i].org \notin spoilt
    BY <1>1 DEF OfOrg, Record, Edited
  <2>2. Linked(log, i)
    BY <1>1, <2>1 DEF ChainTellsTheTruth, Valid
  <2>3. HashOf(T[i]) # T[i].hash
    BY <1>1, <1>3, <1>5, <2>2, HashSays DEF Linked
  <2> QED
    BY <1>7, <2>1, <2>3 DEF Valid, Linked
<1>10. \A o \in Tenants : o # log[i].org => (Valid(T, o) <=> Valid(log, o))
  BY <1>7, <1>8 DEF Valid, OfOrg
<1>11. \A o \in Tenants : Valid(log, o)' <=> Valid(T, o)
  BY <1>3 DEF Valid, OfOrg, Linked, LastHash, Before
<1>12. log[i].org \in Tenants
  BY <1>1 DEF Record
<1>13. ChainTellsTheTruth'
  BY <1>1, <1>3, <1>9, <1>10, <1>11 DEF ChainTellsTheTruth
<1> QED
  BY <1>1, <1>3, <1>6, <1>12, <1>13 DEF ChainInv

\* Where the record that is now at one place was before another was removed.
Shifted(i, j) == IF j < i THEN j ELSE j + 1

\* When one record is gone, those before it and those after it are left.
LEMMA RemovedAt ==
  ASSUME NEW R \in Seq(Record), NEW i \in DOMAIN R
  PROVE  /\ RemoveAt(R, i) \in Seq(Record)
         /\ \A j \in DOMAIN RemoveAt(R, i) :
              /\ j \in Nat /\ Shifted(i, j) \in DOMAIN R /\ Shifted(i, j) # i
              /\ RemoveAt(R, i)[j] = R[Shifted(i, j)]
         /\ \A k \in DOMAIN R : k # i =>
              \E j \in DOMAIN RemoveAt(R, i) : k = Shifted(i, j)
<1>1. PICK n \in Nat : n = Len(R)
  OBVIOUS
<1>2. DOMAIN R = 1..n /\ i \in 1..n
  BY <1>1
<1>3. PICK A, B : A = SubSeq(R, 1, i - 1) /\ B = SubSeq(R, i + 1, n)
  OBVIOUS
<1>4. /\ A \in Seq(Record) /\ Len(A) = i - 1
      /\ \A j \in 1..(i - 1) : A[j] = R[j]
  <2>1. 1 \in 1..(n + 1) /\ i - 1 \in (1 - 1)..n
    BY <1>2
  <2> QED
    BY <1>1, <1>2, <1>3, <2>1, SubSeqProperties
<1>5. /\ B \in Seq(Record) /\ Len(B) = n - i
      /\ \A j \in 1..(n - i) : B[j] = R[i + j]
  <2>1. i + 1 \in 1..(n + 1) /\ n \in ((i + 1) - 1)..n
    BY <1>2
  <2> QED
    BY <1>1, <1>2, <1>3, <2>1, SubSeqProperties
<1>6. PICK T : T = A \o B
  OBVIOUS
<1>7. /\ T \in Seq(Record) /\ Len(T) = n - 1
      /\ \A j \in 1..(n - 1) : T[j] = IF j < i THEN A[j] ELSE B[j - (i - 1)]
  BY <1>2, <1>4, <1>5, <1>6, ConcatProperties
<1>8. DOMAIN T = 1..(n - 1)
  BY <1>1, <1>2, <1>7
<1>9. ASSUME NEW j \in 1..(n - 1)
      PROVE  j \in Nat /\ Shifted(i, j) \in 1..n /\ Shifted(i, j) # i /\ T[j] = R[Shifted(i, j)]
  <2>1. CASE j < i
    BY <1>2, <1>4, <1>7, <2>1 DEF Shifted
  <2>2. CASE ~(j < i)
    <3>1. j - (i - 1) \in 1..(n - i) /\ i + (j - (i - 1)) = j + 1
      BY <1>2, <2>2
    <3>2. T[j] = R[i + (j - (i - 1))]
      BY <1>5, <1>7, <2>2, <3>1
    <3> QED
      BY <1>2, <2>2, <3>1, <3>2 DEF Shifted
  <2> QED
    BY <2>1, <2>2
<1>10. ASSUME NEW k \in 1..n, k # i PROVE \E j \in 1..(n - 1) : k = Shifted(i, j)
  <2>1. CASE k < i
    BY <1>2, <2>1 DEF Shifted
  <2>2. CASE ~(k < i)
    <3>1. k - 1 \in 1..(n - 1) /\ k = Shifted(i, k - 1)
      BY <1>2, <1>10, <2>2 DEF Shifted
    <3> QED
      BY <3>1
  <2> QED
    BY <2>1, <2>2
<1>11. RemoveAt(R, i) = T
  BY <1>1, <1>3, <1>6 DEF RemoveAt
<1> QED
  BY <1>2, <1>7, <1>8, <1>9, <1>10, <1>11

\* Nothing changes between two records where the one that is gone is not between them.
LEMMA GoneKeepsLinks ==
  ASSUME NEW R \in Seq(Record), NEW i \in DOMAIN R, NEW j \in DOMAIN RemoveAt(R, i),
         i \notin Before(R, Shifted(i, j))
  PROVE  Linked(RemoveAt(R, i), j) <=> Linked(R, Shifted(i, j))
<1>1. PICK T, k : T = RemoveAt(R, i) /\ k = Shifted(i, j)
  OBVIOUS
<1>2. /\ T \in Seq(Record) /\ j \in DOMAIN T
      /\ \A x \in DOMAIN T : x \in Nat /\ Shifted(i, x) \in DOMAIN R /\ T[x] = R[Shifted(i, x)]
      /\ \A y \in DOMAIN R : y # i => \E x \in DOMAIN T : y = Shifted(i, x)
  BY <1>1, RemovedAt
<1>3. k \in DOMAIN R /\ T[j] = R[k] /\ i \in Nat
  BY <1>1, <1>2
<1>4. \A x \in DOMAIN T : x \in Before(T, j) <=> Shifted(i, x) \in Before(R, k)
  <2> SUFFICES ASSUME NEW x \in DOMAIN T
               PROVE  x \in Before(T, j) <=> Shifted(i, x) \in Before(R, k)
    OBVIOUS
  <2>1. x < j <=> Shifted(i, x) < k
    BY <1>1, <1>2, <1>3 DEF Shifted
  <2> QED
    BY <1>2, <1>3, <2>1 DEF Before, OfOrg
<1>5. \A y \in Before(R, k) : \E x \in Before(T, j) : y = Shifted(i, x)
  <2>1. Before(R, k) \subseteq DOMAIN R /\ i \notin Before(R, k)
    BY <1>1 DEF Before, OfOrg
  <2> QED
    BY <1>2, <1>4, <2>1
<1>6. Before(T, j) \subseteq DOMAIN T
  BY DEF Before, OfOrg
<1>7. CASE Before(T, j) = {}
  <2>1. Before(R, k) = {}
    BY <1>5, <1>7
  <2> QED
    BY <1>1, <1>2, <1>3, <1>7, <2>1, LinkedAlike
<1>8. CASE Before(T, j) # {}
  <2>1. PICK n \in Before(T, j) : \A x \in Before(T, j) : x <= n
    BY <1>2, <1>6, <1>8, LastIs
  <2>2. Shifted(i, n) \in Before(R, k) /\ T[n] = R[Shifted(i, n)] /\ n \in Nat
    BY <1>2, <1>4, <1>6, <2>1
  <2>3. ASSUME NEW y \in Before(R, k) PROVE y <= Shifted(i, n)
    <3>1. PICK x \in Before(T, j) : y = Shifted(i, x)
      BY <1>5, <2>3
    <3>2. x <= n /\ x \in Nat
      BY <1>2, <1>6, <2>1, <3>1
    <3> QED
      BY <1>3, <2>2, <3>1, <3>2 DEF Shifted
  <2> QED
    BY <1>1, <1>2, <1>3, <2>1, <2>2, <2>3, LinkedAlike
<1> QED
  BY <1>7, <1>8

\* The newest record of an organization leaves no trace.
LEMMA CutLeavesNoTrace ==
  ASSUME ChainInv, NEW i \in DOMAIN log, Cut(i)
  PROVE  ChainInv'
<1>1. log \in Seq(Record) /\ spoilt \subseteq Tenants /\ ChainTellsTheTruth
  BY DEF ChainInv
<1>2. PICK T : T = RemoveAt(log, i)
  OBVIOUS
<1>3. /\ log' = T /\ spoilt' = spoilt /\ log[i].org \notin spoilt
      /\ \A j \in DOMAIN log : j > i => log[j].org # log[i].org
  BY <1>2 DEF Cut
<1>4. /\ T \in Seq(Record)
      /\ \A x \in DOMAIN T : Shifted(i, x) \in DOMAIN log /\ T[x] = log[Shifted(i, x)]
      /\ \A y \in DOMAIN log : y # i => \E x \in DOMAIN T : y = Shifted(i, x)
  BY <1>1, <1>2, RemovedAt
<1>5. ASSUME NEW j \in DOMAIN T PROVE Linked(T, j) <=> Linked(log, Shifted(i, j))
  <2>1. i \notin Before(log, Shifted(i, j))
    BY <1>1, <1>3, <1>4 DEF Before, OfOrg
  <2> QED
    BY <1>1, <1>2, <2>1, GoneKeepsLinks
<1>6. ASSUME NEW o \in Tenants PROVE Valid(T, o) <=> o \notin spoilt
  <2>1. CASE o \notin spoilt
    BY <1>1, <1>4, <1>5, <2>1 DEF ChainTellsTheTruth, Valid, OfOrg
  <2>2. CASE o \in spoilt
    <3>1. PICK k \in OfOrg(log, o) : ~Linked(log, k)
      BY <1>1, <2>2 DEF ChainTellsTheTruth, Valid
    <3>2. k \in DOMAIN log /\ k # i /\ log[k].org = o
      BY <1>3, <2>2, <3>1 DEF OfOrg
    <3>3. PICK j \in DOMAIN T : k = Shifted(i, j)
      BY <1>4, <3>2
    <3>4. j \in OfOrg(T, o) /\ ~Linked(T, j)
      BY <1>4, <1>5, <3>1, <3>2, <3>3 DEF OfOrg
    <3> QED
      BY <2>2, <3>4 DEF Valid
  <2> QED
    BY <2>1, <2>2
<1>7. \A o \in Tenants : Valid(log, o)' <=> Valid(T, o)
  BY <1>3 DEF Valid, OfOrg, Linked, LastHash, Before
<1>8. ChainTellsTheTruth'
  BY <1>3, <1>6, <1>7 DEF ChainTellsTheTruth
<1> QED
  BY <1>1, <1>3, <1>4, <1>8 DEF ChainInv

\* An older one does: the next of the organization goes back to it.
LEMMA RemovalGivesAway ==
  ASSUME ChainInv, NEW i \in DOMAIN log, Removed(i)
  PROVE  ChainInv'
<1>1. log \in Seq(Record) /\ spoilt \subseteq Tenants /\ ChainTellsTheTruth /\ log[i] \in Record
  BY DEF ChainInv
<1>2. PICK T, org : T = RemoveAt(log, i) /\ org = log[i].org
  OBVIOUS
<1>3. /\ log' = T /\ spoilt' = spoilt \cup {org} /\ org \notin spoilt /\ org \in Tenants
      /\ \E j \in DOMAIN log : j > i /\ log[j].org = org
  BY <1>1, <1>2 DEF Removed, Record
<1>4. /\ T \in Seq(Record)
      /\ \A x \in DOMAIN T : /\ x \in Nat /\ Shifted(i, x) \in DOMAIN log /\ Shifted(i, x) # i
                            /\ T[x] = log[Shifted(i, x)]
      /\ \A y \in DOMAIN log : y # i => \E x \in DOMAIN T : y = Shifted(i, x)
  BY <1>1, <1>2, RemovedAt
<1>5. DOMAIN log \subseteq Nat /\ i \in Nat
  BY <1>1
<1>6. ASSUME NEW o \in Tenants, o # org PROVE Valid(T, o) <=> Valid(log, o)
  <2>1. ASSUME NEW j \in OfOrg(T, o) PROVE Linked(T, j) <=> Linked(log, Shifted(i, j))
    <3>1. j \in DOMAIN T /\ log[Shifted(i, j)].org = o
      BY <1>4, <2>1 DEF OfOrg
    <3>2. i \notin Before(log, Shifted(i, j))
      BY <1>2, <1>6, <3>1 DEF Before, OfOrg
    <3> QED
      BY <1>1, <1>2, <3>1, <3>2, GoneKeepsLinks
  <2>2. \A j \in OfOrg(T, o) : Shifted(i, j) \in OfOrg(log, o)
    BY <1>4 DEF OfOrg
  <2>3. \A k \in OfOrg(log, o) : \E j \in OfOrg(T, o) : k = Shifted(i, j)
    BY <1>2, <1>4, <1>6 DEF OfOrg
  <2> QED
    BY <2>1, <2>2, <2>3 DEF Valid
<1>7. PICK k \in DOMAIN log : /\ k > i /\ log[k].org = org
                               /\ \A y \in DOMAIN log : y > i /\ log[y].org = org => k <= y
  <2>1. PICK L : L = {y \in DOMAIN log : y > i /\ log[y].org = org}
    OBVIOUS
  <2>2. L \subseteq DOMAIN log /\ L # {} /\ IsFiniteSet(L)
    <3>1. L \subseteq DOMAIN log /\ L # {}
      BY <1>3, <2>1
    <3>2. Len(log) \in Nat /\ DOMAIN log = 1..Len(log)
      BY <1>1
    <3>3. IsFiniteSet(1..Len(log))
      BY <3>2, FS_Interval
    <3> QED
      BY <3>1, <3>2, <3>3, FS_Subset
  <2>3. PICK f : f = [x \in L |-> x]
    OBVIOUS
  <2>4. f \in [L -> Int]
    BY <1>5, <2>2, <2>3
  <2>5. \E x \in L : \A y \in L : x <= y
    <3>1. \E x \in L : \A y \in L : f[x] <= f[y]
      BY <2>2, <2>4, SomeLeast
    <3> QED
      BY <2>3, <3>1
  <2> QED
    BY <2>1, <2>5
<1>8. PICK j \in DOMAIN T : k = Shifted(i, j)
  BY <1>4, <1>5, <1>7
<1>9. T[j] = log[k] /\ j \in OfOrg(T, org)
  BY <1>4, <1>7, <1>8 DEF OfOrg
<1>10. Linked(log, i) /\ Linked(log, k)
  BY <1>1, <1>2, <1>3, <1>7 DEF ChainTellsTheTruth, Valid, OfOrg
<1>11. log[k].previous = HashOf(log[i])
  <2>1. Before(log, k) \subseteq DOMAIN log /\ i \in Before(log, k)
    BY <1>2, <1>5, <1>7 DEF Before, OfOrg
  <2>2. \A x \in Before(log, k) : x <= i
    BY <1>5, <1>7 DEF Before, OfOrg
  <2>3. LastHash(log, Before(log, k)) = log[i].hash
    BY <1>1, <2>1, <2>2, LastIs
  <2> QED
    BY <1>10, <2>3 DEF Linked
<1>12. LastHash(T, Before(T, j)) = log[i].previous
  <2>1. ASSUME NEW x \in DOMAIN T PROVE x \in Before(T, j) <=> x \in Before(log, i)
    <3>1. CASE x < i
      <4>1. Shifted(i, x) = x /\ x < j
        BY <1>4, <1>5, <1>7, <1>8, <3>1 DEF Shifted
      <4> QED
        BY <1>2, <1>4, <1>7, <1>9, <3>1, <4>1 DEF Before, OfOrg
    <3>2. CASE ~(x < i)
      <4>1. Shifted(i, x) = x + 1 /\ x + 1 > i /\ x + 1 \in DOMAIN log /\ T[x] = log[x + 1]
        BY <1>4, <1>5, <3>2 DEF Shifted
      <4>2. x + 1 < k => log[x + 1].org # org
        BY <1>5, <1>7, <4>1
      <4>3. x < j => x + 1 < k
        BY <1>4, <1>5, <1>7, <1>8, <3>2 DEF Shifted
      <4> QED
        BY <1>7, <1>9, <3>2, <4>1, <4>2, <4>3 DEF Before, OfOrg
    <3> QED
      BY <3>1, <3>2
  <2>2. Before(log, i) \subseteq DOMAIN T
    <3> SUFFICES ASSUME NEW y \in Before(log, i) PROVE y \in DOMAIN T
      OBVIOUS
    <3>1. y \in DOMAIN log /\ y < i /\ y # i
      BY <1>5 DEF Before, OfOrg
    <3>2. PICK x \in DOMAIN T : y = Shifted(i, x)
      BY <1>4, <3>1
    <3>3. x = y
      BY <1>4, <1>5, <3>1, <3>2 DEF Shifted
    <3> QED
      BY <3>2, <3>3
  <2>3. Before(T, j) = Before(log, i)
    <3>1. Before(T, j) \subseteq DOMAIN T
      BY DEF Before, OfOrg
    <3> QED
      BY <2>1, <2>2, <3>1
  <2>4. LastHash(T, Before(log, i)) = LastHash(log, Before(log, i))
    <3>1. Before(log, i) \subseteq DOMAIN log
      BY DEF Before, OfOrg
    <3>2. \A x \in Before(log, i) : T[x] = log[x]
      BY <1>4, <1>5, <2>2, <3>1 DEF Shifted, Before
    <3>3. CASE Before(log, i) = {}
      BY <3>3 DEF LastHash
    <3>4. CASE Before(log, i) # {}
      <4>1. PICK m \in Before(log, i) : \A x \in Before(log, i) : x <= m
        BY <1>1, <3>1, <3>4, LastIs
      <4>2. LastHash(log, Before(log, i)) = log[m].hash
        BY <1>1, <3>1, <4>1, LastIs
      <4>3. LastHash(T, Before(log, i)) = T[m].hash
        BY <1>4, <2>2, <4>1, LastIs
      <4> QED
        BY <3>2, <4>1, <4>2, <4>3
    <3> QED
      BY <3>3, <3>4
  <2> QED
    BY <1>10, <2>3, <2>4 DEF Linked
<1>13. ~Valid(T, org)
  <2>1. T[j].previous # LastHash(T, Before(T, j))
    BY <1>1, <1>9, <1>11, <1>12, HashSays
  <2> QED
    BY <1>9, <2>1 DEF Valid, Linked
<1>14. \A o \in Tenants : Valid(log, o)' <=> Valid(T, o)
  BY <1>3 DEF Valid, OfOrg, Linked, LastHash, Before
<1>15. ChainTellsTheTruth'
  BY <1>1, <1>3, <1>6, <1>13, <1>14 DEF ChainTellsTheTruth
<1> QED
  BY <1>1, <1>3, <1>4, <1>15 DEF ChainInv

\* However records are appended, edited, removed and cut off, the verification tells
\* the organizations whose chain was changed from the others.
THEOREM VerificationTellsTheTruth == ChainSpec => []ChainTellsTheTruth
<1>1. ChainInit => ChainInv
  BY DEF ChainInit, ChainInv, ChainTellsTheTruth, Valid, OfOrg
<1>2. ChainInv /\ [ChainNext]_chainVars => ChainInv'
  <2> SUFFICES ASSUME ChainInv, [ChainNext]_chainVars PROVE ChainInv'
    OBVIOUS
  <2>1. CASE UNCHANGED chainVars
    <3>1. log' = log /\ spoilt' = spoilt
      BY <2>1 DEF chainVars
    <3>2. \A o : Valid(log, o)' <=> Valid(log, o)
      BY <3>1 DEF Valid, OfOrg, Linked, LastHash, Before
    <3> QED
      BY <3>1, <3>2 DEF ChainInv, ChainTellsTheTruth
  <2>2. CASE ChainNext
    BY <2>2, AppendKeepsChains, EditGivesAway, RemovalGivesAway, CutLeavesNoTrace
       DEF ChainNext, AppendAudit, AppendDecision
  <2> QED
    BY <2>1, <2>2
<1>3. ChainInv => ChainTellsTheTruth
  BY DEF ChainInv
<1> QED
  BY <1>1, <1>2, <1>3, PTL DEF ChainSpec

=============================================================================
