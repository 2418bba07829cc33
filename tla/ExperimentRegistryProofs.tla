----------------------- MODULE ExperimentRegistryProofs -----------------------
(***************************************************************************)
(* Proofs about ExperimentRegistry, for any set of requests and any number *)
(* of createdAt stamps.                                                    *)
(*                                                                         *)
(* SupersedesChain is not inductive: what OutcomeCommit appends was        *)
(* computed by OutcomeRead, from a snapshot.  What saves it is that the    *)
(* collections only grow and committed outcomes never change, so what a    *)
(* request has read stays true (InFlight).                                 *)
(*                                                                         *)
(* The last section proves what PilotEvidence takes for granted of the     *)
(* studies it reads (StudiesMoveAsRead).                                   *)
(***************************************************************************)
EXTENDS ExperimentRegistry, FiniteSetTheorems, SequenceTheorems, TLAPS

\* A request that holds what OutcomeRead computed names things still there.
Sound(q) ==
  q.pc \in {"read", "stamped"} =>
    /\ q.target \in DOMAIN experiments
    /\ \/ q.version = 1 /\ q.prior = None
       \/ /\ q.prior \in DOMAIN outcomes
          /\ outcomes[q.prior].experiment = q.target
          /\ q.version = outcomes[q.prior].version + 1

InFlight == \A r \in Requests : Sound(req[r])

\* Every outcome belongs to an experiment.
OutcomesHaveExperiments ==
  \A o \in DOMAIN outcomes : outcomes[o].experiment \in DOMAIN experiments

IInv ==
  /\ TypeOK
  /\ InFlight
  /\ OutcomesHaveExperiments
  /\ SupersedesChain
  /\ StatusTracksOutcomes

-----------------------------------------------------------------------------

\* Looking up, and replacing, a record of a collection.
LEMMA RecordAt ==
  ASSUME NEW S, NEW s \in Seq(S), NEW i \in DOMAIN s
  PROVE  i \in Nat /\ i \in 1..Len(s) /\ s[i] \in S
BY LenProperties, ElementOfSeq

\* Replacing a record of a collection leaves a collection.
LEMMA RecordReplaced ==
  ASSUME NEW S, NEW s \in Seq(S), NEW i \in DOMAIN s, NEW e \in S
  PROVE  [s EXCEPT ![i] = e] \in Seq(S)
BY RecordAt, ExceptSeq

\* Replacing a record that is not there changes nothing.
LEMMA RecordMissing ==
  ASSUME NEW S, NEW s \in Seq(S), NEW i, i \notin DOMAIN s, NEW e
  PROVE  [s EXCEPT ![i] = e] = s
BY LenProperties

\* A request moves to a well-formed state, the others keep theirs.
LEMMA GotoType ==
  ASSUME TypeOK, NEW r \in Requests, NEW next \in Request, Goto(r, next)
  PROVE  req' \in [Requests -> Request]
BY DEF TypeOK, Goto

\* A request that ends is well formed.
LEMMA IdleType == Idle \in Request
BY DEF Idle, Request, None

\* Each action keeps the type of what it writes.
LEMMA TypeStep ==
  ASSUME TypeOK, [Next]_vars
  PROVE  TypeOK'
<1>1. ASSUME NEW r \in Requests, NEW clean \in BOOLEAN, OnboardStart(r, clean)
      PROVE TypeOK'
  <2>1. clock' \in Nat
    BY <1>1 DEF OnboardStart, Stamp, TypeOK
  <2>2. [Idle EXCEPT !.pc = "onboard", !.created = clock', !.clean = clean] \in Request
    BY <2>1 DEF Idle, Request, None
  <2> QED
    BY <1>1, <2>1, <2>2, GotoType DEF OnboardStart, TypeOK
<1>2. ASSUME NEW r \in Requests, OnboardCommit(r) PROVE TypeOK'
  <2>1. [created |-> req[r].created, experiment |-> Len(experiments) + 1] \in Analysis
    BY DEF Analysis, Request, TypeOK
  <2>2. [analysis |-> Len(analyses) + 1, status |-> OpenedAs(req[r].clean),
         verified |-> FALSE, created |-> req[r].created,
         latest |-> None, latestVersion |-> 0] \in Experiment
    BY DEF Experiment, Statuses, OpenedAs, Request, TypeOK, None
  <2>3. /\ analyses' \in Seq(Analysis)
        /\ experiments' \in Seq(Experiment)
    BY <1>2, <2>1, <2>2, AppendProperties DEF OnboardCommit, TypeOK
  <2> QED
    BY <1>2, <2>3, GotoType, IdleType DEF OnboardCommit, TypeOK
<1>3. ASSUME NEW r \in Requests, RegisterStart(r) PROVE TypeOK'
  <2>1. PICK a \in DOMAIN analyses :
          Goto(r, [Idle EXCEPT !.pc = "register", !.target = a])
    BY <1>3 DEF RegisterStart
  <2>2. a \in Nat
    BY LenProperties DEF TypeOK
  <2>3. [Idle EXCEPT !.pc = "register", !.target = a] \in Request
    BY <2>2 DEF Idle, Request, None
  <2> QED
    BY <1>3, <2>1, <2>3, GotoType DEF RegisterStart, TypeOK
<1>4. ASSUME NEW r \in Requests, RegisterRefused(r) PROVE TypeOK'
  BY <1>4, GotoType, IdleType DEF RegisterRefused, TypeOK
<1>5. ASSUME NEW r \in Requests, RegisterCheck(r) PROVE TypeOK'
  <2>1. clock' \in Nat
    BY <1>5 DEF RegisterCheck, Stamp, TypeOK
  <2>2. [req[r] EXCEPT !.pc = "checked", !.created = clock'] \in Request
    BY <2>1 DEF Request, TypeOK
  <2> QED
    BY <1>5, <2>1, <2>2, GotoType DEF RegisterCheck, TypeOK
<1>6. ASSUME NEW r \in Requests, RegisterCommit(r) PROVE TypeOK'
  <2>1. [analysis |-> req[r].target, status |-> "registered", verified |-> TRUE,
         created |-> req[r].created, latest |-> None, latestVersion |-> 0] \in Experiment
    BY DEF Experiment, Statuses, Request, TypeOK, None
  <2>2. experiments' \in Seq(Experiment)
    BY <1>6, <2>1, AppendProperties DEF RegisterCommit, TypeOK
  <2>3. analyses' \in Seq(Analysis)
    <3> DEFINE old == analyses[req[r].target]
               new == [old EXCEPT !.experiment = Len(experiments) + 1]
    <3>1. analyses \in Seq(Analysis) /\ Len(experiments) + 1 \in Nat
      BY LenProperties DEF TypeOK
    <3>2. analyses' = [analyses EXCEPT ![req[r].target] = new]
      BY <1>6 DEF RegisterCommit, Relinked
    <3>3. CASE req[r].target \in DOMAIN analyses
      <4>1. old \in Analysis
        BY <3>1, <3>3, RecordAt
      <4>2. new \in Analysis
        BY <3>1, <4>1 DEF Analysis
      <4> QED
        BY <3>1, <3>2, <3>3, <4>2, RecordReplaced
    <3>4. CASE req[r].target \notin DOMAIN analyses
      BY <3>1, <3>2, <3>4, RecordMissing
    <3> QED
      BY <3>3, <3>4
  <2> QED
    BY <1>6, <2>2, <2>3, GotoType, IdleType DEF RegisterCommit, TypeOK
<1>7. ASSUME NEW r \in Requests, NEW e \in DOMAIN experiments, OutcomeRead(r, e)
      PROVE TypeOK'
  <2>1. e \in Nat
    BY LenProperties DEF TypeOK
  <2>2. [Idle EXCEPT !.pc = "read", !.target = e, !.version = 1] \in Request
    BY <2>1 DEF Idle, Request, None
  <2>3. ASSUME NEW o \in DOMAIN outcomes
        PROVE  [Idle EXCEPT !.pc = "read", !.target = e, !.prior = o,
                            !.version = outcomes[o].version + 1] \in Request
    <3>1. o \in Nat /\ outcomes[o].version \in Nat
      <4>1. o \in Nat /\ outcomes[o] \in Outcome
        BY RecordAt DEF TypeOK
      <4> QED
        BY <4>1 DEF Outcome
    <3>2. outcomes[o].version + 1 \in Nat
      BY <3>1
    <3> QED
      BY <2>1, <3>1, <3>2 DEF Idle, Request, None
  <2>4. req' \in [Requests -> Request]
    BY <1>7, <2>2, <2>3, GotoType DEF OutcomeRead
  <2> QED
    BY <1>7, <2>4 DEF OutcomeRead, TypeOK
<1>8. ASSUME NEW r \in Requests, OutcomeStamp(r) PROVE TypeOK'
  <2>1. clock' \in Nat
    BY <1>8 DEF OutcomeStamp, Stamp, TypeOK
  <2>2. [req[r] EXCEPT !.pc = "stamped", !.created = clock'] \in Request
    BY <2>1 DEF Request, TypeOK
  <2> QED
    BY <1>8, <2>1, <2>2, GotoType DEF OutcomeStamp, TypeOK
<1>9. ASSUME NEW r \in Requests, OutcomeCommit(r) PROVE TypeOK'
  <2>1. [experiment |-> req[r].target, version |-> req[r].version,
         supersedes |-> req[r].prior, created |-> req[r].created] \in Outcome
    BY DEF Outcome, Request, TypeOK
  <2>2. outcomes' \in Seq(Outcome)
    BY <1>9, <2>1, AppendProperties DEF OutcomeCommit, TypeOK
  <2>3. req[r].version \in Nat /\ Len(outcomes) + 1 \in Nat
    BY DEF Request, TypeOK
  <2>4. experiments' \in Seq(Experiment)
    <3> DEFINE old == experiments[req[r].target]
               new == [old EXCEPT !.status = "outcome_received",
                                  !.latest = Len(outcomes) + 1,
                                  !.latestVersion = req[r].version]
    <3>1. experiments \in Seq(Experiment)
      BY DEF TypeOK
    <3>2. experiments' = [experiments EXCEPT ![req[r].target] = new]
      BY <1>9 DEF OutcomeCommit, Received
    <3>3. CASE req[r].target \in DOMAIN experiments
      <4>1. old \in Experiment
        BY <3>1, <3>3, RecordAt
      <4>2. new \in Experiment
        BY <2>3, <4>1 DEF Experiment, Statuses
      <4> QED
        BY <3>1, <3>2, <3>3, <4>2, RecordReplaced
    <3>4. CASE req[r].target \notin DOMAIN experiments
      BY <3>1, <3>2, <3>4, RecordMissing
    <3> QED
      BY <3>3, <3>4
  <2> QED
    BY <1>9, <2>2, <2>4, GotoType, IdleType DEF OutcomeCommit, TypeOK
<1>10. ASSUME NEW r \in Requests, Fail(r) PROVE TypeOK'
  BY <1>10, GotoType, IdleType DEF Fail, TypeOK
<1>11. CASE UNCHANGED vars
  BY <1>11 DEF vars, TypeOK
<1> QED
  BY <1>1, <1>2, <1>3, <1>4, <1>5, <1>6, <1>7, <1>8, <1>9, <1>10, <1>11 DEF Next

\* The database stays well formed and every request is at a known await, for
\* any number of requests: no interleaving of the handlers' reads and commits
\* writes a record that does not have its fields, or a status that
\* experiment.js does not know.
THEOREM TypeCorrect == Spec => []TypeOK
<1>1. Init => TypeOK
  BY IdleType DEF Init, TypeOK
<1> QED
  BY <1>1, TypeStep, PTL DEF Spec

-----------------------------------------------------------------------------

\* What Append does to the records of a collection.
LEMMA Appended ==
  ASSUME NEW S, NEW s \in Seq(S), NEW e \in S
  PROVE  /\ DOMAIN s = 1..Len(s) /\ Len(s) \in Nat
         /\ DOMAIN Append(s, e) = 1..(Len(s) + 1)
         /\ \A i \in DOMAIN s : Append(s, e)[i] = s[i]
         /\ Append(s, e)[Len(s) + 1] = e
BY LenProperties, AppendProperties

\* The two collections only grow, and a committed outcome never changes.
Grown ==
  /\ DOMAIN experiments \subseteq DOMAIN experiments'
  /\ DOMAIN outcomes \subseteq DOMAIN outcomes'
  /\ \A o \in DOMAIN outcomes : outcomes'[o] = outcomes[o]

\* So whatever an import has read stays true while others commit.
LEMMA StaysInFlight ==
  ASSUME TypeOK, InFlight, Grown,
         NEW r \in Requests, NEW next, Goto(r, next), Sound(next)
  PROVE  InFlight'
<1> SUFFICES ASSUME NEW q \in Requests PROVE Sound(req[q])'
  BY DEF InFlight
<1>1. req' = [req EXCEPT ![r] = next] /\ req \in [Requests -> Request]
  BY DEF Goto, TypeOK
<1>2. \A x : Sound(x) => Sound(x)'
  BY DEF Grown, Sound
<1> QED
  BY <1>1, <1>2 DEF InFlight

\* An experiment opened or registered has no outcome yet.
LEMMA ExperimentOpened ==
  ASSUME IInv, NEW x \in Experiment,
         x.status # "outcome_received",
         experiments' = Append(experiments, x), outcomes' = outcomes
  PROVE  /\ OutcomesHaveExperiments' /\ SupersedesChain' /\ StatusTracksOutcomes'
         /\ Grown
<1> DEFINE n == Len(experiments)
<1>1. /\ DOMAIN experiments = 1..n /\ n \in Nat
      /\ DOMAIN experiments' = 1..(n + 1)
      /\ \A e \in DOMAIN experiments : experiments'[e] = experiments[e]
      /\ experiments'[n + 1] = x
  BY Appended DEF IInv, TypeOK
<1>2. \A o \in DOMAIN outcomes : outcomes[o].experiment \in 1..n
  BY <1>1 DEF IInv, OutcomesHaveExperiments
<1>3. SupersedesChain'
  BY DEF IInv, SupersedesChain
<1>4. Grown /\ OutcomesHaveExperiments'
  BY <1>1, <1>2 DEF Grown, OutcomesHaveExperiments
<1>5. StatusTracksOutcomes'
  <2> SUFFICES ASSUME NEW e \in 1..(n + 1)
               PROVE  /\ (experiments[e].status = "outcome_received")' <=> OutcomesOf(e) # {}
                      /\ OutcomesOf(e) # {} =>
                           /\ experiments'[e].latest \in OutcomesOf(e)
                           /\ experiments'[e].latestVersion
                                = outcomes[experiments'[e].latest].version
                           /\ \A o \in OutcomesOf(e) : o <= experiments'[e].latest
    BY <1>1 DEF StatusTracksOutcomes, OutcomesOf
  <2>1. CASE e = n + 1
    <3>1. OutcomesOf(e) = {}
      BY <1>1, <1>2, <2>1 DEF OutcomesOf
    <3> QED
      BY <1>1, <2>1, <3>1
  <2>2. CASE e # n + 1
    <3>1. e \in DOMAIN experiments
      BY <1>1, <2>2
    <3> QED
      BY <1>1, <3>1 DEF IInv, StatusTracksOutcomes
  <2> QED
    BY <2>1, <2>2
<1> QED
  BY <1>3, <1>4, <1>5

\* A committed import: the outcome takes its place in the chain, and its
\* experiment names it.
LEMMA OutcomeCommitted ==
  ASSUME IInv, NEW r \in Requests, OutcomeCommit(r), TypeOK'
  PROVE  /\ OutcomesHaveExperiments' /\ SupersedesChain' /\ StatusTracksOutcomes'
         /\ Grown
<1> DEFINE q == req[r]
           m == Len(outcomes)
           x == [experiment |-> q.target, version |-> q.version,
                 supersedes |-> q.prior, created |-> q.created]
<1>1. /\ DOMAIN outcomes = 1..m /\ m \in Nat
      /\ DOMAIN outcomes' = 1..(m + 1)
      /\ \A o \in DOMAIN outcomes : outcomes'[o] = outcomes[o]
      /\ outcomes'[m + 1] = x
  <2>1. x \in Outcome
    BY DEF IInv, TypeOK, Outcome, Request
  <2> QED
    BY <2>1, Appended DEF OutcomeCommit, IInv, TypeOK
<1>2. /\ q.target \in DOMAIN experiments
      /\ \/ q.version = 1 /\ q.prior = None
         \/ /\ q.prior \in 1..m
            /\ outcomes[q.prior].experiment = q.target
            /\ q.version = outcomes[q.prior].version + 1
  BY <1>1 DEF IInv, InFlight, Sound, OutcomeCommit
<1>3. /\ DOMAIN experiments' = DOMAIN experiments
      /\ \A e \in DOMAIN experiments \ {q.target} : experiments'[e] = experiments[e]
      /\ experiments'[q.target].status = "outcome_received"
      /\ experiments'[q.target].latest = m + 1
      /\ experiments'[q.target].latestVersion = q.version
  <2>1. experiments' = Received(q.target, q.version)
    BY DEF OutcomeCommit
  <2>2. experiments[q.target] \in Experiment
    BY <1>2, RecordAt DEF IInv, TypeOK
  <2> QED
    BY <1>2, <2>1, <2>2 DEF Received, Experiment
<1>4. Grown
  BY <1>1, <1>3 DEF Grown
<1>5. OutcomesHaveExperiments'
  BY <1>1, <1>2, <1>3 DEF IInv, OutcomesHaveExperiments
<1>6. SupersedesChain'
  <2> SUFFICES ASSUME NEW o \in 1..(m + 1)
               PROVE  \/ outcomes'[o].version = 1 /\ outcomes'[o].supersedes = None
                      \/ /\ outcomes'[o].supersedes \in 1..(o - 1)
                         /\ outcomes'[outcomes'[o].supersedes].experiment
                              = outcomes'[o].experiment
                         /\ outcomes'[o].version
                              = outcomes'[outcomes'[o].supersedes].version + 1
    BY <1>1 DEF SupersedesChain, None
  <2>1. CASE o = m + 1
    BY <1>1, <1>2, <2>1
  <2>2. CASE o \in 1..m
    <3>1. \A p \in 1..(o - 1) : p \in 1..m
      BY <1>1, <2>2
    <3> QED
      BY <1>1, <2>2, <3>1 DEF IInv, SupersedesChain, None
  <2> QED
    BY <1>1, <2>1, <2>2
<1>7. StatusTracksOutcomes'
  <2>0. PICK t : t = req[r].target
    OBVIOUS
  <2>1. OutcomesOf(t)' = OutcomesOf(t) \cup {m + 1}
    BY <1>1, <2>0 DEF OutcomesOf
  <2>2. \A e \in DOMAIN experiments \ {t} : OutcomesOf(e)' = OutcomesOf(e)
    BY <1>1, <2>0 DEF OutcomesOf
  <2>3. ASSUME NEW e \in DOMAIN experiments, e # t
        PROVE  /\ experiments'[e].status = "outcome_received" <=> OutcomesOf(e)' # {}
               /\ OutcomesOf(e)' # {} =>
                    /\ experiments'[e].latest \in OutcomesOf(e)'
                    /\ experiments'[e].latestVersion
                         = outcomes'[experiments'[e].latest].version
                    /\ \A o \in OutcomesOf(e)' : o <= experiments'[e].latest
    <3>1. OutcomesOf(e)' = OutcomesOf(e) /\ OutcomesOf(e) \subseteq DOMAIN outcomes
      BY <2>2, <2>3 DEF OutcomesOf
    <3> QED
      BY <1>1, <1>3, <2>0, <2>3, <3>1 DEF IInv, StatusTracksOutcomes
  <2>4. /\ experiments'[t].status = "outcome_received"
        /\ OutcomesOf(t)' # {}
        /\ experiments'[t].latest \in OutcomesOf(t)'
        /\ experiments'[t].latestVersion
             = outcomes'[experiments'[t].latest].version
        /\ \A o \in OutcomesOf(t)' : o <= experiments'[t].latest
    <3>1. OutcomesOf(t) \subseteq 1..m
      BY <1>1 DEF OutcomesOf
    <3> QED
      BY <1>1, <1>3, <2>0, <2>1, <3>1
  <2> QED
    BY <1>3, <2>0, <2>3, <2>4 DEF StatusTracksOutcomes
<1> QED
  BY <1>4, <1>5, <1>6, <1>7

\* A step that leaves experiments and outcomes alone keeps what IInv says of them.
LEMMA DatabaseKept ==
  ASSUME IInv, UNCHANGED <<experiments, outcomes>>
  PROVE  /\ OutcomesHaveExperiments' /\ SupersedesChain' /\ StatusTracksOutcomes'
         /\ Grown
BY DEF IInv, OutcomesHaveExperiments, SupersedesChain, StatusTracksOutcomes,
       OutcomesOf, Grown

\* Requests that do not import an outcome hold nothing Sound speaks of.
LEMMA SoundElsewhere ==
  ASSUME NEW q, q.pc \notin {"read", "stamped"}
  PROVE  Sound(q)
BY DEF Sound

\* Every step of every handler keeps the invariant.
LEMMA IInvStep ==
  ASSUME IInv, [Next]_vars
  PROVE  IInv'
<1>0. TypeOK /\ TypeOK' /\ InFlight
  BY TypeStep DEF IInv
<1> DEFINE Rest == OutcomesHaveExperiments /\ SupersedesChain /\ StatusTracksOutcomes
<1>1. ASSUME NEW r \in Requests, NEW clean \in BOOLEAN, OnboardStart(r, clean)
      PROVE  IInv'
  <2>1. Rest' /\ Grown
    BY <1>1, DatabaseKept DEF OnboardStart
  <2>2. Sound([Idle EXCEPT !.pc = "onboard", !.created = clock', !.clean = clean])
    BY SoundElsewhere DEF Idle
  <2> QED
    BY <1>0, <1>1, <2>1, <2>2, StaysInFlight DEF OnboardStart, IInv
<1>2. ASSUME NEW r \in Requests, OnboardCommit(r) PROVE IInv'
  <2> DEFINE x == [analysis |-> Len(analyses) + 1, status |-> OpenedAs(req[r].clean),
                   verified |-> FALSE, created |-> req[r].created,
                   latest |-> None, latestVersion |-> 0]
  <2>1. x \in Experiment /\ x.status # "outcome_received"
    BY <1>0, LenProperties DEF Experiment, Statuses, OpenedAs, Request, TypeOK, None
  <2>2. Rest' /\ Grown
    BY <1>2, <2>1, ExperimentOpened DEF OnboardCommit
  <2> QED
    BY <1>0, <1>2, <2>2, StaysInFlight, SoundElsewhere DEF OnboardCommit, IInv, Idle
<1>3. ASSUME NEW r \in Requests, RegisterStart(r) PROVE IInv'
  <2>1. Rest' /\ Grown
    BY <1>3, DatabaseKept DEF RegisterStart
  <2>2. PICK a \in DOMAIN analyses :
          Goto(r, [Idle EXCEPT !.pc = "register", !.target = a])
    BY <1>3 DEF RegisterStart
  <2>3. Sound([Idle EXCEPT !.pc = "register", !.target = a])
    BY SoundElsewhere DEF Idle
  <2> QED
    BY <1>0, <2>1, <2>2, <2>3, StaysInFlight DEF IInv
<1>4. ASSUME NEW r \in Requests, RegisterRefused(r) PROVE IInv'
  <2>1. Rest' /\ Grown
    BY <1>4, DatabaseKept DEF RegisterRefused
  <2> QED
    BY <1>0, <1>4, <2>1, StaysInFlight, SoundElsewhere DEF RegisterRefused, IInv, Idle
<1>5. ASSUME NEW r \in Requests, RegisterCheck(r) PROVE IInv'
  <2>1. Rest' /\ Grown
    BY <1>5, DatabaseKept DEF RegisterCheck
  <2>2. Sound([req[r] EXCEPT !.pc = "checked", !.created = clock'])
    BY <1>0, SoundElsewhere DEF TypeOK, Request
  <2> QED
    BY <1>0, <1>5, <2>1, <2>2, StaysInFlight DEF RegisterCheck, IInv
<1>6. ASSUME NEW r \in Requests, RegisterCommit(r) PROVE IInv'
  <2> DEFINE x == [analysis |-> req[r].target, status |-> "registered",
                   verified |-> TRUE, created |-> req[r].created,
                   latest |-> None, latestVersion |-> 0]
  <2>1. x \in Experiment /\ x.status # "outcome_received"
    BY <1>0 DEF Experiment, Statuses, Request, TypeOK, None
  <2>2. Rest' /\ Grown
    BY <1>6, <2>1, ExperimentOpened DEF RegisterCommit
  <2> QED
    BY <1>0, <1>6, <2>2, StaysInFlight, SoundElsewhere DEF RegisterCommit, IInv, Idle
<1>7. ASSUME NEW r \in Requests, NEW e \in DOMAIN experiments, OutcomeRead(r, e)
      PROVE  IInv'
  <2>1. Rest' /\ Grown
    BY <1>7, DatabaseKept DEF OutcomeRead
  <2>2. Sound([Idle EXCEPT !.pc = "read", !.target = e, !.version = 1])
    BY DEF Sound, Idle
  <2>3. ASSUME NEW o \in DOMAIN outcomes, IsPreviousOutcome(o, e)
        PROVE  Sound([Idle EXCEPT !.pc = "read", !.target = e, !.prior = o,
                                  !.version = outcomes[o].version + 1])
    BY <2>3 DEF Sound, Idle, IsPreviousOutcome, OutcomesOf
  <2>4. InFlight'
    BY <1>0, <1>7, <2>1, <2>2, <2>3, StaysInFlight DEF OutcomeRead
  <2> QED
    BY <1>0, <2>1, <2>4 DEF IInv
<1>8. ASSUME NEW r \in Requests, OutcomeStamp(r) PROVE IInv'
  <2>1. Rest' /\ Grown
    BY <1>8, DatabaseKept DEF OutcomeStamp
  <2>2. Sound(req[r]) /\ req[r].pc = "read" /\ req[r] \in Request
    BY <1>0, <1>8 DEF InFlight, OutcomeStamp, TypeOK
  <2>3. Sound([req[r] EXCEPT !.pc = "stamped", !.created = clock'])
    BY <2>2 DEF Sound, Request
  <2> QED
    BY <1>0, <1>8, <2>1, <2>3, StaysInFlight DEF OutcomeStamp, IInv
<1>9. ASSUME NEW r \in Requests, OutcomeCommit(r) PROVE IInv'
  <2>1. Rest' /\ Grown
    BY <1>0, <1>9, OutcomeCommitted
  <2> QED
    BY <1>0, <1>9, <2>1, StaysInFlight, SoundElsewhere DEF OutcomeCommit, IInv, Idle
<1>10. ASSUME NEW r \in Requests, Fail(r) PROVE IInv'
  <2>1. Rest' /\ Grown
    BY <1>10, DatabaseKept DEF Fail
  <2> QED
    BY <1>0, <1>10, <2>1, StaysInFlight, SoundElsewhere DEF Fail, IInv, Idle
<1>11. CASE UNCHANGED vars
  <2>1. Rest' /\ req' = req /\ experiments' = experiments /\ outcomes' = outcomes
    BY <1>11, DatabaseKept DEF vars
  <2> QED
    BY <1>0, <2>1 DEF IInv, InFlight, Sound
<1> QED
  BY <1>1, <1>2, <1>3, <1>4, <1>5, <1>6, <1>7, <1>8, <1>9, <1>10, <1>11 DEF Next

LEMMA IInvInit == Init => IInv
<1>1. Init => TypeOK
  BY IdleType DEF Init, TypeOK
<1> QED
  BY <1>1 DEF Init, IInv, InFlight, Sound, Idle, OutcomesHaveExperiments,
              SupersedesChain, StatusTracksOutcomes

\* The strengthened invariant holds in every reachable state.
THEOREM InductiveInvariant == Spec => []IInv
BY IInvInit, IInvStep, PTL DEF Spec

\* importOutcomeAnalysis decides version and supersedesOutcomeId on a snapshot
\* that any number of other requests may outdate before it commits; still every
\* outcome supersedes a committed outcome of its own experiment, one version
\* older, or is a first version.
THEOREM ChainCorrect == Spec => []SupersedesChain
BY InductiveInvariant, PTL DEF IInv

\* An experiment's status, latestOutcomeId and latestOutcomeVersion agree with
\* db.outcomes after every commit, however many handlers interleave.
THEOREM StatusCorrect == Spec => []StatusTracksOutcomes
BY InductiveInvariant, PTL DEF IInv

-----------------------------------------------------------------------------
(* One request at a time                                                   *)

\* Records are stamped in the order of their commits, and in the past.
Ordered(s) ==
  /\ \A i, j \in DOMAIN s : i < j => s[i].created < s[j].created
  /\ \A i \in DOMAIN s : s[i].created <= clock

\* Every record was stamped before.
StampedBefore(t) ==
  /\ \A a \in DOMAIN analyses : analyses[a].created < t
  /\ \A e \in DOMAIN experiments : experiments[e].created < t
  /\ \A o \in DOMAIN outcomes : outcomes[o].created < t

NoPilotOn(a) ==
  \A e \in DOMAIN experiments : experiments[e].analysis = a => ~OpenRegistered(e)

VersionsAscend ==
  \A o, p \in DOMAIN outcomes :
    o < p /\ outcomes[o].experiment = outcomes[p].experiment
      => outcomes[o].version < outcomes[p].version

\* An analysis names the last experiment that was opened on it.
NamesLast ==
  \A a \in DOMAIN analyses :
    /\ analyses[a].experiment \in DOMAIN experiments
    /\ experiments[analyses[a].experiment].analysis = a
    /\ \A e \in DOMAIN experiments : experiments[e].analysis = a => e <= analyses[a].experiment

\* An experiment was opened on an analysis; as long as it is an open pilot, it is
\* the last one there.
PilotIsLast ==
  \A e \in DOMAIN experiments :
    /\ experiments[e].analysis \in DOMAIN analyses
    /\ OpenRegistered(e) => analyses[experiments[e].analysis].experiment = e

\* What the request has read and drawn is still so when it commits.
Current(q) ==
  /\ q.pc \in {"onboard", "checked", "stamped"} => q.created <= clock /\ StampedBefore(q.created)
  /\ q.pc \in {"register", "checked"} => q.target \in DOMAIN analyses
  /\ q.pc = "checked" => NoPilotOn(q.target)
  /\ q.pc \in {"read", "stamped"} =>
       \A o \in OutcomesOf(q.target) : outcomes[o].version < q.version

AllOrdered == Ordered(analyses) /\ Ordered(experiments) /\ Ordered(outcomes)

SequentialInv ==
  /\ IInv
  /\ AllOrdered /\ VersionsAscend /\ NamesLast /\ PilotIsLast
  /\ \A r \in Requests : Current(req[r])

\* The three collections hold records of their kinds.
LEMMA Collections ==
  ASSUME TypeOK
  PROVE  /\ DOMAIN analyses = 1..Len(analyses) /\ Len(analyses) \in Nat
         /\ DOMAIN experiments = 1..Len(experiments) /\ Len(experiments) \in Nat
         /\ DOMAIN outcomes = 1..Len(outcomes) /\ Len(outcomes) \in Nat
         /\ \A a \in DOMAIN analyses : analyses[a] \in Analysis /\ analyses[a].created \in Nat
         /\ \A e \in DOMAIN experiments :
              experiments[e] \in Experiment /\ experiments[e].created \in Nat
         /\ \A o \in DOMAIN outcomes :
              /\ outcomes[o] \in Outcome /\ outcomes[o].created \in Nat
              /\ outcomes[o].version \in Nat
         /\ clock \in Nat
<1>1. /\ analyses \in Seq(Analysis) /\ experiments \in Seq(Experiment)
      /\ outcomes \in Seq(Outcome) /\ clock \in Nat
  BY DEF TypeOK
<1>2. ASSUME NEW a \in DOMAIN analyses
      PROVE  analyses[a] \in Analysis /\ analyses[a].created \in Nat
  <2>1. analyses[a] \in Analysis
    BY <1>1, RecordAt
  <2> QED
    BY <2>1 DEF Analysis
<1>3. ASSUME NEW e \in DOMAIN experiments
      PROVE  experiments[e] \in Experiment /\ experiments[e].created \in Nat
  <2>1. experiments[e] \in Experiment
    BY <1>1, RecordAt
  <2> QED
    BY <2>1 DEF Experiment
<1>4. ASSUME NEW o \in DOMAIN outcomes
      PROVE  /\ outcomes[o] \in Outcome /\ outcomes[o].created \in Nat
             /\ outcomes[o].version \in Nat
  <2>1. outcomes[o] \in Outcome
    BY <1>1, RecordAt
  <2> QED
    BY <2>1 DEF Outcome
<1> QED
  BY <1>1, <1>2, <1>3, <1>4, LenProperties

\* A step that commits nothing leaves what is said of the collections; the clock
\* only goes on.
LEMMA OnlyRequestMoves ==
  ASSUME SequentialInv, UNCHANGED <<analyses, experiments, outcomes>>,
         clock' \in Nat, clock <= clock'
  PROVE  AllOrdered' /\ VersionsAscend' /\ NamesLast' /\ PilotIsLast'
<1>1. AllOrdered'
  BY Collections DEF SequentialInv, IInv, AllOrdered, Ordered
<1>2. VersionsAscend' /\ NamesLast'
  BY DEF SequentialInv, VersionsAscend, NamesLast
<1>3. PilotIsLast'
  BY DEF SequentialInv, PilotIsLast, OpenRegistered, OutcomesOf
<1> QED
  BY <1>1, <1>2, <1>3

\* A stamp drawn now is later than everything committed.
LEMMA StampIsNew ==
  ASSUME SequentialInv, Stamp, UNCHANGED <<analyses, experiments, outcomes>>
  PROVE  /\ clock' \in Nat /\ clock <= clock'
         /\ StampedBefore(clock')
<1>1. clock' = clock + 1 /\ clock \in Nat
  BY Collections DEF Stamp, SequentialInv, IInv
<1>2. \A n \in Nat : n <= clock => n < clock'
  BY <1>1
<1>3. /\ \A a \in DOMAIN analyses : analyses[a].created \in Nat /\ analyses[a].created <= clock
      /\ \A e \in DOMAIN experiments :
           experiments[e].created \in Nat /\ experiments[e].created <= clock
      /\ \A o \in DOMAIN outcomes : outcomes[o].created \in Nat /\ outcomes[o].created <= clock
  BY Collections DEF SequentialInv, IInv, AllOrdered, Ordered
<1> QED
  BY <1>1, <1>2, <1>3 DEF StampedBefore

\* Nobody else moves, so after a step the one request is where it went.
LEMMA TheRequest ==
  ASSUME NEW r, Requests = {r}, TypeOK, NEW next, Goto(r, next), Current(next)'
  PROVE  \A q \in Requests : Current(req[q])'
<1>1. req'[r] = next
  BY DEF TypeOK, Goto
<1> QED
  BY <1>1 DEF Current, StampedBefore, NoPilotOn, OpenRegistered, OutcomesOf

\* A request that holds nothing yet, or no more, has nothing to be wrong about.
LEMMA IdleIsCurrent ==
  Current(Idle) /\ Current(Idle)'
BY DEF Current, Idle

\* A second record of an analysis finds the pilot the first one left open.
LEMMA PilotIsFound ==
  ASSUME SequentialInv, NEW a \in DOMAIN analyses, NEW e \in DOMAIN experiments,
         IsCurrentExperiment(e, a), ~OpenRegistered(e)
  PROVE  NoPilotOn(a)
<1> SUFFICES ASSUME NEW f \in DOMAIN experiments, experiments[f].analysis = a, OpenRegistered(f)
    PROVE  FALSE
  BY DEF NoPilotOn
<1>1. analyses[a].experiment = f
  BY DEF SequentialInv, PilotIsLast
<1>2. e <= f /\ e # f /\ e \in Nat /\ f \in Nat
  BY <1>1, Collections DEF SequentialInv, IInv, NamesLast, IsCurrentExperiment
<1>3. experiments[e].created < experiments[f].created
  BY <1>2 DEF SequentialInv, AllOrdered, Ordered
<1>4. experiments[f].created <= experiments[e].created
  BY DEF IsCurrentExperiment
<1> QED
  BY <1>3, <1>4, Collections DEF SequentialInv, IInv

\* A record stamped after the others keeps the order where it is appended.
LEMMA OrderedAppend ==
  ASSUME NEW S, NEW s \in Seq(S), NEW x \in S, Ordered(s),
         \A i \in DOMAIN s : s[i].created < x.created, x.created <= clock
  PROVE  Ordered(Append(s, x))
<1> DEFINE t == Append(s, x)
           n == Len(s)
<1>1. /\ DOMAIN s = 1..n /\ n \in Nat /\ DOMAIN t = 1..(n + 1)
      /\ \A i \in DOMAIN s : t[i] = s[i]
      /\ t[n + 1] = x
  BY Appended
<1> HIDE DEF t, n
<1>2. ASSUME NEW i \in DOMAIN t, NEW j \in DOMAIN t, i < j
      PROVE  t[i].created < t[j].created
  <2>1. i \in DOMAIN s /\ (j \in DOMAIN s \/ j = n + 1)
    BY <1>1, <1>2
  <2> QED
    BY <1>1, <1>2, <2>1 DEF Ordered
<1>3. ASSUME NEW i \in DOMAIN t
      PROVE  t[i].created <= clock
  <2>1. i \in DOMAIN s \/ i = n + 1
    BY <1>1
  <2> QED
    BY <1>1, <2>1 DEF Ordered
<1>4. Ordered(t)
  BY <1>2, <1>3 DEF Ordered
<1> QED
  BY <1>4 DEF t

\* A file opens an analysis and the experiment it names.
LEMMA OnboardCommitKeeps ==
  ASSUME SequentialInv, NEW r \in Requests, OnboardCommit(r), IInv'
  PROVE  AllOrdered' /\ VersionsAscend' /\ NamesLast' /\ PilotIsLast'
<1> DEFINE m == Len(analyses)
           n == Len(experiments)
<1>1. PICK q : q = req[r]
  OBVIOUS
<1>2. PICK a, x :
        /\ a = [created |-> q.created, experiment |-> n + 1]
        /\ x = [analysis |-> m + 1, status |-> OpenedAs(q.clean), verified |-> FALSE,
                created |-> q.created, latest |-> None, latestVersion |-> 0]
  OBVIOUS
<1>3. /\ analyses' = Append(analyses, a) /\ experiments' = Append(experiments, x)
      /\ UNCHANGED <<outcomes, clock>>
      /\ q.created <= clock /\ StampedBefore(q.created)
  BY <1>1, <1>2 DEF OnboardCommit, SequentialInv, Current
<1>4. TypeOK /\ q \in Request
  BY <1>1 DEF SequentialInv, IInv, TypeOK
<1>5. a \in Analysis /\ x \in Experiment /\ x.status # "registered" /\ x.analysis = m + 1
      /\ a.created = q.created /\ x.created = q.created /\ a.experiment = n + 1
  BY <1>2, <1>4, Collections DEF Analysis, Experiment, Statuses, OpenedAs, Request, None
<1>6. /\ DOMAIN analyses = 1..m /\ m \in Nat /\ DOMAIN analyses' = 1..(m + 1)
      /\ \A i \in DOMAIN analyses : analyses'[i] = analyses[i]
      /\ analyses'[m + 1] = a
  BY <1>3, <1>4, <1>5, Appended DEF TypeOK
<1>7. /\ DOMAIN experiments = 1..n /\ n \in Nat /\ DOMAIN experiments' = 1..(n + 1)
      /\ \A e \in DOMAIN experiments : experiments'[e] = experiments[e]
      /\ experiments'[n + 1] = x
  BY <1>3, <1>4, <1>5, Appended DEF TypeOK
<1>8. AllOrdered'
  <2>1. Ordered(Append(analyses, a)) /\ Ordered(Append(experiments, x))
    BY <1>3, <1>4, <1>5, OrderedAppend DEF SequentialInv, AllOrdered, StampedBefore, TypeOK
  <2>2. Ordered(outcomes)
    BY DEF SequentialInv, AllOrdered
  <2> QED
    BY <1>3, <2>1, <2>2 DEF AllOrdered, Ordered
<1>9. VersionsAscend'
  BY <1>3 DEF SequentialInv, VersionsAscend
<1> HIDE DEF m, n
<1>10. \A e \in DOMAIN experiments : experiments[e].analysis \in 1..m
  BY <1>6 DEF SequentialInv, PilotIsLast
<1>11. NamesLast'
  <2> SUFFICES ASSUME NEW i \in 1..(m + 1)
      PROVE  /\ analyses'[i].experiment \in DOMAIN experiments'
             /\ experiments'[analyses'[i].experiment].analysis = i
             /\ \A e \in DOMAIN experiments' :
                  experiments'[e].analysis = i => e <= analyses'[i].experiment
    BY <1>6 DEF NamesLast
  <2>1. CASE i = m + 1
    <3>1. analyses'[i].experiment = n + 1
      BY <1>5, <1>6, <2>1
    <3> QED
      BY <1>5, <1>7, <2>1, <3>1
  <2>2. CASE i # m + 1
    <3>1. i \in DOMAIN analyses /\ analyses'[i] = analyses[i]
      BY <1>6, <2>2
    <3>2. PICK f \in DOMAIN experiments :
            /\ f = analyses[i].experiment /\ experiments[f].analysis = i
            /\ \A e \in DOMAIN experiments : experiments[e].analysis = i => e <= f
      BY <3>1 DEF SequentialInv, NamesLast
    <3>3. f \in DOMAIN experiments' /\ experiments'[f].analysis = i
      BY <1>7, <3>2
    <3>4. \A e \in DOMAIN experiments' : experiments'[e].analysis = i => e <= f
      BY <1>5, <1>7, <2>2, <3>2
    <3> QED
      BY <3>1, <3>2, <3>3, <3>4
  <2> QED
    BY <2>1, <2>2
<1>12. PilotIsLast'
  <2> SUFFICES ASSUME NEW e \in 1..(n + 1)
      PROVE  /\ experiments'[e].analysis \in DOMAIN analyses'
             /\ OpenRegistered(e)' => analyses'[experiments'[e].analysis].experiment = e
    BY <1>7 DEF PilotIsLast
  <2>1. CASE e = n + 1
    BY <1>5, <1>6, <1>7, <2>1 DEF OpenRegistered
  <2>2. CASE e # n + 1
    <3>1. e \in DOMAIN experiments /\ experiments'[e] = experiments[e]
      BY <1>7, <2>2
    <3>2. OpenRegistered(e)' => OpenRegistered(e)
      BY <1>3, <3>1 DEF OpenRegistered, OutcomesOf
    <3>3. /\ experiments[e].analysis \in DOMAIN analyses
          /\ OpenRegistered(e) => analyses[experiments[e].analysis].experiment = e
      BY <3>1 DEF SequentialInv, PilotIsLast
    <3> QED
      BY <1>6, <3>1, <3>2, <3>3
  <2> QED
    BY <2>1, <2>2
<1> QED
  BY <1>8, <1>9, <1>11, <1>12

\* A registered pilot becomes the one its analysis names; no other was open there.
LEMMA RegisterCommitKeeps ==
  ASSUME SequentialInv, NEW r \in Requests, RegisterCommit(r), IInv'
  PROVE  AllOrdered' /\ VersionsAscend' /\ NamesLast' /\ PilotIsLast'
<1> DEFINE n == Len(experiments)
<1>1. PICK q, t : q = req[r] /\ t = req[r].target
  OBVIOUS
<1>2. PICK x : x = [analysis |-> t, status |-> "registered", verified |-> TRUE,
                    created |-> q.created, latest |-> None, latestVersion |-> 0]
  OBVIOUS
<1>3. /\ experiments' = Append(experiments, x) /\ analyses' = Relinked(t)
      /\ UNCHANGED <<outcomes, clock>>
      /\ q.created <= clock /\ StampedBefore(q.created)
      /\ t \in DOMAIN analyses /\ NoPilotOn(t)
  BY <1>1, <1>2 DEF RegisterCommit, SequentialInv, Current
<1>4. TypeOK /\ q \in Request /\ t \in Nat
  BY <1>1 DEF SequentialInv, IInv, TypeOK, Request
<1>5. x \in Experiment /\ x.analysis = t /\ x.created = q.created
  BY <1>2, <1>4 DEF Experiment, Statuses, Request, None
<1>6. /\ DOMAIN experiments = 1..n /\ n \in Nat /\ DOMAIN experiments' = 1..(n + 1)
      /\ \A e \in DOMAIN experiments : experiments'[e] = experiments[e]
      /\ experiments'[n + 1] = x
  BY <1>3, <1>4, <1>5, Appended DEF TypeOK
<1>7. /\ DOMAIN analyses' = DOMAIN analyses
      /\ \A a \in DOMAIN analyses \ {t} : analyses'[a] = analyses[a]
      /\ analyses'[t].experiment = n + 1 /\ analyses'[t].created = analyses[t].created
  <2>1. analyses[t] \in Analysis
    BY <1>3, <1>4, Collections
  <2> QED
    BY <1>3, <1>4, <2>1 DEF Relinked, Analysis
<1>8. AllOrdered'
  <2>1. Ordered(Append(experiments, x))
    BY <1>3, <1>4, <1>5, OrderedAppend DEF SequentialInv, AllOrdered, StampedBefore, TypeOK
  <2>2. Ordered(outcomes) /\ Ordered(analyses)
    BY DEF SequentialInv, AllOrdered
  <2>3. \A a \in DOMAIN analyses' : analyses'[a].created = analyses[a].created
    BY <1>7
  <2>4. Ordered(analyses)'
    BY <1>3, <1>7, <2>2, <2>3 DEF Ordered
  <2> QED
    BY <1>3, <2>1, <2>2, <2>4 DEF AllOrdered, Ordered
<1>9. VersionsAscend'
  BY <1>3 DEF SequentialInv, VersionsAscend
<1> HIDE DEF n
<1>10. NamesLast'
  <2> SUFFICES ASSUME NEW a \in DOMAIN analyses
      PROVE  /\ analyses'[a].experiment \in DOMAIN experiments'
             /\ experiments'[analyses'[a].experiment].analysis = a
             /\ \A e \in DOMAIN experiments' :
                  experiments'[e].analysis = a => e <= analyses'[a].experiment
    BY <1>7 DEF NamesLast
  <2>1. CASE a = t
    BY <1>5, <1>6, <1>7, <2>1
  <2>2. CASE a # t
    <3>1. PICK f \in DOMAIN experiments :
            /\ f = analyses[a].experiment /\ experiments[f].analysis = a
            /\ \A e \in DOMAIN experiments : experiments[e].analysis = a => e <= f
      BY DEF SequentialInv, NamesLast
    <3>2. analyses'[a].experiment = f
      BY <1>7, <2>2, <3>1
    <3> QED
      BY <1>5, <1>6, <2>2, <3>1, <3>2
  <2> QED
    BY <2>1, <2>2
<1>11. PilotIsLast'
  <2> SUFFICES ASSUME NEW e \in 1..(n + 1)
      PROVE  /\ experiments'[e].analysis \in DOMAIN analyses
             /\ OpenRegistered(e)' => analyses'[experiments'[e].analysis].experiment = e
    BY <1>6, <1>7 DEF PilotIsLast
  <2>1. CASE e = n + 1
    BY <1>3, <1>5, <1>6, <1>7, <2>1
  <2>2. CASE e # n + 1
    <3>1. e \in DOMAIN experiments /\ experiments'[e] = experiments[e]
      BY <1>6, <2>2
    <3>2. OpenRegistered(e)' => OpenRegistered(e)
      BY <1>3, <3>1 DEF OpenRegistered, OutcomesOf
    <3>3. /\ experiments[e].analysis \in DOMAIN analyses
          /\ OpenRegistered(e) => analyses[experiments[e].analysis].experiment = e
      BY <3>1 DEF SequentialInv, PilotIsLast
    <3>4. experiments[e].analysis = t => ~OpenRegistered(e)
      BY <1>3, <3>1 DEF NoPilotOn
    <3> QED
      BY <1>7, <3>1, <3>2, <3>3, <3>4
  <2> QED
    BY <2>1, <2>2
<1> QED
  BY <1>8, <1>9, <1>10, <1>11

\* An outcome has the highest version of its experiment, and closes its pilot.
LEMMA OutcomeCommitKeeps ==
  ASSUME SequentialInv, NEW r \in Requests, OutcomeCommit(r), IInv'
  PROVE  AllOrdered' /\ VersionsAscend' /\ NamesLast' /\ PilotIsLast'
<1> DEFINE m == Len(outcomes)
<1>1. PICK q, t : q = req[r] /\ t = req[r].target
  OBVIOUS
<1>2. PICK x : x = [experiment |-> t, version |-> q.version,
                    supersedes |-> q.prior, created |-> q.created]
  OBVIOUS
<1>3. /\ outcomes' = Append(outcomes, x) /\ experiments' = Received(t, q.version)
      /\ UNCHANGED <<analyses, clock>>
      /\ q.created <= clock /\ StampedBefore(q.created)
      /\ \A o \in OutcomesOf(t) : outcomes[o].version < q.version
  BY <1>1, <1>2 DEF OutcomeCommit, SequentialInv, Current
<1>4. TypeOK /\ q \in Request /\ t \in DOMAIN experiments
  BY <1>1 DEF SequentialInv, IInv, InFlight, Sound, TypeOK, OutcomeCommit
<1>5. x \in Outcome /\ x.experiment = t /\ x.version = q.version /\ x.created = q.created
  BY <1>1, <1>2, <1>4 DEF Outcome, Request
<1>6. /\ DOMAIN outcomes = 1..m /\ m \in Nat /\ DOMAIN outcomes' = 1..(m + 1)
      /\ \A o \in DOMAIN outcomes : outcomes'[o] = outcomes[o]
      /\ outcomes'[m + 1] = x
  BY <1>3, <1>4, <1>5, Appended DEF TypeOK
<1>7. /\ DOMAIN experiments' = DOMAIN experiments
      /\ \A e \in DOMAIN experiments \ {t} : experiments'[e] = experiments[e]
      /\ experiments'[t].status = "outcome_received"
      /\ experiments'[t].created = experiments[t].created
      /\ experiments'[t].analysis = experiments[t].analysis
  <2>1. experiments[t] \in Experiment
    BY <1>4, Collections
  <2> QED
    BY <1>3, <1>4, <2>1 DEF Received, Experiment
<1>8. \A e \in DOMAIN experiments :
        /\ experiments'[e].created = experiments[e].created
        /\ experiments'[e].analysis = experiments[e].analysis
  BY <1>7
<1>9. AllOrdered'
  <2>1. Ordered(Append(outcomes, x))
    BY <1>3, <1>4, <1>5, OrderedAppend DEF SequentialInv, AllOrdered, StampedBefore, TypeOK
  <2>2. Ordered(experiments) /\ Ordered(analyses)
    BY DEF SequentialInv, AllOrdered
  <2>3. Ordered(experiments)'
    BY <1>3, <1>7, <1>8, <2>2 DEF Ordered
  <2> QED
    BY <1>3, <2>1, <2>2, <2>3 DEF AllOrdered, Ordered
<1>10. VersionsAscend'
  <2> HIDE DEF m
  <2> SUFFICES ASSUME NEW o \in 1..(m + 1), NEW p \in 1..(m + 1), o < p,
                      outcomes'[o].experiment = outcomes'[p].experiment
      PROVE  outcomes'[o].version < outcomes'[p].version
    BY <1>6 DEF VersionsAscend
  <2>1. o \in DOMAIN outcomes /\ outcomes'[o] = outcomes[o]
    BY <1>6
  <2>2. CASE p = m + 1
    BY <1>3, <1>5, <1>6, <2>1, <2>2 DEF OutcomesOf
  <2>3. CASE p # m + 1
    <3>1. p \in DOMAIN outcomes /\ outcomes'[p] = outcomes[p]
      BY <1>6, <2>3
    <3> QED
      BY <2>1, <3>1 DEF SequentialInv, VersionsAscend
  <2> QED
    BY <2>2, <2>3
<1>11. NamesLast'
  BY <1>3, <1>7, <1>8 DEF SequentialInv, NamesLast
<1>12. PilotIsLast'
  <2> SUFFICES ASSUME NEW e \in DOMAIN experiments
      PROVE  /\ experiments[e].analysis \in DOMAIN analyses
             /\ OpenRegistered(e)' => analyses[experiments[e].analysis].experiment = e
    BY <1>3, <1>7, <1>8 DEF PilotIsLast
  <2>1. OpenRegistered(e)' => OpenRegistered(e)
    <3>1. OutcomesOf(e) \subseteq OutcomesOf(e)'
      BY <1>6 DEF OutcomesOf
    <3>2. CASE e = t
      BY <1>7, <3>2 DEF OpenRegistered
    <3>3. CASE e # t
      BY <1>7, <3>1, <3>3 DEF OpenRegistered
    <3> QED
      BY <3>2, <3>3
  <2> QED
    BY <2>1 DEF SequentialInv, PilotIsLast
<1> QED
  BY <1>9, <1>10, <1>11, <1>12

\* When requests are served one at a time, every step keeps the invariant.
LEMMA SequentialStep ==
  ASSUME NEW r, Requests = {r}, SequentialInv, [Next]_vars
  PROVE  SequentialInv'
<1> DEFINE Rest == AllOrdered /\ VersionsAscend /\ NamesLast /\ PilotIsLast
<1>1. IInv /\ IInv' /\ TypeOK /\ TypeOK' /\ Current(req[r]) /\ req[r] \in Request
  BY IInvStep DEF SequentialInv, IInv, TypeOK
<1>2. SUFFICES ASSUME ~UNCHANGED vars
      PROVE  Rest' /\ \A q \in Requests : Current(req[q])'
  <2>1. CASE UNCHANGED vars
    BY <1>1, <2>1 DEF vars, SequentialInv, AllOrdered, Ordered, VersionsAscend, NamesLast,
       PilotIsLast, OpenRegistered, OutcomesOf, Current, StampedBefore, NoPilotOn
  <2> QED
    BY <1>1, <2>1 DEF SequentialInv
<1>3. UNCHANGED <<analyses, experiments, outcomes, clock>> => Rest'
  BY <1>1, OnlyRequestMoves, Collections
<1>4. CASE \E clean \in BOOLEAN : OnboardStart(r, clean)
  <2>1. PICK clean \in BOOLEAN : OnboardStart(r, clean)
    BY <1>4
  <2>2. PICK t : t = clock'
    OBVIOUS
  <2>3. Stamp /\ UNCHANGED <<analyses, experiments, outcomes>>
    BY <2>1 DEF OnboardStart
  <2>4. t \in Nat /\ clock <= t /\ StampedBefore(t)
    BY <2>2, <2>3, StampIsNew
  <2>5. Rest'
    BY <2>2, <2>3, <2>4, OnlyRequestMoves
  <2>6. PICK next : next = [Idle EXCEPT !.pc = "onboard", !.created = t, !.clean = clean]
    OBVIOUS
  <2>7. Goto(r, next)
    BY <2>1, <2>2, <2>6 DEF OnboardStart
  <2>8. next.pc = "onboard" /\ next.created = t
    BY <2>6 DEF Idle
  <2>9. Current(next)'
    BY <2>2, <2>3, <2>4, <2>8 DEF Current, StampedBefore
  <2> QED
    BY <1>1, <2>5, <2>7, <2>9, TheRequest
<1>5. CASE OnboardCommit(r)
  BY <1>1, <1>5, OnboardCommitKeeps, TheRequest, IdleIsCurrent DEF OnboardCommit
<1>6. CASE RegisterStart(r)
  <2>1. PICK a \in DOMAIN analyses :
          Goto(r, [Idle EXCEPT !.pc = "register", !.target = a])
    BY <1>6 DEF RegisterStart
  <2>2. PICK next : next = [Idle EXCEPT !.pc = "register", !.target = a]
    OBVIOUS
  <2>3. next.pc = "register" /\ next.target = a
    BY <2>2 DEF Idle
  <2>4. UNCHANGED <<analyses, experiments, outcomes, clock>>
    BY <1>6 DEF RegisterStart
  <2>5. Current(next)'
    BY <2>3, <2>4 DEF Current
  <2> QED
    BY <1>1, <1>3, <2>1, <2>2, <2>4, <2>5, TheRequest
<1>7. CASE RegisterRefused(r) \/ Fail(r)
  <2>1. Goto(r, Idle) /\ UNCHANGED <<analyses, experiments, outcomes, clock>>
    BY <1>7 DEF RegisterRefused, Fail
  <2> QED
    BY <1>1, <1>3, <2>1, TheRequest, IdleIsCurrent
<1>8. CASE RegisterCheck(r)
  <2>1. PICK t, a : t = clock' /\ a = req[r].target
    OBVIOUS
  <2>2. Stamp /\ UNCHANGED <<analyses, experiments, outcomes>>
    BY <1>8 DEF RegisterCheck
  <2>3. t \in Nat /\ clock <= t /\ StampedBefore(t)
    BY <2>1, <2>2, StampIsNew
  <2>4. Rest'
    BY <2>1, <2>2, <2>3, OnlyRequestMoves
  <2>5. a \in DOMAIN analyses
    BY <1>1, <1>8, <2>1 DEF RegisterCheck, Current
  <2>6. NoPilotOn(a)
    BY <1>8, <2>1, <2>5, PilotIsFound DEF RegisterCheck
  <2>7. PICK next : next = [req[r] EXCEPT !.pc = "checked", !.created = t]
    OBVIOUS
  <2>8. Goto(r, next)
    BY <1>8, <2>1, <2>7 DEF RegisterCheck
  <2>9. next.pc = "checked" /\ next.created = t /\ next.target = a
    BY <1>1, <2>1, <2>7 DEF Request
  <2>10. Current(next)'
    BY <2>1, <2>2, <2>3, <2>5, <2>6, <2>9
       DEF Current, StampedBefore, NoPilotOn, OpenRegistered, OutcomesOf
  <2> QED
    BY <1>1, <2>4, <2>8, <2>10, TheRequest
<1>9. CASE RegisterCommit(r)
  BY <1>1, <1>9, RegisterCommitKeeps, TheRequest, IdleIsCurrent DEF RegisterCommit
<1>10. CASE \E e \in DOMAIN experiments : OutcomeRead(r, e)
  <2>1. PICK e \in DOMAIN experiments : OutcomeRead(r, e)
    BY <1>10
  <2>2. UNCHANGED <<analyses, experiments, outcomes, clock>>
    BY <2>1 DEF OutcomeRead
  <2>3. PICK next : /\ Goto(r, next) /\ next.pc = "read" /\ next.target = e
                    /\ \A o \in OutcomesOf(e) : outcomes[o].version < next.version
    <3>1. CASE OutcomesOf(e) = {}
      <4>1. PICK next : next = [Idle EXCEPT !.pc = "read", !.target = e, !.version = 1]
        OBVIOUS
      <4>2. Goto(r, next)
        BY <2>1, <3>1, <4>1 DEF OutcomeRead
      <4>3. next.pc = "read" /\ next.target = e
        BY <4>1 DEF Idle
      <4> QED
        BY <3>1, <4>2, <4>3
    <3>2. CASE OutcomesOf(e) # {}
      <4>1. PICK o \in DOMAIN outcomes :
              /\ IsPreviousOutcome(o, e)
              /\ Goto(r, [Idle EXCEPT !.pc = "read", !.target = e, !.prior = o,
                                      !.version = outcomes[o].version + 1])
        BY <2>1, <3>2 DEF OutcomeRead
      <4>2. PICK next : next = [Idle EXCEPT !.pc = "read", !.target = e, !.prior = o,
                                            !.version = outcomes[o].version + 1]
        OBVIOUS
      <4>3. next.pc = "read" /\ next.target = e /\ next.version = outcomes[o].version + 1
        BY <4>2 DEF Idle
      <4>4. \A p \in OutcomesOf(e) :
              /\ outcomes[p].version \in Nat /\ outcomes[o].version \in Nat
              /\ outcomes[p].version <= outcomes[o].version
        BY <1>1, <4>1, Collections DEF IsPreviousOutcome, OutcomesOf
      <4>5. \A p \in OutcomesOf(e) : outcomes[p].version < next.version
        BY <4>3, <4>4
      <4> QED
        BY <4>1, <4>2, <4>3, <4>5
    <3> QED
      BY <3>1, <3>2
  <2>4. Current(next)'
    BY <2>2, <2>3 DEF Current, OutcomesOf
  <2> QED
    BY <1>1, <1>3, <2>2, <2>3, <2>4, TheRequest
<1>11. CASE OutcomeStamp(r)
  <2>1. PICK t, q : t = clock' /\ q = req[r]
    OBVIOUS
  <2>2. Stamp /\ UNCHANGED <<analyses, experiments, outcomes>>
    BY <1>11 DEF OutcomeStamp
  <2>3. t \in Nat /\ clock <= t /\ StampedBefore(t)
    BY <2>1, <2>2, StampIsNew
  <2>4. Rest'
    BY <2>1, <2>2, <2>3, OnlyRequestMoves
  <2>5. \A o \in OutcomesOf(q.target) : outcomes[o].version < q.version
    BY <1>1, <1>11, <2>1 DEF OutcomeStamp, Current
  <2>6. PICK next : next = [q EXCEPT !.pc = "stamped", !.created = t]
    OBVIOUS
  <2>7. Goto(r, next)
    BY <1>11, <2>1, <2>6 DEF OutcomeStamp
  <2>8. /\ next.pc = "stamped" /\ next.created = t
        /\ next.target = q.target /\ next.version = q.version
    BY <1>1, <2>1, <2>6 DEF Request
  <2>9. Current(next)'
    BY <2>1, <2>2, <2>3, <2>5, <2>8 DEF Current, StampedBefore, OutcomesOf
  <2> QED
    BY <1>1, <2>4, <2>7, <2>9, TheRequest
<1>12. CASE OutcomeCommit(r)
  BY <1>1, <1>12, OutcomeCommitKeeps, TheRequest, IdleIsCurrent DEF OutcomeCommit
<1>13. Next
  BY <1>2
<1> QED
  BY <1>4, <1>5, <1>6, <1>7, <1>8, <1>9, <1>10, <1>11, <1>12, <1>13 DEF Next

LEMMA SequentialInit == Init => SequentialInv
<1>1. Init => IInv
  <2>1. Init => TypeOK
    BY IdleType DEF Init, TypeOK
  <2> QED
    BY <2>1 DEF Init, IInv, InFlight, Sound, Idle, OutcomesHaveExperiments,
                SupersedesChain, StatusTracksOutcomes
<1>2. Init => AllOrdered /\ VersionsAscend /\ NamesLast /\ PilotIsLast
  BY DEF Init, AllOrdered, Ordered, VersionsAscend, NamesLast, PilotIsLast
<1>3. Init => \A q \in Requests : Current(req[q])
  BY IdleIsCurrent DEF Init
<1> QED
  BY <1>1, <1>2, <1>3 DEF SequentialInv

LEMMA SequentialInvariant ==
  ASSUME NEW r, Requests = {r}
  PROVE  Spec => []SequentialInv
<1>1. Init => SequentialInv
  BY SequentialInit
<1>2. SequentialInv /\ [Next]_vars => SequentialInv'
  BY SequentialStep
<1> QED
  BY <1>1, <1>2, PTL DEF Spec

\* When requests are served one at a time, the readouts, which look for the newest
\* createdAt, and latestOutcomeId name one outcome, and its version is the highest.
LEMMA SequentialOutcomesAgree ==
  ASSUME NEW r, Requests = {r}
  PROVE  Spec => []NewestOutcomeIsLatest
<1>1. ASSUME SequentialInv, NEW e \in DOMAIN experiments, NEW o \in DOMAIN outcomes,
             IsCurrentOutcome(o, e)
      PROVE  /\ experiments[e].latest = o
             /\ \A p \in OutcomesOf(e) : outcomes[p].version <= outcomes[o].version
  <2>1. /\ o \in OutcomesOf(e)
        /\ \A p \in OutcomesOf(e) : outcomes[p].created <= outcomes[o].created
    BY <1>1 DEF IsCurrentOutcome
  <2>2. PICK l : l = experiments[e].latest
    OBVIOUS
  <2>3. /\ l \in OutcomesOf(e) /\ l \in DOMAIN outcomes
        /\ \A p \in OutcomesOf(e) : p <= l
    BY <1>1, <2>1, <2>2 DEF SequentialInv, IInv, StatusTracksOutcomes, OutcomesOf
  <2>4. TypeOK
    BY <1>1 DEF SequentialInv, IInv
  <2>5. l = o
    <3>1. SUFFICES ASSUME o < l
          PROVE  FALSE
      BY <2>1, <2>3, <2>4, Collections
    <3>2. outcomes[o].created < outcomes[l].created
      BY <1>1, <2>3, <3>1 DEF SequentialInv, AllOrdered, Ordered
    <3> QED
      BY <1>1, <2>1, <2>3, <2>4, <3>2, Collections
  <2>6. ASSUME NEW p \in OutcomesOf(e)
        PROVE  outcomes[p].version <= outcomes[o].version
    <3>1. p \in DOMAIN outcomes /\ p <= o /\ outcomes[p].experiment = outcomes[o].experiment
      BY <2>1, <2>3, <2>5 DEF OutcomesOf
    <3>2. outcomes[p].version \in Nat /\ outcomes[o].version \in Nat /\ p \in Nat /\ o \in Nat
      BY <1>1, <2>4, <3>1, Collections
    <3>3. CASE p = o
      BY <3>2, <3>3
    <3>4. CASE p < o
      BY <1>1, <3>1, <3>2, <3>4 DEF SequentialInv, VersionsAscend
    <3> QED
      BY <3>1, <3>2, <3>3, <3>4
  <2> QED
    BY <2>2, <2>5, <2>6
<1>2. SequentialInv => NewestOutcomeIsLatest
  BY <1>1 DEF NewestOutcomeIsLatest
<1> QED
  BY <1>2, SequentialInvariant, PTL

\* When requests are served one at a time, the experiment that an analysis names is
\* the one that is looked up by the newest createdAt.
LEMMA SequentialAnalysesAgree ==
  ASSUME NEW r, Requests = {r}
  PROVE  Spec => []AnalysisNamesCurrent
<1>1. ASSUME SequentialInv, NEW a \in DOMAIN analyses
      PROVE  /\ analyses[a].experiment \in DOMAIN experiments
             /\ IsCurrentExperiment(analyses[a].experiment, a)
  <2>1. PICK e \in DOMAIN experiments :
          /\ e = analyses[a].experiment /\ experiments[e].analysis = a
          /\ \A f \in DOMAIN experiments : experiments[f].analysis = a => f <= e
    BY <1>1 DEF SequentialInv, NamesLast
  <2>2. TypeOK
    BY <1>1 DEF SequentialInv, IInv
  <2>3. ASSUME NEW f \in DOMAIN experiments, experiments[f].analysis = a
        PROVE  experiments[f].created <= experiments[e].created
    <3>1. /\ f <= e /\ f \in Nat /\ e \in Nat
          /\ experiments[f].created \in Nat /\ experiments[e].created \in Nat
      BY <2>1, <2>2, <2>3, Collections
    <3>2. CASE f = e
      BY <3>1, <3>2
    <3>3. CASE f < e
      BY <1>1, <3>1, <3>3 DEF SequentialInv, AllOrdered, Ordered
    <3> QED
      BY <3>1, <3>2, <3>3
  <2> QED
    BY <2>1, <2>3 DEF IsCurrentExperiment
<1>2. SequentialInv => AnalysisNamesCurrent
  BY <1>1 DEF AnalysisNamesCurrent
<1> QED
  BY <1>2, SequentialInvariant, PTL

\* When requests are served one at a time, what readouts and monitor look up by its
\* createdAt and what latestOutcomeId and experimentId name are the same records, so
\* the newest by date is the one that was committed last.
THEOREM SequentialLookupsAgree ==
  ASSUME NEW r, Requests = {r}
  PROVE  Spec => []LookupsAgree
BY SequentialOutcomesAgree, SequentialAnalysesAgree, PTL DEF LookupsAgree

\* docs/experiment-registry.md holds when requests are served one at a time: the
\* outcomes of an experiment carry distinct versions, and an analysis has at most
\* one open pilot.
THEOREM SequentialPromises ==
  ASSUME NEW r, Requests = {r}
  PROVE  Spec => [](VersionsDistinct /\ OneOpenPilot)
<1>1. SequentialInv => VersionsDistinct
  <2> SUFFICES ASSUME SequentialInv, NEW o \in DOMAIN outcomes, NEW p \in DOMAIN outcomes,
                      o # p, outcomes[o].experiment = outcomes[p].experiment
      PROVE  outcomes[o].version # outcomes[p].version
    BY DEF VersionsDistinct
  <2>1. /\ o \in Nat /\ p \in Nat
        /\ outcomes[o].version \in Nat /\ outcomes[p].version \in Nat
    BY Collections DEF SequentialInv, IInv
  <2>2. CASE o < p
    BY <2>1, <2>2 DEF SequentialInv, VersionsAscend
  <2>3. CASE p < o
    BY <2>1, <2>3 DEF SequentialInv, VersionsAscend
  <2> QED
    BY <2>1, <2>2, <2>3
<1>2. SequentialInv => OneOpenPilot
  BY DEF SequentialInv, PilotIsLast, OneOpenPilot
<1> QED
  BY <1>1, <1>2, SequentialInvariant, PTL

-----------------------------------------------------------------------------
(* The promise is kept when requests are served one at a time              *)

\* The version an experiment names counts its outcomes.
Counted ==
  \A e \in DOMAIN experiments : experiments[e].latestVersion = Cardinality(OutcomesOf(e))

\* A request that will commit an outcome holds the version that comes next.
HoldsNext(q) ==
  q.pc \in {"read", "stamped"} => q.version = Cardinality(OutcomesOf(q.target)) + 1

PromiseInv ==
  /\ SequentialInv /\ Counted
  /\ \A r \in Requests : HoldsNext(req[r])

\* The outcomes of an experiment are finitely many.
LEMMA OutcomesFinite ==
  ASSUME TypeOK, NEW e
  PROVE  IsFiniteSet(OutcomesOf(e)) /\ Cardinality(OutcomesOf(e)) \in Nat
<1>1. DOMAIN outcomes = 1..Len(outcomes) /\ Len(outcomes) \in Nat
  BY Collections
<1>2. IsFiniteSet(1..Len(outcomes))
  BY <1>1, FS_Interval
<1>3. OutcomesOf(e) \subseteq 1..Len(outcomes)
  BY <1>1 DEF OutcomesOf
<1> QED
  BY <1>2, <1>3, FS_Subset, FS_CardinalityType

\* What has been accepted names the next version.
LEMMA NextVersion ==
  ASSUME PromiseInv, NEW e \in DOMAIN experiments, NEW o, IsPreviousOutcome(o, e)
  PROVE  outcomes[o].version = Cardinality(OutcomesOf(e))
<1>1. TypeOK /\ StatusTracksOutcomes
  BY DEF PromiseInv, SequentialInv, IInv
<1>2. o \in OutcomesOf(e) /\ o \in DOMAIN outcomes
      /\ \A p \in OutcomesOf(e) : outcomes[p].version <= outcomes[o].version
  BY DEF IsPreviousOutcome, OutcomesOf
<1>3. PICK l : l = experiments[e].latest
  OBVIOUS
<1>4. /\ l \in OutcomesOf(e) /\ l \in DOMAIN outcomes
      /\ experiments[e].latestVersion = outcomes[l].version
      /\ o <= l
  BY <1>1, <1>2, <1>3 DEF StatusTracksOutcomes, OutcomesOf
<1>5. /\ o \in Nat /\ l \in Nat
      /\ outcomes[o].version \in Nat /\ outcomes[l].version \in Nat
  BY <1>1, <1>2, <1>4, Collections
<1>6. outcomes[o].version <= outcomes[l].version
  <2>1. CASE o = l
    BY <1>5, <2>1
  <2>2. CASE o < l
    <3>1. outcomes[o].experiment = outcomes[l].experiment
      BY <1>2, <1>4 DEF OutcomesOf
    <3>2. outcomes[o].version < outcomes[l].version
      BY <1>2, <1>4, <2>2, <3>1 DEF PromiseInv, SequentialInv, VersionsAscend
    <3> QED
      BY <1>5, <3>2
  <2> QED
    BY <1>4, <1>5, <2>1, <2>2
<1>7. outcomes[o].version = outcomes[l].version
  BY <1>2, <1>4, <1>5, <1>6
<1> QED
  BY <1>4, <1>7 DEF PromiseInv, Counted

\* An outcome that is committed is one more of its experiment, and of no other.
LEMMA OneMoreOutcome ==
  ASSUME TypeOK, NEW x \in Outcome, outcomes' = Append(outcomes, x)
  PROVE  /\ Cardinality(OutcomesOf(x.experiment)') = Cardinality(OutcomesOf(x.experiment)) + 1
         /\ \A e : e # x.experiment => OutcomesOf(e)' = OutcomesOf(e)
<1> DEFINE m == Len(outcomes)
<1>1. /\ DOMAIN outcomes = 1..m /\ m \in Nat /\ DOMAIN outcomes' = 1..(m + 1)
      /\ \A o \in DOMAIN outcomes : outcomes'[o] = outcomes[o]
      /\ outcomes'[m + 1] = x
  BY Appended DEF TypeOK
<1> HIDE DEF m
<1>2. \A o : o \in 1..(m + 1) <=> o \in 1..m \/ o = m + 1
  BY <1>1
<1>3. \A e : e # x.experiment => OutcomesOf(e)' = OutcomesOf(e)
  BY <1>1, <1>2 DEF OutcomesOf
<1>4. PICK t, u : t = OutcomesOf(x.experiment) /\ u = OutcomesOf(x.experiment)'
  OBVIOUS
<1>5. u = t \cup {m + 1} /\ m + 1 \notin t
  BY <1>1, <1>2, <1>4 DEF OutcomesOf
<1>6. IsFiniteSet(t)
  BY <1>4, OutcomesFinite
<1>7. Cardinality(u) = Cardinality(t) + 1
  BY <1>5, <1>6, FS_AddElement
<1> QED
  BY <1>3, <1>4, <1>7

\* An experiment that is opened has no outcomes yet.
LEMMA OpenedUncounted ==
  ASSUME PromiseInv, NEW x \in Experiment, x.latestVersion = 0,
         experiments' = Append(experiments, x), UNCHANGED outcomes
  PROVE  Counted'
<1> DEFINE n == Len(experiments)
<1>1. TypeOK /\ OutcomesHaveExperiments
  BY DEF PromiseInv, SequentialInv, IInv
<1>2. /\ DOMAIN experiments = 1..n /\ n \in Nat /\ DOMAIN experiments' = 1..(n + 1)
      /\ \A e \in DOMAIN experiments : experiments'[e] = experiments[e]
      /\ experiments'[n + 1] = x
  BY <1>1, Appended DEF TypeOK
<1> HIDE DEF n
<1>3. n + 1 \notin DOMAIN experiments
  BY <1>2
<1>4. OutcomesOf(n + 1) = {}
  BY <1>1, <1>3 DEF OutcomesHaveExperiments, OutcomesOf
<1>5. experiments'[n + 1].latestVersion = Cardinality(OutcomesOf(n + 1))
  BY <1>2, <1>4, FS_EmptySet
<1>6. \A e : OutcomesOf(e)' = OutcomesOf(e)
  BY DEF OutcomesOf
<1>7. ASSUME NEW e \in 1..(n + 1)
      PROVE  experiments'[e].latestVersion = Cardinality(OutcomesOf(e))
  <2>1. e \in DOMAIN experiments \/ e = n + 1
    BY <1>2
  <2> QED
    BY <1>2, <1>5, <2>1 DEF PromiseInv, Counted
<1> QED
  BY <1>2, <1>6, <1>7 DEF Counted

\* Whatever the one request does, it counts on.
LEMMA PromiseInvStep ==
  ASSUME NEW r, Requests = {r}, PromiseInv, [Next]_vars
  PROVE  PromiseInv'
<1>1. SequentialInv /\ SequentialInv' /\ TypeOK /\ TypeOK' /\ req[r] \in Request
  BY SequentialStep DEF PromiseInv, SequentialInv, IInv, TypeOK
<1>2. \A next : Goto(r, next) => req'[r] = next
  BY <1>1 DEF Goto, TypeOK
<1>3. SUFFICES Counted' /\ HoldsNext(req[r])'
  BY <1>1 DEF PromiseInv
<1>4. UNCHANGED <<experiments, outcomes>> => Counted' /\ \A e : OutcomesOf(e)' = OutcomesOf(e)
  BY DEF PromiseInv, Counted, OutcomesOf
<1>5. CASE UNCHANGED vars
  BY <1>3, <1>4, <1>5 DEF vars, PromiseInv, HoldsNext
<1>6. CASE \/ \E clean \in BOOLEAN : OnboardStart(r, clean)
           \/ RegisterStart(r) \/ RegisterRefused(r) \/ RegisterCheck(r) \/ Fail(r)
  <2>1. UNCHANGED <<experiments, outcomes>>
    BY <1>6 DEF OnboardStart, RegisterStart, RegisterRefused, RegisterCheck, Fail
  <2>2. req'[r].pc \notin {"read", "stamped"}
    <3>1. CASE \E clean \in BOOLEAN : OnboardStart(r, clean)
      <4>1. PICK clean \in BOOLEAN : OnboardStart(r, clean)
        BY <3>1
      <4>2. req'[r] = [Idle EXCEPT !.pc = "onboard", !.created = clock', !.clean = clean]
        BY <1>2, <4>1 DEF OnboardStart
      <4> QED
        BY <4>2 DEF Idle
    <3>2. CASE RegisterStart(r)
      <4>1. PICK a : req'[r] = [Idle EXCEPT !.pc = "register", !.target = a]
        BY <1>2, <3>2 DEF RegisterStart
      <4> QED
        BY <4>1 DEF Idle
    <3>3. CASE RegisterCheck(r)
      <4>1. req'[r] = [req[r] EXCEPT !.pc = "checked", !.created = clock']
        BY <1>2, <3>3 DEF RegisterCheck
      <4> QED
        BY <1>1, <4>1 DEF Request
    <3>4. CASE RegisterRefused(r) \/ Fail(r)
      BY <1>2, <3>4 DEF RegisterRefused, Fail, Idle
    <3> QED
      BY <1>6, <3>1, <3>2, <3>3, <3>4
  <2> QED
    BY <1>4, <2>1, <2>2 DEF HoldsNext
<1>7. CASE OnboardCommit(r) \/ RegisterCommit(r)
  <2>1. PICK x : /\ experiments' = Append(experiments, x) /\ x.latestVersion = 0
                 /\ x = [analysis |-> x.analysis, status |-> x.status, verified |-> x.verified,
                         created |-> x.created, latest |-> None, latestVersion |-> 0]
                 /\ x.analysis \in Nat /\ x.status \in Statuses /\ x.verified \in BOOLEAN
                 /\ x.created \in Nat
    <3>1. CASE OnboardCommit(r)
      <4>1. PICK x : x = [analysis |-> Len(analyses) + 1, status |-> OpenedAs(req[r].clean),
                          verified |-> FALSE, created |-> req[r].created,
                          latest |-> None, latestVersion |-> 0]
        OBVIOUS
      <4>2. /\ x.analysis \in Nat /\ x.status \in Statuses /\ x.verified \in BOOLEAN
            /\ x.created \in Nat
        BY <1>1, <4>1, Collections DEF Statuses, OpenedAs, Request
      <4> QED
        BY <3>1, <4>1, <4>2 DEF OnboardCommit
    <3>2. CASE RegisterCommit(r)
      <4>1. PICK x : x = [analysis |-> req[r].target, status |-> "registered",
                          verified |-> TRUE, created |-> req[r].created,
                          latest |-> None, latestVersion |-> 0]
        OBVIOUS
      <4>2. /\ x.analysis \in Nat /\ x.status \in Statuses /\ x.verified \in BOOLEAN
            /\ x.created \in Nat
        BY <1>1, <4>1 DEF Statuses, Request
      <4> QED
        BY <3>2, <4>1, <4>2 DEF RegisterCommit
    <3> QED
      BY <1>7, <3>1, <3>2
  <2>2. x \in Experiment
    BY <2>1 DEF Experiment, None
  <2>3. UNCHANGED outcomes /\ Goto(r, Idle)
    BY <1>7 DEF OnboardCommit, RegisterCommit
  <2>4. Counted'
    BY <2>1, <2>2, <2>3, OpenedUncounted
  <2> QED
    BY <1>2, <2>3, <2>4 DEF HoldsNext, Idle
<1>8. CASE \E e \in DOMAIN experiments : OutcomeRead(r, e)
  <2>1. PICK e \in DOMAIN experiments : OutcomeRead(r, e)
    BY <1>8
  <2>2. UNCHANGED <<experiments, outcomes>>
    BY <2>1 DEF OutcomeRead
  <2>3. req'[r].target = e /\ req'[r].version = Cardinality(OutcomesOf(e)) + 1
    <3>1. CASE OutcomesOf(e) = {}
      <4>1. req'[r] = [Idle EXCEPT !.pc = "read", !.target = e, !.version = 1]
        BY <1>2, <2>1, <3>1 DEF OutcomeRead
      <4>2. Cardinality(OutcomesOf(e)) = 0
        BY <3>1, FS_EmptySet
      <4> QED
        BY <4>1, <4>2 DEF Idle
    <3>2. CASE OutcomesOf(e) # {}
      <4>1. PICK o \in DOMAIN outcomes :
              /\ IsPreviousOutcome(o, e)
              /\ Goto(r, [Idle EXCEPT !.pc = "read", !.target = e, !.prior = o,
                                      !.version = outcomes[o].version + 1])
        BY <2>1, <3>2 DEF OutcomeRead
      <4>2. outcomes[o].version = Cardinality(OutcomesOf(e))
        BY <4>1, NextVersion
      <4> QED
        BY <1>2, <4>1, <4>2 DEF Idle
    <3> QED
      BY <3>1, <3>2
  <2> QED
    BY <1>4, <2>2, <2>3 DEF HoldsNext
<1>9. CASE OutcomeStamp(r)
  <2>1. /\ req[r].pc = "read" /\ UNCHANGED <<experiments, outcomes>>
        /\ Goto(r, [req[r] EXCEPT !.pc = "stamped", !.created = clock'])
    BY <1>9 DEF OutcomeStamp
  <2>2. req'[r].target = req[r].target /\ req'[r].version = req[r].version
    BY <1>1, <1>2, <2>1 DEF Request
  <2>3. req[r].version = Cardinality(OutcomesOf(req[r].target)) + 1
    BY <2>1 DEF PromiseInv, HoldsNext
  <2> QED
    BY <1>4, <2>1, <2>2, <2>3 DEF HoldsNext
<1>10. CASE OutcomeCommit(r)
  <2>1. PICK q, t : q = req[r] /\ t = req[r].target
    OBVIOUS
  <2>2. PICK x : x = [experiment |-> t, version |-> q.version,
                      supersedes |-> q.prior, created |-> q.created]
    OBVIOUS
  <2>3. /\ outcomes' = Append(outcomes, x) /\ experiments' = Received(t, q.version)
        /\ q.pc = "stamped" /\ Goto(r, Idle)
    BY <1>10, <2>1, <2>2 DEF OutcomeCommit
  <2>4. t \in DOMAIN experiments
    BY <1>1, <2>1, <2>3 DEF SequentialInv, IInv, InFlight, Sound
  <2>5. x \in Outcome /\ x.experiment = t
    BY <1>1, <2>1, <2>2 DEF Outcome, Request
  <2>6. q.version = Cardinality(OutcomesOf(t)) + 1
    BY <2>1, <2>3 DEF PromiseInv, HoldsNext
  <2>7. /\ Cardinality(OutcomesOf(t)') = Cardinality(OutcomesOf(t)) + 1
        /\ \A e : e # t => OutcomesOf(e)' = OutcomesOf(e)
    BY <1>1, <2>3, <2>5, OneMoreOutcome
  <2>8. /\ DOMAIN experiments' = DOMAIN experiments
        /\ \A e \in DOMAIN experiments \ {t} : experiments'[e] = experiments[e]
        /\ experiments'[t].latestVersion = q.version
    <3>1. experiments[t] \in Experiment
      BY <1>1, <2>4, Collections
    <3> QED
      BY <2>3, <2>4, <3>1 DEF Received, Experiment
  <2>9. ASSUME NEW e \in DOMAIN experiments
        PROVE  experiments'[e].latestVersion = Cardinality(OutcomesOf(e)')
    <3>1. CASE e = t
      BY <2>6, <2>7, <2>8, <3>1
    <3>2. CASE e # t
      BY <2>7, <2>8, <3>2 DEF PromiseInv, Counted
    <3> QED
      BY <3>1, <3>2
  <2>10. Counted'
    BY <2>8, <2>9 DEF Counted
  <2> QED
    BY <1>2, <2>3, <2>10 DEF HoldsNext, Idle
<1> QED
  BY <1>5, <1>6, <1>7, <1>8, <1>9, <1>10 DEF Next

\* The sequences ExperimentPromise sees.
LEMMA SeenSequences ==
  ASSUME TypeOK
  PROVE  /\ OpenedOn \in Seq(Nat) /\ Len(OpenedOn) = Len(experiments)
         /\ DOMAIN OpenedOn = DOMAIN experiments
         /\ Accepted \in Seq([experiment : Nat, version : Nat])
         /\ Len(Accepted) = Len(outcomes) /\ DOMAIN Accepted = DOMAIN outcomes
<1>1. /\ DOMAIN experiments = 1..Len(experiments) /\ Len(experiments) \in Nat
      /\ DOMAIN outcomes = 1..Len(outcomes) /\ Len(outcomes) \in Nat
      /\ \A e \in DOMAIN experiments : experiments[e] \in Experiment
      /\ \A o \in DOMAIN outcomes : outcomes[o] \in Outcome
  BY Collections
<1>2. OpenedOn \in Seq(Nat) /\ Len(OpenedOn) = Len(experiments)
      /\ DOMAIN OpenedOn = DOMAIN experiments
  BY <1>1 DEF OpenedOn, Experiment
<1>3. /\ Accepted \in Seq([experiment : Nat, version : Nat])
      /\ Len(Accepted) = Len(outcomes) /\ DOMAIN Accepted = DOMAIN outcomes
  BY <1>1 DEF Accepted, Outcome
<1> QED
  BY <1>2, <1>3

\* A sequence that has one more element is what Append makes.
LEMMA IsAppend ==
  ASSUME NEW S, NEW s \in Seq(S), NEW t \in Seq(S), NEW x \in S,
         Len(t) = Len(s) + 1, \A i \in 1..Len(s) : t[i] = s[i], t[Len(s) + 1] = x
  PROVE  t = Append(s, x)
<1>1. /\ Append(s, x) \in Seq(S) /\ Len(Append(s, x)) = Len(s) + 1 /\ Len(s) \in Nat
      /\ \A i \in 1..Len(s) : Append(s, x)[i] = s[i]
      /\ Append(s, x)[Len(s) + 1] = x
  BY AppendProperties
<1>2. \A i \in 1..(Len(s) + 1) : t[i] = Append(s, x)[i]
  BY <1>1
<1> QED
  BY <1>1, <1>2, SeqEqual

\* An experiment that is opened is one more, and the pilots are those before and,
\* if it is registered, itself.
LEMMA OpenedIsSeen ==
  ASSUME PromiseInv, TypeOK', NEW x \in Experiment, experiments' = Append(experiments, x),
         UNCHANGED outcomes
  PROVE  /\ OpenedOn' = Append(OpenedOn, x.analysis)
         /\ x.status # "registered" => OpenPilots' = OpenPilots
         /\ x.status = "registered" /\ x.verified =>
              OpenPilots' = OpenPilots \cup {Len(OpenedOn) + 1}
         /\ Accepted' = Accepted
<1>0. PICK n : n = Len(experiments)
  OBVIOUS
<1>1. TypeOK /\ OutcomesHaveExperiments
  BY DEF PromiseInv, SequentialInv, IInv
<1>2. /\ DOMAIN experiments = 1..n /\ n \in Nat /\ DOMAIN experiments' = 1..(n + 1)
      /\ \A e \in DOMAIN experiments : experiments'[e] = experiments[e]
      /\ experiments'[n + 1] = x
  BY <1>0, <1>1, Appended DEF TypeOK
<1>3. Len(experiments') = n + 1
  BY <1>0, <1>1 DEF TypeOK
<1>4. \A e : OutcomesOf(e)' = OutcomesOf(e)
  BY DEF OutcomesOf
<1>5. OpenedOn' = Append(OpenedOn, x.analysis)
  <2>1. PICK s, t, a : s = OpenedOn /\ t = OpenedOn' /\ a = x.analysis
    OBVIOUS
  <2>2. s \in Seq(Nat) /\ t \in Seq(Nat) /\ Len(s) = n /\ Len(t) = n + 1
    <3>1. s \in Seq(Nat) /\ Len(s) = n
      BY <1>0, <1>1, <2>1, SeenSequences
    <3>2. \A e \in 1..(n + 1) : experiments'[e].analysis \in Nat
      <4>1. \A e \in 1..(n + 1) : experiments'[e] \in Experiment
        BY <1>1, <1>2, Collections
      <4> QED
        BY <4>1 DEF Experiment
    <3>3. t \in Seq(Nat) /\ Len(t) = n + 1
      BY <1>2, <2>1, <3>2 DEF OpenedOn
    <3> QED
      BY <3>1, <3>3
  <2>3. a \in Nat
    BY <2>1 DEF Experiment
  <2>4. \A i \in 1..n : t[i] = s[i]
    BY <1>2, <2>1 DEF OpenedOn
  <2>5. t[n + 1] = a
    BY <1>2, <2>1 DEF OpenedOn
  <2> QED
    BY <2>1, <2>2, <2>3, <2>4, <2>5, IsAppend
<1>6. n + 1 \notin DOMAIN experiments
  BY <1>2
<1>7. OutcomesOf(n + 1) = {}
  BY <1>1, <1>6 DEF OutcomesHaveExperiments, OutcomesOf
<1>8. \A e \in DOMAIN experiments : OpenRegistered(e)' <=> OpenRegistered(e)
  BY <1>2, <1>4 DEF OpenRegistered
<1>9. OpenRegistered(n + 1)' <=> x.status = "registered" /\ x.verified
  <2>1. OutcomesOf(n + 1)' = {}
    BY <1>4, <1>7
  <2>2. experiments'[n + 1].status = x.status /\ experiments'[n + 1].verified = x.verified
    BY <1>2
  <2> QED
    BY <2>1, <2>2, Zenon DEF OpenRegistered
<1>10. \A e : e \in 1..(n + 1) <=> e \in 1..n \/ e = n + 1
  BY <1>2
<1>11. /\ x.status # "registered" => OpenPilots' = OpenPilots
       /\ x.status = "registered" /\ x.verified => OpenPilots' = OpenPilots \cup {n + 1}
  <2>1. /\ \A e \in OpenPilots' : e \in OpenPilots \/ (e = n + 1 /\ OpenRegistered(n + 1)')
        /\ \A e \in OpenPilots : e \in OpenPilots'
        /\ OpenRegistered(n + 1)' => n + 1 \in OpenPilots'
    BY <1>2, <1>8, <1>10 DEF OpenPilots
  <2>2. x.status # "registered" => OpenPilots' = OpenPilots
    BY <1>9, <2>1
  <2>3. x.status = "registered" /\ x.verified => OpenPilots' = OpenPilots \cup {n + 1}
    BY <1>9, <2>1
  <2> QED
    BY <2>2, <2>3
<1>12. Len(OpenedOn) = n
  BY <1>0, <1>1, SeenSequences
<1>13. Accepted' = Accepted
  BY DEF Accepted
<1> QED
  BY <1>5, <1>11, <1>12, <1>13

LEMMA OnboardKeepsPromise ==
  ASSUME PromiseInv, TypeOK', NEW r \in Requests, OnboardCommit(r)
  PROVE  Promise!Onboard
<1>1. TypeOK /\ req[r] \in Request
  BY DEF PromiseInv, SequentialInv, IInv, TypeOK
<1>2. PICK x : x = [analysis |-> Len(analyses) + 1, status |-> OpenedAs(req[r].clean),
                    verified |-> FALSE, created |-> req[r].created,
                    latest |-> None, latestVersion |-> 0]
  OBVIOUS
<1>3. x \in Experiment /\ x.status # "registered" /\ x.analysis = Len(analyses) + 1
  BY <1>1, <1>2, Collections DEF Experiment, Statuses, OpenedAs, Request, None
<1>4. experiments' = Append(experiments, x) /\ UNCHANGED outcomes
  BY <1>2 DEF OnboardCommit
<1>5. Len(analyses') = Len(analyses) + 1
  <2>1. PICK y : y = [created |-> req[r].created, experiment |-> Len(experiments) + 1]
    OBVIOUS
  <2>2. analyses' = Append(analyses, y) /\ y \in Analysis
    BY <1>1, <2>1, Collections DEF OnboardCommit, Analysis, Request
  <2> QED
    BY <1>1, <2>2 DEF TypeOK
<1> QED
  BY <1>3, <1>4, <1>5, OpenedIsSeen DEF Promise!Onboard

LEMMA RegisterKeepsPromise ==
  ASSUME PromiseInv, TypeOK', NEW r \in Requests, RegisterCommit(r)
  PROVE  \E a \in 1..Len(analyses) : Promise!Register(a)
<1>1. TypeOK /\ req[r] \in Request /\ Current(req[r])
  BY DEF PromiseInv, SequentialInv, IInv, TypeOK
<1>2. PICK a, x : /\ a = req[r].target
                  /\ x = [analysis |-> a, status |-> "registered", verified |-> TRUE,
                          created |-> req[r].created, latest |-> None, latestVersion |-> 0]
  OBVIOUS
<1>3. x \in Experiment /\ x.status = "registered" /\ x.verified /\ x.analysis = a
  BY <1>1, <1>2 DEF Experiment, Statuses, Request, None
<1>4. experiments' = Append(experiments, x) /\ UNCHANGED outcomes
  BY <1>2 DEF RegisterCommit
<1>5. a \in DOMAIN analyses /\ NoPilotOn(a)
  BY <1>1, <1>2 DEF RegisterCommit, Current
<1>6. a \in 1..Len(analyses)
  BY <1>1, <1>5, Collections
<1>7. Len(analyses') = Len(analyses)
  <2>1. analyses' = Relinked(a)
    BY <1>2 DEF RegisterCommit
  <2>2. DOMAIN analyses' = DOMAIN analyses
    BY <2>1 DEF Relinked
  <2> QED
    BY <1>1, <2>2 DEF TypeOK
<1>8. \A p \in OpenPilots : OpenedOn[p] # a
  BY <1>5 DEF OpenPilots, OpenedOn, NoPilotOn
<1>9. Promise!Register(a)
  BY <1>3, <1>4, <1>7, <1>8, OpenedIsSeen DEF Promise!Register
<1> QED
  BY <1>6, <1>9

\* ExperimentPromise counts as everybody does.
LEMMA SameCardinality == \A S : Promise!Cardinality(S) = Cardinality(S)
BY DEF Promise!Cardinality, Cardinality

LEMMA OutcomeKeepsPromise ==
  ASSUME PromiseInv, TypeOK', NEW r \in Requests, OutcomeCommit(r)
  PROVE  \E e \in DOMAIN OpenedOn : Promise!Accept(e)
<1>1. TypeOK /\ req[r] \in Request
  BY DEF PromiseInv, SequentialInv, IInv, TypeOK
<1>2. PICK q, t, m : q = req[r] /\ t = req[r].target /\ m = Len(outcomes)
  OBVIOUS
<1>3. PICK x : x = [experiment |-> t, version |-> q.version,
                    supersedes |-> q.prior, created |-> q.created]
  OBVIOUS
<1>4. /\ outcomes' = Append(outcomes, x) /\ experiments' = Received(t, q.version)
      /\ UNCHANGED analyses /\ q.pc = "stamped"
  BY <1>2, <1>3 DEF OutcomeCommit
<1>5. t \in DOMAIN experiments
  BY <1>2, <1>4 DEF PromiseInv, SequentialInv, IInv, InFlight, Sound
<1>6. x \in Outcome /\ x.experiment = t /\ x.version = q.version
  BY <1>1, <1>2, <1>3 DEF Outcome, Request
<1>7. q.version = Cardinality(OutcomesOf(t)) + 1
  BY <1>2, <1>4 DEF PromiseInv, HoldsNext
<1>8. /\ DOMAIN outcomes = 1..m /\ m \in Nat /\ DOMAIN outcomes' = 1..(m + 1)
      /\ \A o \in DOMAIN outcomes : outcomes'[o] = outcomes[o]
      /\ outcomes'[m + 1] = x
  BY <1>1, <1>2, <1>4, <1>6, Appended DEF TypeOK
<1>9. /\ DOMAIN experiments' = DOMAIN experiments
      /\ \A e \in DOMAIN experiments \ {t} : experiments'[e] = experiments[e]
      /\ experiments'[t].status = "outcome_received"
      /\ experiments'[t].analysis = experiments[t].analysis
  <2>1. experiments[t] \in Experiment
    BY <1>1, <1>5, Collections
  <2> QED
    BY <1>4, <1>5, <2>1 DEF Received, Experiment
<1>10. OpenedOn' = OpenedOn
  <2>1. \A e \in DOMAIN experiments : experiments'[e].analysis = experiments[e].analysis
    BY <1>9
  <2> QED
    BY <1>9, <2>1 DEF OpenedOn
<1>11. OpenPilots' = OpenPilots \ {t}
  <2>1. \A e : e # t => OutcomesOf(e)' = OutcomesOf(e)
    BY <1>1, <1>4, <1>6, OneMoreOutcome
  <2>2. PICK was, is : was = OpenPilots /\ is = OpenPilots'
    OBVIOUS
  <2>3. t \notin is
    BY <1>9, <2>2 DEF OpenPilots, OpenRegistered
  <2>4. \A e \in DOMAIN experiments \ {t} : OpenRegistered(e)' <=> OpenRegistered(e)
    BY <1>9, <2>1 DEF OpenRegistered
  <2>5. \A e \in DOMAIN experiments \ {t} : e \in is <=> e \in was
    BY <1>9, <2>2, <2>4 DEF OpenPilots
  <2>6. is \subseteq DOMAIN experiments /\ was \subseteq DOMAIN experiments
    BY <1>9, <2>2 DEF OpenPilots
  <2> QED
    BY <2>2, <2>3, <2>5, <2>6
<1>12. Accepted' = Append(Accepted, [experiment |-> t, version |-> Cardinality(OutcomesOf(t)) + 1])
  <2>1. PICK a, b, y : /\ a = Accepted /\ b = Accepted'
                       /\ y = [experiment |-> t, version |-> Cardinality(OutcomesOf(t)) + 1]
    OBVIOUS
  <2>2. a \in Seq([experiment : Nat, version : Nat]) /\ Len(a) = m
    BY <1>1, <1>2, <2>1, SeenSequences
  <2>3. PICK c, d : c = outcomes /\ d = outcomes'
    OBVIOUS
  <2>4. /\ DOMAIN c = 1..m /\ DOMAIN d = 1..(m + 1) /\ m \in Nat
        /\ \A o \in 1..m : d[o] = c[o]
        /\ d[m + 1] = x
        /\ a = [o \in DOMAIN c |-> [experiment |-> c[o].experiment, version |-> c[o].version]]
        /\ b = [o \in DOMAIN d |-> [experiment |-> d[o].experiment, version |-> d[o].version]]
    BY <1>8, <2>1, <2>3 DEF Accepted
  <2>5. \A o \in 1..(m + 1) : d[o] \in Outcome
    BY <1>1, <1>6, <2>3, <2>4, Collections
  <2>6. b \in Seq([experiment : Nat, version : Nat]) /\ Len(b) = m + 1
    BY <2>4, <2>5 DEF Outcome
  <2>7. \A o \in 1..m : b[o] = a[o]
    BY <2>4
  <2>8. b[m + 1] = y
    BY <1>6, <1>7, <2>1, <2>4
  <2>9. y \in [experiment : Nat, version : Nat]
    BY <1>6, <1>7, <2>1 DEF Outcome
  <2> QED
    BY <2>1, <2>2, <2>6, <2>7, <2>8, <2>9, IsAppend
<1>13. {o \in DOMAIN Accepted : Accepted[o].experiment = t} = OutcomesOf(t)
  BY DEF Accepted, OutcomesOf
<1>14. Len(analyses') = Len(analyses)
  BY <1>4
<1>15. Promise!Accept(t)
  BY <1>10, <1>11, <1>12, <1>13, <1>14, SameCardinality DEF Promise!Accept
<1> QED
  BY <1>5, <1>15 DEF OpenedOn

\* What ExperimentPromise sees changes at commits only.
LEMMA SeenUnchanged ==
  ASSUME UNCHANGED <<analyses, experiments, outcomes>>
  PROVE  UNCHANGED Promise!vars
BY DEF Promise!vars, OpenedOn, OpenPilots, OpenRegistered, OutcomesOf, Accepted

LEMMA StepKeepsPromise ==
  ASSUME NEW r, Requests = {r}, PromiseInv, [Next]_vars
  PROVE  PromiseInv' /\ [Promise!Next]_Promise!vars
<1>1. PromiseInv'
  BY PromiseInvStep
<1>2. TypeOK' /\ r \in Requests
  BY <1>1 DEF PromiseInv, SequentialInv, IInv
<1>3. CASE OnboardCommit(r)
  BY <1>1, <1>2, <1>3, OnboardKeepsPromise DEF Promise!Next
<1>4. CASE RegisterCommit(r)
  BY <1>1, <1>2, <1>4, RegisterKeepsPromise DEF Promise!Next
<1>5. CASE OutcomeCommit(r)
  BY <1>1, <1>2, <1>5, OutcomeKeepsPromise DEF Promise!Next
<1>6. CASE ~(OnboardCommit(r) \/ RegisterCommit(r) \/ OutcomeCommit(r))
  <2>1. UNCHANGED <<analyses, experiments, outcomes>>
    BY <1>6 DEF Next, vars, OnboardStart, RegisterStart, RegisterRefused, RegisterCheck,
                OutcomeRead, OutcomeStamp, Fail
  <2> QED
    BY <1>1, <2>1, SeenUnchanged
<1> QED
  BY <1>1, <1>3, <1>4, <1>5, <1>6

\* docs/experiment-registry.md as a whole, when requests are served one at a time:
\* every step of the registry is one of ExperimentPromise, or none.
THEOREM SequentialRegistryKeepsPromise ==
  ASSUME NEW r, Requests = {r}
  PROVE  Spec => PromiseKept
<1>1. Init => PromiseInv /\ Promise!Init
  <2>1. Init => SequentialInv
    BY SequentialInit
  <2>2. Init => Counted /\ \A q \in Requests : HoldsNext(req[q])
    BY DEF Init, Counted, HoldsNext, Idle
  <2>3. Init => Promise!Init
    BY DEF Init, Promise!Init, OpenedOn, OpenPilots, Accepted
  <2> QED
    BY <2>1, <2>2, <2>3 DEF PromiseInv
<1>2. PromiseInv /\ [Next]_vars => PromiseInv' /\ [Promise!Next]_Promise!vars
  BY StepKeepsPromise
<1> QED
  BY <1>1, <1>2, PTL DEF Spec, PromiseKept, Promise!Spec

-----------------------------------------------------------------------------
(* What PilotEvidence takes for granted of the studies: StudiesMoveAsRead   *)

\* An analysis comes with its draft.
LEMMA OnboardedIsMove ==
  ASSUME NEW s, NEW t, NEW a, NEW b, NEW e, NEW f, NEW x,
         s = [analyses |-> a, experiments |-> e], t = [analyses |-> b, experiments |-> f],
         b = Append(a, TRUE), f = Append(e, x),
         x = [analysis |-> Len(a) + 1, verified |-> FALSE, outcomes |-> 0]
  PROVE  t \in MoveStudy(s)
<1>1. s.analyses = a /\ s.experiments = e
  OBVIOUS
<1>2. t = [s EXCEPT !.analyses = b, !.experiments = f]
  <2>1. PICK r : r = [s EXCEPT !.analyses = b]
    OBVIOUS
  <2>2. r = [analyses |-> b, experiments |-> e]
    BY <2>1
  <2>3. t = [r EXCEPT !.experiments = f]
    BY ONLY <2>2, t = [analyses |-> b, experiments |-> f]
  <2>4. t = [[s EXCEPT !.analyses = b] EXCEPT !.experiments = f]
    BY ONLY <2>1, <2>3, Zenon
  <2> QED
    BY ONLY <2>4
<1>3. t = [s EXCEPT !.analyses = Append(@, TRUE),
                    !.experiments = Append(@, [analysis |-> Len(s.analyses) + 1,
                                               verified |-> FALSE, outcomes |-> 0])]
  <2>1. b = Append(s.analyses, TRUE) /\ f = Append(s.experiments, x)
    BY <1>1
  <2> QED
    BY ONLY <1>1, <1>2, <2>1, x = [analysis |-> Len(a) + 1, verified |-> FALSE, outcomes |-> 0], Zenon
<1> QED
  BY <1>3 DEF MoveStudy

\* A pilot is opened on an analysis there is.
LEMMA RegisteredIsMove ==
  ASSUME NEW s, NEW t, NEW a, NEW e, NEW f, NEW x, NEW i \in DOMAIN a,
         s = [analyses |-> a, experiments |-> e], t = [analyses |-> a, experiments |-> f],
         f = Append(e, x), x = [analysis |-> i, verified |-> TRUE, outcomes |-> 0]
  PROVE  t \in MoveStudy(s)
<1>1. s.analyses = a /\ s.experiments = e
  OBVIOUS
<1>2. t = [s EXCEPT !.experiments = f]
  BY ONLY s = [analyses |-> a, experiments |-> e], t = [analyses |-> a, experiments |-> f]
<1>3. t = [s EXCEPT !.experiments = Append(@, [analysis |-> i, verified |-> TRUE, outcomes |-> 0])]
      /\ i \in DOMAIN s.analyses
  BY ONLY <1>1, <1>2, i \in DOMAIN a, f = Append(e, x), x = [analysis |-> i, verified |-> TRUE, outcomes |-> 0], Zenon
<1> QED
  BY ONLY <1>3, Zenon DEF MoveStudy

\* An experiment gets one more outcome.
LEMMA ReceivedIsMove ==
  ASSUME NEW s, NEW t, NEW a, NEW e, NEW f, NEW i \in DOMAIN e,
         s = [analyses |-> a, experiments |-> e], t = [analyses |-> a, experiments |-> f],
         f = [e EXCEPT ![i].outcomes = @ + 1]
  PROVE  t \in MoveStudy(s)
<1>1. s.analyses = a /\ s.experiments = e
  OBVIOUS
<1>2. t = [s EXCEPT !.experiments = f]
  BY <1>1
<1>3. t = [s EXCEPT !.experiments[i].outcomes = @ + 1]
  BY <1>1, <1>2
<1> QED
  BY <1>1, <1>3 DEF MoveStudy

\* A request that registers a pilot does it on an analysis there is: it read it, and
\* analyses stay.
OnAnalysis(q) == q.pc \in {"register", "checked"} => q.target \in DOMAIN analyses

StudiesInv == IInv /\ \A r \in Requests : OnAnalysis(req[r])

LEMMA AnalysesStay ==
  ASSUME TypeOK, [Next]_vars
  PROVE  DOMAIN analyses \subseteq DOMAIN analyses'
<1>1. ASSUME NEW r \in Requests, OnboardCommit(r)
      PROVE  DOMAIN analyses \subseteq DOMAIN analyses'
  <2>1. PICK x : x = [created |-> req[r].created, experiment |-> Len(experiments) + 1]
    OBVIOUS
  <2>2. x \in Analysis /\ analyses' = Append(analyses, x) /\ analyses \in Seq(Analysis)
    <3>1. req[r] \in Request /\ Len(experiments) + 1 \in Nat
      BY Collections DEF TypeOK
    <3> QED
      BY <1>1, <2>1, <3>1 DEF OnboardCommit, Analysis, Request, TypeOK
  <2>3. PICK n : n = Len(analyses)
    OBVIOUS
  <2>4. DOMAIN analyses = 1..n /\ DOMAIN analyses' = 1..(n + 1) /\ n \in Nat
    BY <2>2, <2>3, Appended
  <2> QED
    BY ONLY <2>4
<1>2. ASSUME NEW r \in Requests, RegisterCommit(r)
      PROVE  DOMAIN analyses \subseteq DOMAIN analyses'
  BY <1>2 DEF RegisterCommit, Relinked
<1>3. CASE UNCHANGED analyses
  BY <1>3
<1> QED
  BY <1>1, <1>2, <1>3 DEF Next, vars, OnboardStart, RegisterStart, RegisterRefused,
     RegisterCheck, OutcomeRead, OutcomeStamp, OutcomeCommit, Fail

LEMMA StudiesInvStep ==
  ASSUME StudiesInv, [Next]_vars
  PROVE  StudiesInv'
<1>1. IInv' /\ TypeOK /\ req \in [Requests -> Request]
  BY IInvStep DEF StudiesInv, IInv, TypeOK
<1>2. \A q : OnAnalysis(q) => OnAnalysis(q)'
  BY <1>1, AnalysesStay DEF OnAnalysis
<1>3. ASSUME NEW r \in Requests, NEW next, Goto(r, next), OnAnalysis(next)
      PROVE  StudiesInv'
  <2>1. \A p \in Requests : OnAnalysis(req'[p])
    BY <1>1, <1>3 DEF Goto, StudiesInv
  <2>2. \A p \in Requests : OnAnalysis(req[p])'
    BY <1>2, <2>1
  <2> QED
    BY <1>1, <2>2 DEF StudiesInv
<1>4. \A q : q.pc \notin {"register", "checked"} => OnAnalysis(q)
  BY DEF OnAnalysis
<1>5. OnAnalysis(Idle)
  BY DEF OnAnalysis, Idle
<1>6. ASSUME NEW r \in Requests, NEW clean \in BOOLEAN, OnboardStart(r, clean)
      PROVE  StudiesInv'
  <2>1. OnAnalysis([Idle EXCEPT !.pc = "onboard", !.created = clock', !.clean = clean])
    BY DEF OnAnalysis, Idle
  <2> QED
    BY <1>3, <1>6, <2>1 DEF OnboardStart
<1>7. ASSUME NEW r \in Requests, RegisterStart(r)
      PROVE  StudiesInv'
  <2>1. PICK a \in DOMAIN analyses : Goto(r, [Idle EXCEPT !.pc = "register", !.target = a])
    BY <1>7 DEF RegisterStart
  <2>2. OnAnalysis([Idle EXCEPT !.pc = "register", !.target = a])
    BY DEF OnAnalysis, Idle
  <2> QED
    BY <1>3, <2>1, <2>2
<1>8. ASSUME NEW r \in Requests, RegisterCheck(r)
      PROVE  StudiesInv'
  <2>1. req[r].target \in DOMAIN analyses /\ req[r] \in Request
    BY <1>1, <1>8 DEF RegisterCheck, StudiesInv, OnAnalysis
  <2>2. OnAnalysis([req[r] EXCEPT !.pc = "checked", !.created = clock'])
    BY <2>1 DEF OnAnalysis, Request
  <2> QED
    BY <1>3, <1>8, <2>2 DEF RegisterCheck
<1>9. ASSUME NEW r \in Requests, NEW e \in DOMAIN experiments, OutcomeRead(r, e)
      PROVE  StudiesInv'
  <2>1. OnAnalysis([Idle EXCEPT !.pc = "read", !.target = e, !.version = 1])
    BY DEF OnAnalysis, Idle
  <2>2. \A o \in DOMAIN outcomes :
          OnAnalysis([Idle EXCEPT !.pc = "read", !.target = e, !.prior = o,
                                  !.version = outcomes[o].version + 1])
    BY DEF OnAnalysis, Idle
  <2> QED
    BY <1>3, <1>9, <2>1, <2>2 DEF OutcomeRead
<1>10. ASSUME NEW r \in Requests, OutcomeStamp(r)
      PROVE  StudiesInv'
  <2>1. req[r] \in Request
    BY <1>1
  <2>2. OnAnalysis([req[r] EXCEPT !.pc = "stamped", !.created = clock'])
    BY <2>1 DEF OnAnalysis, Request
  <2> QED
    BY <1>3, <1>10, <2>2 DEF OutcomeStamp
<1>11. ASSUME NEW r \in Requests,
              OnboardCommit(r) \/ RegisterRefused(r) \/ RegisterCommit(r) \/ OutcomeCommit(r) \/ Fail(r)
       PROVE  StudiesInv'
  BY <1>3, <1>5, <1>11 DEF OnboardCommit, RegisterRefused, RegisterCommit, OutcomeCommit, Fail
<1>12. CASE UNCHANGED vars
  <2>1. \A p \in Requests : OnAnalysis(req[p])'
    BY <1>2, <1>12 DEF vars, StudiesInv
  <2> QED
    BY <1>1, <2>1 DEF StudiesInv
<1> QED
  BY <1>6, <1>7, <1>8, <1>9, <1>10, <1>11, <1>12 DEF Next

\* What an acceptance sees of the analyses and of the experiments, as sequences.
Seen == [analysis : Nat, verified : BOOLEAN, outcomes : Nat]

LEMMA SeenStudiesType ==
  ASSUME TypeOK
  PROVE  /\ SeenStudies = [analyses |-> SeenStudies.analyses, experiments |-> SeenStudies.experiments]
         /\ SeenStudies.analyses \in Seq({TRUE}) /\ Len(SeenStudies.analyses) = Len(analyses)
         /\ DOMAIN SeenStudies.analyses = DOMAIN analyses
         /\ SeenStudies.experiments \in Seq(Seen) /\ Len(SeenStudies.experiments) = Len(experiments)
         /\ DOMAIN SeenStudies.experiments = DOMAIN experiments
         /\ \A e \in DOMAIN experiments : SeenStudies.experiments[e] =
              [analysis |-> experiments[e].analysis, verified |-> experiments[e].verified,
               outcomes |-> Cardinality(OutcomesOf(e))]
<1>1. PICK a, x : /\ a = [i \in DOMAIN analyses |-> TRUE]
                  /\ x = [e \in DOMAIN experiments |->
                            [analysis |-> experiments[e].analysis,
                             verified |-> experiments[e].verified,
                             outcomes |-> Cardinality(OutcomesOf(e))]]
  OBVIOUS
<1>2. SeenStudies = [analyses |-> a, experiments |-> x]
  BY <1>1 DEF SeenStudies
<1>3. /\ DOMAIN analyses = 1..Len(analyses) /\ Len(analyses) \in Nat
      /\ DOMAIN experiments = 1..Len(experiments) /\ Len(experiments) \in Nat
  BY Collections
<1>4. a \in Seq({TRUE}) /\ Len(a) = Len(analyses) /\ DOMAIN a = DOMAIN analyses
  BY <1>1, <1>3
<1>5. \A e \in DOMAIN experiments : x[e] \in Seen
  <2>1. ASSUME NEW e \in DOMAIN experiments PROVE x[e] \in Seen
    <3>1. experiments[e] \in Experiment /\ Cardinality(OutcomesOf(e)) \in Nat
      BY Collections, OutcomesFinite
    <3>2. x[e] = [analysis |-> experiments[e].analysis, verified |-> experiments[e].verified,
                  outcomes |-> Cardinality(OutcomesOf(e))]
      BY <1>1
    <3> QED
      BY <3>1, <3>2 DEF Seen, Experiment
  <2> QED
    BY <2>1
<1>6. x \in Seq(Seen) /\ Len(x) = Len(experiments) /\ DOMAIN x = DOMAIN experiments
  BY <1>1, <1>3, <1>5
<1>7. SeenStudies.analyses = a /\ SeenStudies.experiments = x
  BY <1>2
<1> QED
  BY <1>1, <1>2, <1>4, <1>6, <1>7

\* An experiment that is opened is seen as one more, without an outcome.
LEMMA OpenedIsSeenLast ==
  ASSUME TypeOK, TypeOK', OutcomesHaveExperiments, UNCHANGED outcomes,
         NEW x \in Experiment, experiments' = Append(experiments, x)
  PROVE  SeenStudies.experiments' =
           Append(SeenStudies.experiments,
                  [analysis |-> x.analysis, verified |-> x.verified, outcomes |-> 0])
<1>1. PICK n, s, t, y : /\ n = Len(experiments)
                        /\ s = SeenStudies.experiments /\ t = SeenStudies.experiments'
                        /\ y = [analysis |-> x.analysis, verified |-> x.verified, outcomes |-> 0]
  OBVIOUS
<1>2. /\ DOMAIN experiments = 1..n /\ n \in Nat /\ DOMAIN experiments' = 1..(n + 1)
      /\ \A e \in DOMAIN experiments : experiments'[e] = experiments[e]
      /\ experiments'[n + 1] = x
  BY <1>1, Appended DEF TypeOK
<1>3. \A e : OutcomesOf(e)' = OutcomesOf(e)
  BY DEF OutcomesOf
<1>4. s \in Seq(Seen) /\ Len(s) = n /\ DOMAIN s = 1..n
  BY <1>1, <1>2, SeenStudiesType
<1>5. t = [e \in 1..(n + 1) |->
             [analysis |-> experiments'[e].analysis, verified |-> experiments'[e].verified,
              outcomes |-> Cardinality(OutcomesOf(e))]]
  BY <1>1, <1>2, <1>3 DEF SeenStudies
<1>6. \A i \in 1..n : t[i] = s[i]
  <2>1. \A i \in 1..n : i \in 1..(n + 1)
    BY <1>2
  <2>2. \A i \in 1..n :
          s[i] = [analysis |-> experiments[i].analysis, verified |-> experiments[i].verified,
                  outcomes |-> Cardinality(OutcomesOf(i))]
    BY <1>1, <1>2, SeenStudiesType
  <2> QED
    BY <1>2, <1>5, <2>1, <2>2, Zenon
<1>7. t[n + 1] = y /\ y \in Seen
  <2>1. n + 1 \notin DOMAIN experiments
    BY <1>2
  <2>2. OutcomesOf(n + 1) = {}
    BY <2>1 DEF OutcomesHaveExperiments, OutcomesOf
  <2>3. Cardinality(OutcomesOf(n + 1)) = 0
    BY <2>2, FS_EmptySet
  <2>4. n + 1 \in 1..(n + 1)
    BY <1>2
  <2>5. t[n + 1] = y
    BY <1>1, <1>2, <1>5, <2>3, <2>4, Zenon
  <2>6. y \in Seen
    BY <1>1 DEF Seen, Experiment
  <2> QED
    BY <2>5, <2>6
<1>8. t \in Seq(Seen) /\ Len(t) = n + 1
  <2>1. n + 1 \in Nat /\ DOMAIN t = 1..(n + 1) /\ \A i \in 1..(n + 1) : i \in 1..n \/ i = n + 1
    BY <1>2, <1>5
  <2>2. \A i \in 1..n : s[i] \in Seen
    BY <1>4
  <2>3. \A i \in 1..(n + 1) : t[i] \in Seen
    BY <1>6, <1>7, <2>1, <2>2
  <2>4. t = [i \in 1..(n + 1) |-> t[i]]
    BY <1>5
  <2> QED
    BY ONLY <2>1, <2>3, <2>4
<1> QED
  BY <1>1, <1>4, <1>6, <1>7, <1>8, IsAppend

LEMMA OnboardSeen ==
  ASSUME StudiesInv, TypeOK', NEW r \in Requests, OnboardCommit(r)
  PROVE  SeenStudies' \in MoveStudy(SeenStudies)
<1>1. /\ TypeOK /\ OutcomesHaveExperiments /\ req[r] \in Request
      /\ Len(analyses) \in Nat /\ DOMAIN analyses = 1..Len(analyses)
  BY Collections DEF StudiesInv, IInv, TypeOK
<1>2. PICK x, k : /\ k = [created |-> req[r].created, experiment |-> Len(experiments) + 1]
                  /\ x = [analysis |-> Len(analyses) + 1, status |-> OpenedAs(req[r].clean),
                          verified |-> FALSE, created |-> req[r].created,
                          latest |-> None, latestVersion |-> 0]
  OBVIOUS
<1>3. /\ x \in Experiment /\ x.analysis = Len(analyses) + 1 /\ x.verified = FALSE
      /\ k \in Analysis
  BY <1>1, <1>2, Collections
     DEF Experiment, Analysis, Statuses, OpenedAs, Request, None
<1>4. /\ experiments' = Append(experiments, x) /\ analyses' = Append(analyses, k)
      /\ UNCHANGED outcomes
  BY <1>2 DEF OnboardCommit
<1>5. PICK a, b, e, f, y :
         /\ a = SeenStudies.analyses /\ b = SeenStudies.analyses'
         /\ e = SeenStudies.experiments /\ f = SeenStudies.experiments'
         /\ y = [analysis |-> x.analysis, verified |-> x.verified, outcomes |-> 0]
  OBVIOUS
<1>6. SeenStudies = [analyses |-> a, experiments |-> e]
  BY <1>1, <1>5, SeenStudiesType
<1>7. SeenStudies' = [analyses |-> b, experiments |-> f]
  BY <1>5 DEF SeenStudies
<1>8. f = Append(e, y)
  BY <1>1, <1>3, <1>4, <1>5, OpenedIsSeenLast
<1>9. b = Append(a, TRUE) /\ Len(a) = Len(analyses)
  <2>1. PICK n : n = Len(analyses)
    OBVIOUS
  <2>2. a \in Seq({TRUE}) /\ Len(a) = n /\ DOMAIN a = 1..n /\ n \in Nat
    BY <1>1, <1>5, <2>1, SeenStudiesType
  <2>3. DOMAIN analyses' = 1..(n + 1)
    BY <1>1, <1>3, <1>4, <2>1, Appended DEF TypeOK
  <2>4. b = [i \in 1..(n + 1) |-> TRUE]
    BY <1>5, <2>3 DEF SeenStudies
  <2>5. b \in Seq({TRUE}) /\ Len(b) = n + 1 /\ b[n + 1] = TRUE
    BY <2>2, <2>4
  <2>6. a = [i \in 1..n |-> TRUE] /\ \A i \in 1..n : i \in 1..(n + 1)
    BY <1>1, <1>5, <2>1, <2>2 DEF SeenStudies
  <2>7. \A i \in 1..n : b[i] = a[i]
    BY <2>4, <2>6
  <2>8. PICK v : v = TRUE
    OBVIOUS
  <2>9. b[n + 1] = v /\ v \in {TRUE}
    BY <2>5, <2>8
  <2>10. b = Append(a, v)
    <3>1. Len(b) = Len(a) + 1 /\ b[Len(a) + 1] = v /\ \A i \in 1..Len(a) : b[i] = a[i]
      BY <2>2, <2>5, <2>7, <2>9
    <3>2. PICK S : S = {TRUE}
      OBVIOUS
    <3>3. a \in Seq(S) /\ b \in Seq(S) /\ v \in S
      BY <2>2, <2>5, <2>9, <3>2
    <3> QED
      BY ONLY <3>1, <3>3, IsAppend
  <2> QED
    BY <2>1, <2>2, <2>8, <2>10
<1>10. y = [analysis |-> Len(a) + 1, verified |-> FALSE, outcomes |-> 0]
  BY <1>3, <1>5, <1>9
<1> QED
  BY <1>6, <1>7, <1>8, <1>9, <1>10, OnboardedIsMove

LEMMA RegisterSeen ==
  ASSUME StudiesInv, TypeOK', NEW r \in Requests, RegisterCommit(r)
  PROVE  SeenStudies' \in MoveStudy(SeenStudies)
<1>1. /\ TypeOK /\ OutcomesHaveExperiments /\ req[r] \in Request
      /\ req[r].target \in DOMAIN analyses
  BY DEF StudiesInv, IInv, TypeOK, OnAnalysis, RegisterCommit
<1>2. PICK i, x : /\ i = req[r].target
                  /\ x = [analysis |-> i, status |-> "registered", verified |-> TRUE,
                          created |-> req[r].created, latest |-> None, latestVersion |-> 0]
  OBVIOUS
<1>3. x \in Experiment /\ x.analysis = i /\ x.verified = TRUE
  BY <1>1, <1>2 DEF Experiment, Statuses, Request, None
<1>4. experiments' = Append(experiments, x) /\ DOMAIN analyses' = DOMAIN analyses
      /\ UNCHANGED outcomes
  BY <1>2 DEF RegisterCommit, Relinked
<1>5. PICK a, e, f, y :
         /\ a = SeenStudies.analyses
         /\ e = SeenStudies.experiments /\ f = SeenStudies.experiments'
         /\ y = [analysis |-> x.analysis, verified |-> x.verified, outcomes |-> 0]
  OBVIOUS
<1>6. SeenStudies = [analyses |-> a, experiments |-> e] /\ DOMAIN a = DOMAIN analyses
  BY <1>1, <1>5, SeenStudiesType
<1>7. SeenStudies' = [analyses |-> a, experiments |-> f]
  BY <1>4, <1>5 DEF SeenStudies
<1>8. f = Append(e, y)
  BY <1>1, <1>3, <1>4, <1>5, OpenedIsSeenLast
<1>9. y = [analysis |-> i, verified |-> TRUE, outcomes |-> 0] /\ i \in DOMAIN a
  BY <1>1, <1>2, <1>3, <1>5, <1>6
<1> QED
  BY <1>6, <1>7, <1>8, <1>9, RegisteredIsMove

LEMMA OutcomeSeen ==
  ASSUME StudiesInv, TypeOK', NEW r \in Requests, OutcomeCommit(r)
  PROVE  SeenStudies' \in MoveStudy(SeenStudies)
<1>1. TypeOK /\ req[r] \in Request
  BY DEF StudiesInv, IInv, TypeOK
<1>2. PICK q, i : q = req[r] /\ i = req[r].target
  OBVIOUS
<1>3. PICK x : x = [experiment |-> i, version |-> q.version,
                    supersedes |-> q.prior, created |-> q.created]
  OBVIOUS
<1>4. /\ outcomes' = Append(outcomes, x) /\ experiments' = Received(i, q.version)
      /\ UNCHANGED analyses /\ q.pc = "stamped"
  BY <1>2, <1>3 DEF OutcomeCommit
<1>5. i \in DOMAIN experiments
  BY <1>2, <1>4 DEF StudiesInv, IInv, InFlight, Sound
<1>6. x \in Outcome /\ x.experiment = i
  BY <1>1, <1>2, <1>3 DEF Outcome, Request
<1>7. /\ DOMAIN experiments' = DOMAIN experiments
      /\ \A e \in DOMAIN experiments :
           /\ experiments'[e].analysis = experiments[e].analysis
           /\ experiments'[e].verified = experiments[e].verified
  <2>1. experiments[i] \in Experiment
    BY <1>1, <1>5, Collections
  <2> QED
    BY <1>4, <1>5, <2>1 DEF Received, Experiment
<1>8. /\ Cardinality(OutcomesOf(i)') = Cardinality(OutcomesOf(i)) + 1
      /\ \A e : e # i => OutcomesOf(e)' = OutcomesOf(e)
  BY <1>1, <1>4, <1>6, OneMoreOutcome
<1>9. PICK a, e, f : a = SeenStudies.analyses /\ e = SeenStudies.experiments
                     /\ f = SeenStudies.experiments'
  OBVIOUS
<1>10. /\ SeenStudies = [analyses |-> a, experiments |-> e] /\ i \in DOMAIN e
       /\ e = [j \in DOMAIN experiments |->
                 [analysis |-> experiments[j].analysis, verified |-> experiments[j].verified,
                  outcomes |-> Cardinality(OutcomesOf(j))]]
  BY <1>1, <1>5, <1>9, SeenStudiesType DEF SeenStudies
<1>11. SeenStudies' = [analyses |-> a, experiments |-> f]
  BY <1>4, <1>9 DEF SeenStudies
<1>12. f = [j \in DOMAIN experiments |->
              [analysis |-> experiments'[j].analysis, verified |-> experiments'[j].verified,
               outcomes |-> Cardinality(OutcomesOf(j)')]]
  BY <1>7, <1>9 DEF SeenStudies
<1>13. f = [e EXCEPT ![i].outcomes = @ + 1]
  <2>1. f[i] = [e[i] EXCEPT !.outcomes = @ + 1]
    BY <1>5, <1>7, <1>8, <1>10, <1>12
  <2>2. \A j \in DOMAIN e : j # i => f[j] = e[j]
    BY <1>7, <1>8, <1>10, <1>12
  <2>3. f = [e EXCEPT ![i] = [e[i] EXCEPT !.outcomes = @ + 1]]
    BY <1>10, <1>12, <2>1, <2>2
  <2> QED
    BY ONLY <2>3
<1> QED
  BY <1>10, <1>11, <1>13, ReceivedIsMove

\* What PilotEvidence takes for granted of the studies, for any number of overlapping
\* requests: an analysis comes with its draft, a pilot is opened on an analysis there
\* is, an experiment gets one more outcome, and nothing else is ever seen to move.
THEOREM StudiesMove == Spec => StudiesMoveAsRead
<1>1. Init => StudiesInv
  BY IInvInit DEF Init, StudiesInv, OnAnalysis, Idle
<1>2. StudiesInv /\ [Next]_vars => StudiesInv'
  BY StudiesInvStep
<1>3. ASSUME StudiesInv, [Next]_vars
      PROVE  [SeenStudies' \in MoveStudy(SeenStudies)]_SeenStudies
  <2>1. TypeOK'
    BY <1>3, TypeStep DEF StudiesInv, IInv
  <2>2. ASSUME NEW r \in Requests, OnboardCommit(r) \/ RegisterCommit(r) \/ OutcomeCommit(r)
        PROVE  SeenStudies' \in MoveStudy(SeenStudies)
    BY <1>3, <2>1, <2>2, OnboardSeen, RegisterSeen, OutcomeSeen
  <2>3. CASE UNCHANGED <<analyses, experiments, outcomes>>
    BY <2>3 DEF SeenStudies, OutcomesOf
  <2> QED
    BY <1>3, <2>2, <2>3 DEF Next, vars, OnboardStart, RegisterStart, RegisterRefused,
       RegisterCheck, OutcomeRead, OutcomeStamp, Fail
<1> QED
  BY <1>1, <1>2, <1>3, PTL DEF Spec, StudiesMoveAsRead

=============================================================================
