----------------------------- MODULE LimitsProofs -----------------------------
(***************************************************************************)
(* Proofs about what is let through and counted: CircuitBreaker (no more   *)
(* than one run per request past an open latch), RateLimiter (no more than *)
(* twice the limit in a window's time) and UsageBilling (no more billed    *)
(* than saved), for any finite number of requests and any readings,        *)
(* callers, limits, clients and runs.                                      *)
(*                                                                         *)
(* LeaksBounded is not inductive: it counts what was logged and says       *)
(* nothing of the requests that will still send.  Budget counts both.      *)
(* TwiceTheLimit is not: what passed so far says nothing of what the open  *)
(* window will let pass.  GoodRow bounds the window and the time before it *)
(* apart.  NothingBilledTwice is not: reports under way are stored later.  *)
(*                                                                         *)
(* What the sums come to is shown by induction, which rests on the numbers *)
(* being well-founded (WFMin): Least, Induction and SetInduction.          *)
(***************************************************************************)
EXTENDS CircuitBreaker, RateLimiter, UsageBilling, FiniteSetTheorems, SequenceTheorems,
        WellFoundedInduction, TLAPS

-----------------------------------------------------------------------------
(* Induction                                                               *)

\* Of some numbers one is the least.
LEMMA Least ==
  ASSUME NEW T \in SUBSET Nat, T # {}
  PROVE  \E x \in T : \A y \in T : x <= y
<1>1. PICK R : R = OpToRel(<, Nat)
  OBVIOUS
<1>2. IsWellFoundedOn(R, Nat)
  BY <1>1, NatLessThanWellFounded
<1>3. \A x, y \in Nat : <<x, y>> \in R <=> x < y
  BY <1>1 DEF OpToRel
<1>4. \E x \in T : \A y \in T : ~(<<y, x>> \in R)
  BY <1>2, WFMin
<1>5. PICK x \in T : \A y \in T : ~(<<y, x>> \in R)
  BY <1>4
<1>6. \A y \in T : ~(y < x)
  BY <1>3, <1>5
<1> QED
  BY <1>6

\* Induction: a set that holds 0 and with a number the next one holds all.
LEMMA Induction ==
  ASSUME NEW G, 0 \in G, \A n \in Nat : n \in G => n + 1 \in G
  PROVE  Nat \subseteq G
<1>1. SUFFICES ASSUME Nat \ G # {} PROVE FALSE
  OBVIOUS
<1>2. PICK x \in Nat \ G : \A y \in Nat \ G : x <= y
  BY <1>1, Least
<1>3. x # 0 /\ x - 1 \in Nat /\ x - 1 \in G
  BY <1>2
<1> QED
  BY <1>2, <1>3

\* The same over the subsets of a finite set.
LEMMA SetInduction ==
  ASSUME NEW S, IsFiniteSet(S), NEW G, {} \in G,
         \A T \in SUBSET S, x \in S : T \in G /\ x \notin T => T \cup {x} \in G
  PROVE  S \in G
<1> DEFINE N == {n \in Nat : \A T \in SUBSET S : Cardinality(T) = n => T \in G}
<1>1. \A T \in SUBSET S : IsFiniteSet(T)
  BY FS_Subset
<1>2. 0 \in N
  BY <1>1, FS_EmptySet
<1>3. ASSUME NEW n \in Nat, n \in N PROVE n + 1 \in N
  <2> SUFFICES ASSUME NEW T \in SUBSET S, Cardinality(T) = n + 1 PROVE T \in G
    OBVIOUS
  <2>0. IsFiniteSet(T) /\ T # {}
    BY <1>1, FS_EmptySet
  <2>1. PICK x : x \in T
    BY <2>0
  <2>2. Cardinality(T \ {x}) = n
    <3>1. Cardinality(T \ {x}) = Cardinality(T) - 1
      BY <2>0, <2>1, FS_RemoveElement
    <3> QED
      BY <3>1
  <2>3. T \ {x} \in G
    BY <1>3, <2>2
  <2>4. T = (T \ {x}) \cup {x} /\ x \in S /\ T \ {x} \in SUBSET S
    BY <2>1
  <2> QED
    BY <2>3, <2>4
<1>4. Nat \subseteq N
  <2> HIDE DEF N
  <2> QED
    BY <1>2, <1>3, Induction
<1>5. Cardinality(S) \in Nat
  BY FS_CardinalityType
<1> QED
  BY <1>4, <1>5

-----------------------------------------------------------------------------
(* The circuit breaker                                                     *)

Request == [pc : {"idle", "deciding", "decided"}, supplied : Int \cup {Absent},
            outcome : Outcome, latchOpen : BOOLEAN]

\* The requests under way that were not told to halt.
Sending == {r \in Requests : req[r].pc # "idle" /\ ~Halted(req[r])}

Budget ==
  /\ ~latch.open => leaked = 0
  /\ latch.open => leaked + Cardinality(Sending) < Cardinality(Requests)

IInv == TypeOK /\ Budget /\ TripLogged

-----------------------------------------------------------------------------
(* What a trigger computes.                                                *)

\* What the scorer and the server work out of a request.
LEMMA Computed ==
  ASSUME NEW q \in Request
  PROVE  /\ CausalDrift(q) \in Int
         /\ HaltReason(q) \in Reasons
         /\ HaltReason(q) = "causal_drift_exceeded" <=> Tripped(q)
         /\ Halted(q) \in BOOLEAN
         /\ Tripped(q) => Halted(q)
         /\ q.latchOpen => Halted(q)
BY BreakerAssumption
   DEF Request, Outcome, CausalDrift, MeasuredDrift, HaltReason, Reasons, Breaker,
       Tripped, Halted, ForceHalt, Breach

\* The stage of a request is not among the things it is judged by.
LEMMA StageIgnored ==
  ASSUME NEW q \in Request, NEW p \in Request,
         p.supplied = q.supplied, p.outcome = q.outcome, p.latchOpen = q.latchOpen
  PROVE  Halted(p) = Halted(q)
BY DEF Halted, ForceHalt, Breaker, Breach, CausalDrift, MeasuredDrift

\* Every request is well formed.
LEMMA RequestAt ==
  ASSUME TypeOK, NEW r \in Requests
  PROVE  req[r] \in Request
BY DEF TypeOK, Request

\* A committed run is appended, and so is the latest entry.
LEMMA Logged ==
  ASSUME TypeOK, NEW r \in Requests, Commit(r)
  PROVE  LET n == Len(logs) IN
         /\ n \in Nat
         /\ DOMAIN logs = 1..n
         /\ logs' \in Seq([halted : BOOLEAN, reason : Reasons, drift : Int])
         /\ DOMAIN logs' = 1..(n + 1)
         /\ \A i \in 1..n : logs'[i] = logs[i]
         /\ logs'[n + 1].reason = HaltReason(req[r])
         /\ logs'[n + 1].drift = CausalDrift(req[r])
<1> DEFINE e == [halted |-> Halted(req[r]), reason |-> HaltReason(req[r]),
                 drift |-> CausalDrift(req[r])]
           E == [halted : BOOLEAN, reason : Reasons, drift : Int]
<1>1. e \in E
  BY RequestAt, Computed
<1>2. logs \in Seq(E) /\ logs' = Append(logs, e)
  BY DEF TypeOK, Commit
<1>3. e.reason = HaltReason(req[r]) /\ e.drift = CausalDrift(req[r])
  OBVIOUS
<1> HIDE DEF e, E
<1>4. /\ Append(logs, e) \in Seq(E)
      /\ Len(Append(logs, e)) = Len(logs) + 1
      /\ \A i \in 1..Len(logs) : Append(logs, e)[i] = logs[i]
      /\ Append(logs, e)[Len(logs) + 1] = e
  BY <1>1, <1>2, AppendProperties
<1>5. /\ Len(logs) \in Nat
      /\ DOMAIN logs = 1..Len(logs)
      /\ DOMAIN Append(logs, e) = 1..Len(Append(logs, e))
  BY <1>2, <1>4, LenProperties
<1> QED
  BY <1>2, <1>3, <1>4, <1>5 DEF E

-----------------------------------------------------------------------------
(* Types                                                                   *)

\* The initial state is well formed.
LEMMA TypeInit == Init => TypeOK
BY DEF Init, TypeOK, Closed, NoOutcome, Idle, Outcome

\* Every step leaves latch, log, outcomes and requests well formed.
LEMMA TypeStep == TypeOK /\ [Next]_vars => TypeOK'
<1> SUFFICES ASSUME TypeOK, [Next]_vars PROVE TypeOK'
  OBVIOUS
<1> USE DEF TypeOK
<1>1. ASSUME NEW r \in Requests, NEW supplied \in Readings \cup {Absent},
             Trigger(r, supplied)
      PROVE  TypeOK'
  BY <1>1, BreakerAssumption DEF Trigger, NoOutcome, Outcome
<1>2. ASSUME NEW r \in Requests, Decide(r) PROVE TypeOK'
  BY <1>2 DEF Decide
<1>3. ASSUME NEW r \in Requests, Commit(r) PROVE TypeOK'
  <2>1. logs' \in Seq([halted : BOOLEAN, reason : Reasons, drift : Int])
    BY <1>3, Logged
  <2>2. latch' \in [open : BOOLEAN, drift : Int]
    BY <1>3, RequestAt, Computed DEF Commit, LatchAfter
  <2>3. leaked' \in Nat
    BY <1>3 DEF Commit
  <2>4. outcome' \in Outcome
    BY <1>3 DEF Commit
  <2>5. req' \in [Requests -> Request]
    BY <1>3 DEF Commit, Idle, NoOutcome, Outcome, Request
  <2> QED
    BY <2>1, <2>2, <2>3, <2>4, <2>5 DEF Request
<1>4. ASSUME NEW r \in Requests, Fail(r) PROVE TypeOK'
  BY <1>4 DEF Fail, Idle, NoOutcome, Outcome
<1>5. CASE Reset
  BY <1>5 DEF Reset, Closed
<1>6. ASSUME NEW drift \in Drifts, OutcomeArrives(drift) PROVE TypeOK'
  BY <1>6, BreakerAssumption DEF OutcomeArrives, StoredOutcome, Outcome
<1>7. CASE UNCHANGED vars
  BY <1>7 DEF vars
<1> QED
  BY <1>1, <1>2, <1>3, <1>4, <1>5, <1>6, <1>7 DEF Next

-----------------------------------------------------------------------------
(* The budget                                                              *)

\* Some of the requests are not more than all of them.
LEMMA FewerSend ==
  ASSUME NEW S \in SUBSET Requests, NEW T \in SUBSET S
  PROVE  Cardinality(S) \in Nat /\ Cardinality(T) \in Nat /\ Cardinality(T) <= Cardinality(S)
BY BreakerAssumption, FS_Subset, FS_CardinalityType

\* Without one of them there are fewer.
LEMMA OneLess ==
  ASSUME NEW S \in SUBSET Requests, NEW r \in S, NEW T \in SUBSET (S \ {r})
  PROVE  Cardinality(S) \in Nat /\ Cardinality(T) \in Nat /\ Cardinality(T) < Cardinality(S)
<1>1. IsFiniteSet(S)
  BY BreakerAssumption, FS_Subset
<1>2. Cardinality(S \ {r}) = Cardinality(S) - 1
  BY <1>1, FS_RemoveElement
<1>3. Cardinality(S) \in Nat
  BY <1>1, FS_CardinalityType
<1>4. IsFiniteSet(S \ {r}) /\ Cardinality(T) <= Cardinality(S \ {r})
  BY <1>1, FS_Subset, S \ {r} \subseteq S
<1>5. Cardinality(T) \in Nat
  BY <1>4, FS_Subset, FS_CardinalityType
<1> QED
  BY <1>2, <1>3, <1>4, <1>5

\* A step that leaves latch and count alone and adds no sender.
LEMMA SameLatch ==
  ASSUME TypeOK, Budget, latch' = latch, leaked' = leaked,
         latch.open => Sending' \subseteq Sending
  PROVE  Budget'
<1>1. Sending \subseteq Requests
  BY DEF Sending
<1>2. CASE latch.open
  <2>1. Cardinality(Sending) \in Nat /\ Cardinality(Sending') \in Nat
        /\ Cardinality(Sending') <= Cardinality(Sending)
    BY <1>1, <1>2, FewerSend
  <2>2. Cardinality(Requests) \in Nat
    BY BreakerAssumption, FS_CardinalityType
  <2> QED
    BY <1>2, <2>1, <2>2 DEF Budget, TypeOK
<1>3. CASE ~latch.open
  BY <1>3 DEF Budget
<1> QED
  BY <1>2, <1>3

\* A request that goes back to idle sends no more, the others are as before.
LEMMA Leaves ==
  ASSUME TypeOK, NEW r \in Requests, req' = [req EXCEPT ![r] = Idle]
  PROVE  Sending' \subseteq Sending \ {r}
BY DEF TypeOK, Sending, Idle

\* A commit that sends under an open latch is one request less that will.
LEMMA BudgetCommit ==
  ASSUME TypeOK, Budget, NEW r \in Requests, Commit(r)
  PROVE  Budget'
<1> DEFINE q == req[r]
<1>1. q \in Request /\ (Tripped(q) => Halted(q))
  BY RequestAt, Computed
<1>2. Sending' \subseteq Sending \ {r}
  BY Leaves DEF Commit
<1>3. latch' = LatchAfter(q)
      /\ leaked' = IF latch.open /\ ~Halted(q) THEN leaked + 1 ELSE leaked
  BY DEF Commit
<1>4. Sending \subseteq Requests
  BY DEF Sending
<1>5. Cardinality(Requests) \in Nat /\ leaked \in Nat
  BY BreakerAssumption, FS_CardinalityType DEF TypeOK
<1>6. CASE latch.open /\ ~Halted(q)
  <2>1. r \in Sending
    BY <1>6 DEF Sending, Commit
  <2>2. Cardinality(Sending') \in Nat /\ Cardinality(Sending) \in Nat
        /\ Cardinality(Sending') < Cardinality(Sending)
    BY <2>1, <1>2, <1>4, OneLess
  <2>3. latch' = latch /\ leaked' = leaked + 1
    BY <1>1, <1>3, <1>6 DEF LatchAfter
  <2> QED
    BY <2>2, <2>3, <1>5, <1>6 DEF Budget
<1>7. CASE latch.open /\ Halted(q)
  <2>1. Cardinality(Sending') \in Nat /\ Cardinality(Sending) \in Nat
        /\ Cardinality(Sending') <= Cardinality(Sending)
    BY <1>2, <1>4, FewerSend
  <2>2. latch'.open /\ leaked' = leaked
    BY <1>3, <1>7 DEF LatchAfter
  <2> QED
    BY <2>1, <2>2, <1>5, <1>7 DEF Budget
<1>8. CASE ~latch.open /\ Tripped(q)
  <2>1. Sending' \subseteq Requests \ {r}
    BY <1>2, <1>4
  <2>2. Cardinality(Sending') \in Nat /\ Cardinality(Sending') < Cardinality(Requests)
    BY <2>1, OneLess
  <2>3. latch'.open /\ leaked' = 0
    BY <1>3, <1>8 DEF LatchAfter, Budget
  <2> QED
    BY <2>2, <2>3, <1>5 DEF Budget
<1>9. CASE ~latch.open /\ ~Tripped(q)
  BY <1>3, <1>9 DEF LatchAfter, Budget
<1> QED
  BY <1>6, <1>7, <1>8, <1>9

\* Every step keeps the budget of requests that send under an open latch.
LEMMA BudgetStep == TypeOK /\ Budget /\ [Next]_vars => Budget'
<1> SUFFICES ASSUME TypeOK, Budget, [Next]_vars PROVE Budget'
  OBVIOUS
<1>0. TypeOK'
  BY TypeStep
<1>1. ASSUME NEW r \in Requests, NEW supplied \in Readings \cup {Absent},
             Trigger(r, supplied)
      PROVE  Budget'
  <2>1. latch' = latch /\ leaked' = leaked
    BY <1>1 DEF Trigger
  <2>2. ASSUME latch.open PROVE Sending' \subseteq Sending
    <3>1. req'[r].latchOpen /\ req'[r] \in Request
      BY <1>0, <1>1, <2>2 DEF Trigger, TypeOK, Request
    <3>2. Halted(req'[r])
      BY <3>1, Computed
    <3>3. \A s \in Requests \ {r} : req'[s] = req[s]
      BY <1>1 DEF Trigger, TypeOK
    <3> QED
      BY <3>2, <3>3 DEF Sending
  <2> QED
    BY <2>1, <2>2, SameLatch
<1>2. ASSUME NEW r \in Requests, Decide(r) PROVE Budget'
  <2>1. req[r] \in Request /\ req'[r] \in Request
    BY <1>0, RequestAt DEF TypeOK, Request
  <2>2. req'[r] = [req[r] EXCEPT !.pc = "decided"] /\ req[r].pc = "deciding"
    BY <1>2 DEF Decide, TypeOK
  <2>3. Halted(req'[r]) = Halted(req[r])
    BY <2>1, <2>2, StageIgnored DEF Request
  <2>4. \A s \in Requests \ {r} : req'[s] = req[s]
    BY <1>2 DEF Decide, TypeOK
  <2>5. Sending' \subseteq Sending
    BY <2>2, <2>3, <2>4 DEF Sending
  <2>6. latch' = latch /\ leaked' = leaked
    BY <1>2 DEF Decide
  <2> QED
    BY <2>5, <2>6, SameLatch
<1>3. ASSUME NEW r \in Requests, Commit(r) PROVE Budget'
  BY <1>3, BudgetCommit
<1>4. ASSUME NEW r \in Requests, Fail(r) PROVE Budget'
  <2>1. latch' = latch /\ leaked' = leaked /\ req' = [req EXCEPT ![r] = Idle]
    BY <1>4 DEF Fail
  <2>2. Sending' \subseteq Sending
    BY <2>1, Leaves
  <2> QED
    BY <2>1, <2>2, SameLatch
<1>5. CASE Reset
  BY <1>5 DEF Reset, Closed, Budget
<1>6. ASSUME NEW drift \in Drifts, OutcomeArrives(drift) PROVE Budget'
  <2>1. latch' = latch /\ leaked' = leaked /\ req' = req
    BY <1>6 DEF OutcomeArrives
  <2> QED
    BY <2>1, SameLatch DEF Sending
<1>7. CASE UNCHANGED vars
  <2>1. latch' = latch /\ leaked' = leaked /\ req' = req
    BY <1>7 DEF vars
  <2> QED
    BY <2>1, SameLatch DEF Sending
<1> QED
  BY <1>1, <1>2, <1>3, <1>4, <1>5, <1>6, <1>7 DEF Next

-----------------------------------------------------------------------------
(* Latch and log                                                           *)

\* A commit that opens the latch has logged the trip.
LEMMA LogCommit ==
  ASSUME TypeOK, TripLogged, NEW r \in Requests, Commit(r)
  PROVE  TripLogged'
<1> DEFINE q == req[r]
           n == Len(logs)
<1>1. q \in Request /\ (HaltReason(q) = "causal_drift_exceeded" <=> Tripped(q))
  BY RequestAt, Computed
<1>2. latch' = LatchAfter(q)
  BY DEF Commit
<1>3. /\ n \in Nat
      /\ DOMAIN logs = 1..n
      /\ DOMAIN logs' = 1..(n + 1)
      /\ \A i \in 1..n : logs'[i] = logs[i]
      /\ logs'[n + 1].reason = HaltReason(q)
      /\ logs'[n + 1].drift = CausalDrift(q)
  BY Logged
<1>4. CASE Tripped(q)
  <2>1. latch'.drift = CausalDrift(q)
    BY <1>2, <1>4 DEF LatchAfter
  <2>2. n + 1 \in DOMAIN logs' /\ logs'[n + 1].reason = "causal_drift_exceeded"
        /\ logs'[n + 1].drift = latch'.drift
    BY <1>1, <1>3, <1>4, <2>1
  <2>3. \A j \in DOMAIN logs' : ~(j > n + 1)
    BY <1>3
  <2> QED
    BY <2>2, <2>3 DEF TripLogged, IsTrip
<1>5. CASE ~Tripped(q)
  <2> SUFFICES ASSUME latch.open PROVE TripLogged'
    BY <1>2, <1>5 DEF LatchAfter, TripLogged
  <2>1. latch' = latch
    BY <1>2, <1>5 DEF LatchAfter
  <2>2. PICK i \in DOMAIN logs :
          /\ logs[i].reason = "causal_drift_exceeded"
          /\ logs[i].drift = latch.drift
          /\ \A j \in DOMAIN logs : j > i => logs[j].reason # "causal_drift_exceeded"
    BY DEF TripLogged, IsTrip
  <2>3. i \in DOMAIN logs' /\ logs'[i].reason = "causal_drift_exceeded"
        /\ logs'[i].drift = latch'.drift
    BY <1>3, <2>1, <2>2
  <2>4. \A j \in DOMAIN logs' : j > i => logs'[j].reason # "causal_drift_exceeded"
    <3> SUFFICES ASSUME NEW j \in DOMAIN logs', j > i
                 PROVE  logs'[j].reason # "causal_drift_exceeded"
      OBVIOUS
    <3>1. CASE j = n + 1
      BY <3>1, <1>1, <1>3, <1>5
    <3>2. CASE j \in 1..n
      BY <3>2, <1>3, <2>2
    <3> QED
      BY <3>1, <3>2, <1>3
  <2> QED
    BY <2>3, <2>4 DEF TripLogged, IsTrip
<1> QED
  BY <1>4, <1>5

\* Every step leaves an open latch its logged trip.
LEMMA LogStep == TypeOK /\ TripLogged /\ [Next]_vars => TripLogged'
<1> SUFFICES ASSUME TypeOK, TripLogged, [Next]_vars PROVE TripLogged'
  OBVIOUS
<1>1. ASSUME NEW r \in Requests, Commit(r) PROVE TripLogged'
  BY <1>1, LogCommit
<1>2. CASE Reset
  BY <1>2 DEF Reset, Closed, TripLogged
<1>3. ASSUME latch' = latch, logs' = logs PROVE TripLogged'
  BY <1>3 DEF TripLogged, IsTrip
<1> QED
  BY <1>1, <1>2, <1>3
     DEF Next, vars, Trigger, Decide, Fail, OutcomeArrives

-----------------------------------------------------------------------------
(* The invariant and the theorems                                          *)

\* The inductive invariant of the breaker: its types, the budget of runs that
\* may still send while the latch is open, and the newest breach in the log.
THEOREM InductiveInvariant == Spec => []IInv
<1>1. Init => IInv
  BY TypeInit DEF Init, Closed, IInv, Budget, TripLogged
<1>2. IInv /\ [Next]_vars => IInv'
  BY TypeStep, BudgetStep, LogStep DEF IInv
<1> QED
  BY <1>1, <1>2, PTL DEF Spec

\* Latch, log and requests stay well formed.
THEOREM TypeCorrect == Spec => []TypeOK
<1>1. IInv => TypeOK
  BY DEF IInv
<1> QED
  BY <1>1, InductiveInvariant, PTL

\* While the latch is open, at most one run per other request sends, for any
\* number of requests (orchestrator.js:35-37, server.js:780-809).
THEOREM FewLeaks == Spec => []LeaksBounded
<1>1. IInv => LeaksBounded
  <2> SUFFICES ASSUME IInv, latch.open PROVE leaked < Cardinality(Requests)
    BY DEF LeaksBounded
  <2>1. Sending \subseteq Requests
    BY DEF Sending
  <2>2. Cardinality(Sending) \in Nat
    BY <2>1, FewerSend
  <2>3. Cardinality(Requests) \in Nat
    BY BreakerAssumption, FS_CardinalityType
  <2> QED
    BY <2>2, <2>3 DEF IInv, Budget, TypeOK
<1> QED
  BY <1>1, InductiveInvariant, PTL

\* An open latch shows the drift of the newest breach in the log, for any
\* length of the log (server.js:801-808).
THEOREM LatchIsLogged == Spec => []TripLogged
<1>1. IInv => TripLogged
  BY DEF IInv
<1> QED
  BY <1>1, InductiveInvariant, PTL

\* A trigger that saw the latch open never opens it again: an owner's reset
\* holds until a trigger that saw it closed (orchestrator.js:38-42).
THEOREM ResetsHold == Spec => ResetHolds
<1> DEFINE Opens == ~latch.open /\ latch'.open =>
       \E r \in Requests : ~req[r].latchOpen /\ req[r].pc = "decided" /\ req'[r] = Idle
<1>1. TypeOK /\ [Next]_vars => [Opens]_vars
  <2> SUFFICES ASSUME TypeOK, [Next]_vars, ~latch.open, latch'.open
               PROVE  \E r \in Requests :
                        ~req[r].latchOpen /\ req[r].pc = "decided" /\ req'[r] = Idle
    OBVIOUS
  <2>1. PICK r \in Requests : Commit(r)
    BY DEF Next, vars, Trigger, Decide, Fail, Reset, Closed, OutcomeArrives
  <2>2. Tripped(req[r])
    BY <2>1 DEF Commit, LatchAfter
  <2>3. ~req[r].latchOpen
    BY <2>2 DEF Tripped, Breaker
  <2>4. req[r].pc = "decided" /\ req'[r] = Idle
    BY <2>1 DEF Commit, TypeOK
  <2> QED
    BY <2>3, <2>4
<1> QED
  BY <1>1, TypeCorrect, PTL DEF Spec, ResetHolds

-----------------------------------------------------------------------------
(* The rate limiter                                                        *)

\* SumBefore is what its definition says, for a row of numbers.
LEMMA Sums ==
  ASSUME NEW row \in [0..MaxTime -> Nat]
  PROVE  /\ SumBefore(row) \in [0..(MaxTime + 1) -> Nat]
         /\ SumBefore(row)[0] = 0
         /\ \A t \in 0..MaxTime : SumBefore(row)[t + 1] = SumBefore(row)[t] + row[t]
<1> DEFINE Step(n, f) == [t \in 0..n |-> IF t = 0 THEN 0 ELSE f[t - 1] + row[t - 1]]
           IsSum(n, f) == f = Step(n, f) /\ f \in [0..n -> Nat]
           G == {n \in Nat : n <= MaxTime + 1 => \E f : IsSum(n, f)}
<1>0. MaxTime \in Nat
  BY LimiterAssumption
<1>1. 0 \in G
  <2>1. IsSum(0, [t \in 0..0 |-> 0])
    OBVIOUS
  <2> QED
    BY <2>1
<1>2. ASSUME NEW n \in Nat, n \in G PROVE n + 1 \in G
  <2> SUFFICES ASSUME n + 1 <= MaxTime + 1 PROVE \E f : IsSum(n + 1, f)
    OBVIOUS
  <2>1. PICK f : IsSum(n, f)
    <3> HIDE DEF IsSum
    <3> QED
      BY <1>0, <1>2
  <2>2. n \in 0..MaxTime /\ row[n] \in Nat /\ f[n] + row[n] \in Nat
    <3> HIDE DEF Step
    <3> QED
      BY <1>0, <2>1
  <2> DEFINE g == [t \in 0..(n + 1) |-> IF t = n + 1 THEN f[n] + row[n] ELSE f[t]]
  <2>3. g \in [0..(n + 1) -> Nat]
    BY <2>1, <2>2
  <2>4. ASSUME NEW t \in 0..(n + 1) PROVE g[t] = Step(n + 1, g)[t]
    <3>1. CASE t = n + 1
      BY <3>1
    <3>2. CASE t \in 0..n
      <4>1. f[t] = IF t = 0 THEN 0 ELSE f[t - 1] + row[t - 1]
        BY <2>1, <3>2
      <4> QED
        BY <3>2, <4>1
    <3> QED
      BY <2>4, <3>1, <3>2
  <2>5. g = Step(n + 1, g)
    BY <2>4
  <2> HIDE DEF g, Step
  <2> QED
    BY <2>3, <2>5
<1>3. Nat \subseteq G
  <2> HIDE DEF G
  <2> QED
    BY <1>1, <1>2, Induction
<1>4. PICK f : IsSum(MaxTime + 1, f)
  <2> HIDE DEF IsSum
  <2> QED
    BY <1>0, <1>3
<1>5. SumBefore(row) = CHOOSE g : g = Step(MaxTime + 1, g)
  BY DEF SumBefore
<1>6. SumBefore(row) = Step(MaxTime + 1, SumBefore(row))
  <2> HIDE DEF Step
  <2> QED
    BY <1>4, <1>5
<1>7. PICK s : s = SumBefore(row)
  OBVIOUS
<1>8. /\ DOMAIN s = 0..(MaxTime + 1) /\ s[0] = 0
      /\ \A t \in 0..MaxTime : s[t + 1] = s[t] + row[t]
  <2>1. \A t \in 0..(MaxTime + 1) : s[t] = IF t = 0 THEN 0 ELSE s[t - 1] + row[t - 1]
    BY <1>6, <1>7
  <2>2. DOMAIN s = 0..(MaxTime + 1)
    BY <1>6, <1>7
  <2>4. s[0] = 0
    BY <1>0, <2>1
  <2>3. ASSUME NEW t \in 0..MaxTime PROVE s[t + 1] = s[t] + row[t]
    <3>1. t + 1 \in 0..(MaxTime + 1) /\ t + 1 # 0 /\ (t + 1) - 1 = t
      BY <1>0, <2>3
    <3>2. s[t + 1] = s[(t + 1) - 1] + row[(t + 1) - 1]
      BY <2>1, <3>1
    <3> QED
      BY <3>1, <3>2
  <2> QED
    BY <2>2, <2>3, <2>4
<1>9. \A t \in 0..(MaxTime + 1) : s[t] \in Nat
  <2> DEFINE N == {t \in Nat : t <= MaxTime + 1 => s[t] \in Nat}
  <2>1. 0 \in N
    BY <1>8
  <2>2. ASSUME NEW t \in Nat, t \in N PROVE t + 1 \in N
    BY <1>0, <1>8, <2>2
  <2>3. Nat \subseteq N
    <3> HIDE DEF N
    <3> QED
      BY <2>1, <2>2, Induction
  <2> QED
    BY <1>0, <2>3
<1>10. s = [t \in 0..(MaxTime + 1) |-> s[t]]
  BY <1>6, <1>7
<1> HIDE DEF Step
<1> QED
  BY <1>7, <1>8, <1>9, <1>10

\* Later sums are no smaller.
LEMMA SumsClimb ==
  ASSUME NEW row \in [0..MaxTime -> Nat], NEW a \in 0..(MaxTime + 1), NEW b \in a..(MaxTime + 1)
  PROVE  SumBefore(row)[a] <= SumBefore(row)[b]
<1> DEFINE G == {n \in Nat : n \in a..(MaxTime + 1) => SumBefore(row)[a] <= SumBefore(row)[n]}
<1>0. MaxTime \in Nat
  BY LimiterAssumption
<1>1. 0 \in G
  BY <1>0, Sums
<1>2. ASSUME NEW n \in Nat, n \in G PROVE n + 1 \in G
  <2> SUFFICES ASSUME n + 1 \in a..(MaxTime + 1) PROVE SumBefore(row)[a] <= SumBefore(row)[n + 1]
    OBVIOUS
  <2>1. CASE n + 1 = a
    <3>1. SumBefore(row)[a] \in Nat
      BY Sums
    <3> QED
      BY <2>1, <3>1
  <2>2. CASE n \in a..MaxTime
    <3>1. /\ n \in 0..MaxTime /\ n \in 0..(MaxTime + 1) /\ row[n] \in Nat
          /\ SumBefore(row)[a] <= SumBefore(row)[n]
      BY <1>0, <1>2, <2>2
    <3>2. /\ SumBefore(row)[n + 1] = SumBefore(row)[n] + row[n]
          /\ SumBefore(row)[n] \in Nat /\ SumBefore(row)[a] \in Nat
      BY <3>1, Sums
    <3> QED
      BY <3>1, <3>2
  <2> QED
    BY <1>0, <2>1, <2>2
<1>3. Nat \subseteq G
  <2> HIDE DEF G
  <2> QED
    BY <1>1, <1>2, Induction
<1> QED
  BY <1>0, <1>3

\* One more at a time adds one to all that come after it.
LEMMA SumsCount ==
  ASSUME NEW row \in [0..MaxTime -> Nat], NEW t \in 0..MaxTime, NEW n \in 0..(MaxTime + 1)
  PROVE  SumBefore([row EXCEPT ![t] = @ + 1])[n] =
           SumBefore(row)[n] + IF n > t THEN 1 ELSE 0
<1>0. MaxTime \in Nat
  BY LimiterAssumption
<1>1. PICK more : more = [row EXCEPT ![t] = @ + 1]
  OBVIOUS
<1>2. more \in [0..MaxTime -> Nat] /\ \A i \in 0..MaxTime : more[i] = IF i = t THEN row[i] + 1 ELSE row[i]
  BY <1>1
<1>3. PICK f, g : f = SumBefore(row) /\ g = SumBefore(more)
  OBVIOUS
<1>4. /\ f \in [0..(MaxTime + 1) -> Nat] /\ f[0] = 0
      /\ \A i \in 0..MaxTime : f[i + 1] = f[i] + row[i]
  BY <1>3, Sums
<1>5. /\ g \in [0..(MaxTime + 1) -> Nat] /\ g[0] = 0
      /\ \A i \in 0..MaxTime : g[i + 1] = g[i] + more[i]
  BY <1>2, <1>3, Sums
<1> DEFINE G == {i \in Nat : i <= MaxTime + 1 => g[i] = f[i] + IF i > t THEN 1 ELSE 0}
<1>6. 0 \in G
  BY <1>4, <1>5
<1>7. ASSUME NEW i \in Nat, i \in G PROVE i + 1 \in G
  <2> SUFFICES ASSUME i + 1 <= MaxTime + 1
               PROVE  g[i + 1] = f[i + 1] + IF i + 1 > t THEN 1 ELSE 0
    OBVIOUS
  <2>1. i \in 0..MaxTime /\ g[i] = f[i] + IF i > t THEN 1 ELSE 0
    BY <1>0, <1>7
  <2>2. i \in 0..(MaxTime + 1) /\ f[i] \in Nat /\ row[i] \in Nat
    BY <1>0, <1>4, <2>1
  <2>3. f[i + 1] = f[i] + row[i] /\ g[i + 1] = g[i] + IF i = t THEN row[i] + 1 ELSE row[i]
    BY <1>2, <1>4, <1>5, <2>1
  <2> QED
    BY <2>1, <2>2, <2>3
<1>8. Nat \subseteq G
  <2> HIDE DEF G
  <2> QED
    BY <1>6, <1>7, Induction
<1>9. n \in Nat /\ n <= MaxTime + 1
  BY <1>0
<1>10. g[n] = f[n] + IF n > t THEN 1 ELSE 0
  BY <1>8, <1>9
<1> QED
  BY <1>1, <1>3, <1>10

\* The sums do not change where nothing is added.
LEMMA SumsRest ==
  ASSUME NEW row \in [0..MaxTime -> Nat], NEW a \in 0..(MaxTime + 1), NEW b \in a..(MaxTime + 1),
         \A i \in a..(b - 1) : row[i] = 0
  PROVE  SumBefore(row)[b] = SumBefore(row)[a]
<1> DEFINE G == {n \in Nat : n \in a..b => SumBefore(row)[n] = SumBefore(row)[a]}
<1>0. MaxTime \in Nat
  BY LimiterAssumption
<1>1. 0 \in G
  BY <1>0, Sums
<1>2. ASSUME NEW n \in Nat, n \in G PROVE n + 1 \in G
  <2> SUFFICES ASSUME n + 1 \in a..b PROVE SumBefore(row)[n + 1] = SumBefore(row)[a]
    OBVIOUS
  <2>1. CASE n + 1 = a
    BY <2>1
  <2>2. CASE n \in a..(b - 1)
    <3>1. /\ row[n] = 0 /\ n \in 0..MaxTime /\ n \in 0..(MaxTime + 1)
          /\ SumBefore(row)[n] = SumBefore(row)[a]
      BY <1>0, <1>2, <2>2
    <3>2. SumBefore(row)[n + 1] = SumBefore(row)[n] + row[n] /\ SumBefore(row)[n] \in Nat
      BY <3>1, Sums
    <3> QED
      BY <3>1, <3>2
  <2> QED
    BY <1>0, <2>1, <2>2
<1>3. Nat \subseteq G
  <2> HIDE DEF G
  <2> QED
    BY <1>1, <1>2, Induction
<1> QED
  BY <1>0, <1>3

\* The entry the server finds for a caller is of a window still open.
Live(k) == k \in DOMAIN attempts /\ attempts[k].resetAt >= time

\* What is true of the calls of one caller, S[t] being what got through before t:
\* nothing has after now; a window that is open has counted what got through since
\* its beginning, and no more than the limit did in the time before it; and when none
\* is open, no more than the limit did in the last time as long as a window.
GoodRow(row, S, now, live, entry) ==
  /\ \A t \in (now + 1)..MaxTime : row[t] = 0
  /\ \A from \in 0..MaxTime : from + Window <= MaxTime => S[from + Window + 1] - S[from] <= 2 * Allowed
  /\ live => LET start == entry.resetAt - Window IN
       /\ start \in 0..now
       /\ S[now + 1] - S[start] <= entry.count /\ S[now + 1] - S[start] <= Allowed
       /\ \A a \in 0..start : a >= start - Window => S[start] - S[a] <= Allowed
  /\ ~live =>
       /\ row[now] = 0
       /\ \A a \in 0..(now + 1) : a >= now - Window => S[now + 1] - S[a] <= Allowed

LimiterInv ==
  /\ LimiterTypeOK
  /\ \A k \in Callers :
       GoodRow(passed[k], SumBefore(passed[k]), time, Live(k), IF Live(k) THEN attempts[k] ELSE 0)

\* A call that gets through leaves a good row good.
LEMMA PassKeepsRow ==
  ASSUME NEW row \in [0..MaxTime -> Nat], NEW now \in 0..MaxTime, NEW live \in BOOLEAN,
         NEW old, NEW new \in [count : Nat, resetAt : Nat], live => old \in [count : Nat, resetAt : Nat],
         GoodRow(row, SumBefore(row), now, live, old),
         new.resetAt = (IF live THEN old.resetAt ELSE now + Window),
         new.count = (IF live THEN old.count + 1 ELSE 1), new.count <= Allowed,
         live => old.resetAt >= now,
         NEW more, more = [row EXCEPT ![now] = @ + 1]
  PROVE  GoodRow(more, SumBefore(more), now, TRUE, new)
<1>0. MaxTime \in Nat /\ Window \in Nat /\ Allowed \in Nat
  BY LimiterAssumption
<1>2. more \in [0..MaxTime -> Nat] /\ \A t \in 0..MaxTime : t # now => more[t] = row[t]
  OBVIOUS
<1>3. PICK S, T : S = SumBefore(row) /\ T = SumBefore(more)
  OBVIOUS
<1>4. S \in [0..(MaxTime + 1) -> Nat] /\ T \in [0..(MaxTime + 1) -> Nat]
  BY <1>2, <1>3, Sums
<1>5. \A n \in 0..(MaxTime + 1) : T[n] = S[n] + IF n > now THEN 1 ELSE 0
  BY <1>3, SumsCount
<1>6. \A a \in 0..(MaxTime + 1), b \in 0..(MaxTime + 1) : a <= b => S[a] <= S[b]
  <2> SUFFICES ASSUME NEW a \in 0..(MaxTime + 1), NEW b \in 0..(MaxTime + 1), a <= b
               PROVE  S[a] <= S[b]
    OBVIOUS
  <2>1. b \in a..(MaxTime + 1)
    BY <1>0
  <2> QED
    BY <1>3, <2>1, SumsClimb
<1>7. \A n \in (now + 1)..(MaxTime + 1) : S[n] = S[now + 1]
  <2> SUFFICES ASSUME NEW n \in (now + 1)..(MaxTime + 1) PROVE S[n] = S[now + 1]
    OBVIOUS
  <2>1. \A i \in (now + 1)..(n - 1) : row[i] = 0
    BY <1>0 DEF GoodRow
  <2>2. now + 1 \in 0..(MaxTime + 1)
    BY <1>0
  <2> QED
    BY <1>3, <2>1, <2>2, SumsRest
<1>8. S[now + 1] = S[now] + row[now] /\ row[now] \in Nat
  BY <1>3, Sums
<1>14. PICK start : start = new.resetAt - Window
  OBVIOUS
<1>17. now \in Nat /\ now <= MaxTime /\ new.count \in Nat
  OBVIOUS
<1>18. now + 1 \in 0..(MaxTime + 1)
  BY <1>0, <1>17
<1>15. now + 1 \in 0..(MaxTime + 1) /\ S[now + 1] \in Nat
  BY <1>4, <1>18
<1>9. start = (IF live THEN old.resetAt - Window ELSE now) /\ start \in 0..now
  BY <1>0, <1>3, <1>14 DEF GoodRow
<1>19. start \in 0..(MaxTime + 1) /\ start \in Nat /\ start <= now
  BY <1>0, <1>9, <1>17
<1>16. start \in 0..(MaxTime + 1) /\ start \in Nat /\ start <= now /\ S[start] \in Nat
  BY <1>4, <1>19
<1>10. /\ S[now + 1] - S[start] + 1 <= new.count
       /\ \A a \in 0..start : a >= start - Window => S[start] - S[a] <= Allowed
  <2>1. CASE live
    <3>1. start = old.resetAt - Window
      BY <1>9, <2>1
    <3>2. /\ S[now + 1] - S[start] <= old.count
          /\ \A a \in 0..start : a >= start - Window => S[start] - S[a] <= Allowed
      BY <1>3, <2>1, <3>1 DEF GoodRow
    <3>3. new.count = old.count + 1 /\ old.count \in Nat
      BY <2>1
    <3> QED
      BY <1>15, <1>16, <3>2, <3>3
  <2>2. CASE ~live
    <3>1. row[now] = 0 /\ \A a \in 0..(now + 1) : a >= now - Window => S[now + 1] - S[a] <= Allowed
      BY <1>3, <2>2 DEF GoodRow
    <3>2. start = now /\ S[now + 1] = S[now] /\ S[now] \in Nat
      BY <1>8, <1>9, <1>15, <1>16, <2>2, <3>1
    <3>3. new.count = 1
      BY <2>2
    <3> QED
      BY <1>0, <3>1, <3>2, <3>3
  <2> QED
    BY <2>1, <2>2
<1>20. PICK sent \in Nat, before \in Nat, count \in Nat :
         sent = S[now + 1] /\ before = S[start] /\ count = new.count
  BY <1>15, <1>16, <1>17
<1>21. sent - before + 1 <= count /\ count <= Allowed
  BY <1>10, <1>20
<1>11. \A t \in (now + 1)..MaxTime : more[t] = 0
  BY <1>0, <1>2 DEF GoodRow
<1>12. ASSUME NEW from \in 0..MaxTime, from + Window <= MaxTime
       PROVE  T[from + Window + 1] - T[from] <= 2 * Allowed
  <2>0. PICK to : to = from + Window + 1
    OBVIOUS
  <2>4. to \in 0..(MaxTime + 1) /\ from \in 0..(MaxTime + 1) /\ from < to
    BY <1>0, <1>12, <2>0
  <2>1. S[to] \in Nat /\ S[from] \in Nat /\ S[to] - S[from] <= 2 * Allowed
    BY <1>3, <1>4, <1>12, <2>0, <2>4 DEF GoodRow
  <2>2. CASE from > now \/ to <= now
    <3>1. T[to] - T[from] = S[to] - S[from]
      BY <1>5, <2>1, <2>2, <2>4
    <3> QED
      BY <2>0, <2>1, <3>1
  <2>3. CASE from <= now /\ now < to
    <3>1. PICK x \in Nat : x = S[from]
      BY <2>1
    <3>2. T[to] = S[to] + 1 /\ T[from] = x
      BY <1>5, <2>1, <2>3, <2>4, <3>1
    <3>3. T[to] = sent + 1
      BY <1>7, <1>20, <2>3, <2>4, <3>2
    <3>4. CASE from >= start
      <4>1. before <= x
        BY <1>6, <1>16, <1>20, <2>4, <3>1, <3>4
      <4>2. (sent + 1) - x <= 2 * Allowed
        BY <1>0, <1>21, <4>1
      <4> QED
        BY <2>0, <3>2, <3>3, <4>2
    <3>5. CASE from < start
      <4>1. from >= start - Window /\ from \in 0..start
        BY <1>0, <1>16, <1>17, <2>0, <2>3, <2>4, <3>5
      <4>2. before - x <= Allowed
        BY <1>10, <1>20, <3>1, <4>1
      <4>3. (sent + 1) - x <= 2 * Allowed
        BY <1>0, <1>21, <4>2
      <4> QED
        BY <2>0, <3>2, <3>3, <4>3
    <3> QED
      BY <1>16, <2>4, <3>4, <3>5
  <2> QED
    BY <2>2, <2>3, <2>4
<1>13. /\ T[now + 1] - T[start] <= new.count /\ T[now + 1] - T[start] <= Allowed
       /\ \A a \in 0..start : a >= start - Window => T[start] - T[a] <= Allowed
  <2>1. T[now + 1] = sent + 1 /\ T[start] = before
    BY <1>5, <1>9, <1>15, <1>16, <1>20
  <2>2. ASSUME NEW a \in 0..start PROVE T[a] = S[a] /\ S[a] \in Nat
    <3>1. a \in 0..(MaxTime + 1) /\ ~(a > now)
      BY <1>0, <1>16, <1>17
    <3> QED
      BY <1>4, <1>5, <3>1
  <2>3. (sent + 1) - before <= count /\ (sent + 1) - before <= Allowed
    BY <1>0, <1>21
  <2>4. \A a \in 0..start : a >= start - Window => T[start] - T[a] <= Allowed
    BY <1>10, <1>20, <2>1, <2>2
  <2> QED
    BY <1>20, <2>1, <2>3, <2>4
<1> QED
  BY <1>3, <1>9, <1>11, <1>12, <1>13, <1>14 DEF GoodRow

\* So does one that does not, though it may open a window.
LEMMA RefusalKeepsRow ==
  ASSUME NEW row \in [0..MaxTime -> Nat], NEW now \in 0..MaxTime, NEW live \in BOOLEAN,
         NEW old, NEW new \in [count : Nat, resetAt : Nat], live => old \in [count : Nat, resetAt : Nat],
         GoodRow(row, SumBefore(row), now, live, old),
         new.resetAt = (IF live THEN old.resetAt ELSE now + Window),
         live => new.count >= old.count
  PROVE  GoodRow(row, SumBefore(row), now, TRUE, new)
<1>0. MaxTime \in Nat /\ Window \in Nat /\ Allowed \in Nat
  BY LimiterAssumption
<1>1. PICK S : S = SumBefore(row)
  OBVIOUS
<1>2. S \in [0..(MaxTime + 1) -> Nat]
  BY <1>1, Sums
<1>3. now + 1 \in 0..(MaxTime + 1) /\ now \in 0..(MaxTime + 1) /\ now \in Nat
  BY <1>0
<1>4. S[now + 1] = S[now] + row[now] /\ S[now] \in Nat /\ S[now + 1] \in Nat
  BY <1>1, <1>2, <1>3, Sums
<1>5. CASE live
  <2>1. PICK start : start = new.resetAt - Window
    OBVIOUS
  <2>2. /\ start \in 0..now
        /\ S[now + 1] - S[start] <= old.count /\ S[now + 1] - S[start] <= Allowed
        /\ \A a \in 0..start : a >= start - Window => S[start] - S[a] <= Allowed
    BY <1>1, <1>5, <2>1 DEF GoodRow
  <2>3. start \in 0..(MaxTime + 1)
    BY <1>0, <1>3, <2>2
  <2>4. PICK before \in Nat, sent \in Nat, was \in Nat, is \in Nat :
          before = S[start] /\ sent = S[now + 1] /\ was = old.count /\ is = new.count
    BY <1>2, <1>4, <1>5, <2>3
  <2>5. sent - before <= was /\ was <= is
    BY <1>5, <2>2, <2>4
  <2>6. S[now + 1] - S[start] <= new.count
    BY <2>4, <2>5
  <2> QED
    BY <1>1, <2>1, <2>2, <2>6 DEF GoodRow
<1>6. CASE ~live
  <2>1. row[now] = 0 /\ \A a \in 0..(now + 1) : a >= now - Window => S[now + 1] - S[a] <= Allowed
    BY <1>1, <1>6 DEF GoodRow
  <2>2. S[now + 1] = S[now]
    BY <1>4, <2>1
  <2>3. new.resetAt - Window = now
    BY <1>0, <1>3, <1>6
  <2>4. S[now + 1] - S[now] = 0 /\ new.count \in Nat
    BY <1>4, <2>2
  <2>5. \A a \in 0..now : a >= now - Window => S[now] - S[a] <= Allowed
    BY <1>3, <2>1, <2>2
  <2>6. now \in 0..now
    BY <1>3
  <2>7. S[now + 1] - S[now] <= new.count /\ S[now + 1] - S[now] <= Allowed
    BY <1>0, <2>4
  <2> QED
    BY <1>1, <2>3, <2>5, <2>6, <2>7 DEF GoodRow
<1> QED
  BY <1>5, <1>6

\* And so does the clock, which may end a window.
LEMMA ClockKeepsRow ==
  ASSUME NEW row \in [0..MaxTime -> Nat], NEW now \in 0..MaxTime, now < MaxTime,
         NEW live \in BOOLEAN, NEW after \in BOOLEAN,
         NEW old, live => old \in [count : Nat, resetAt : Nat] /\ old.resetAt >= now,
         GoodRow(row, SumBefore(row), now, live, old),
         after <=> live /\ old.resetAt >= now + 1
  PROVE  GoodRow(row, SumBefore(row), now + 1, after, old)
<1>0. MaxTime \in Nat /\ Window \in Nat /\ Allowed \in Nat /\ now \in Nat
  BY LimiterAssumption
<1>1. PICK S : S = SumBefore(row)
  OBVIOUS
<1>2. S \in [0..(MaxTime + 1) -> Nat]
  BY <1>1, Sums
<1>3. PICK next : next = now + 1
  OBVIOUS
<1>4. /\ next \in 0..MaxTime /\ next \in 0..(MaxTime + 1) /\ next + 1 \in 0..(MaxTime + 1)
      /\ next \in Nat
  BY <1>0, <1>3
<1>5. row[next] = 0
  BY <1>3, <1>4 DEF GoodRow
<1>6. S[next + 1] = S[next] + row[next] /\ S[next] \in Nat
  BY <1>1, <1>2, <1>4, Sums
<1>7. S[next + 1] = S[next]
  BY <1>5, <1>6
<1>8. /\ \A t \in (next + 1)..MaxTime : row[t] = 0
      /\ \A from \in 0..MaxTime : from + Window <= MaxTime => S[from + Window + 1] - S[from] <= 2 * Allowed
  BY <1>0, <1>1, <1>3, <1>4 DEF GoodRow
<1>9. ASSUME after
      PROVE  LET start == old.resetAt - Window IN
             /\ start \in 0..next
             /\ S[next + 1] - S[start] <= old.count /\ S[next + 1] - S[start] <= Allowed
             /\ \A a \in 0..start : a >= start - Window => S[start] - S[a] <= Allowed
  <2>1. PICK start : start = old.resetAt - Window
    OBVIOUS
  <2>2. /\ start \in 0..now
        /\ S[next] - S[start] <= old.count /\ S[next] - S[start] <= Allowed
        /\ \A a \in 0..start : a >= start - Window => S[start] - S[a] <= Allowed
    BY <1>1, <1>3, <1>9, <2>1 DEF GoodRow
  <2>3. start \in 0..next
    BY <1>0, <1>3, <2>2
  <2> QED
    BY <1>7, <2>1, <2>2, <2>3
<1>10. ASSUME ~after, NEW a \in 0..(next + 1), a >= next - Window
       PROVE  S[next + 1] - S[a] <= Allowed
  <2>1. CASE a = next + 1
    BY <1>0, <1>6, <1>7, <2>1
  <2>2. CASE a \in 0..next /\ live
    <3>1. PICK start : start = old.resetAt - Window
      OBVIOUS
    <3>2. old.resetAt = now
      BY <1>0, <1>10, <2>2
    <3>3. start \in 0..now /\ S[next] - S[start] <= Allowed
      BY <1>1, <1>3, <2>2, <3>1 DEF GoodRow
    <3>4. start = now - Window /\ start <= a
      BY <1>0, <1>3, <1>10, <2>2, <3>1, <3>2
    <3>5. start \in 0..(MaxTime + 1) /\ a \in start..(MaxTime + 1) /\ a \in 0..(MaxTime + 1)
      BY <1>0, <1>4, <2>2, <3>3, <3>4
    <3>6. S[start] <= S[a]
      BY <1>1, <3>5, SumsClimb
    <3>7. PICK x \in Nat, y \in Nat, z \in Nat : x = S[start] /\ y = S[a] /\ z = S[next]
      BY <1>2, <1>6, <3>5
    <3>8. z - x <= Allowed /\ x <= y
      BY <3>3, <3>6, <3>7
    <3>9. z - y <= Allowed
      BY <1>0, <3>8
    <3> QED
      BY <1>7, <3>7, <3>9
  <2>3. CASE a \in 0..next /\ ~live
    <3>1. a >= now - Window
      BY <1>0, <1>3, <1>10, <2>3
    <3> QED
      BY <1>1, <1>3, <1>7, <2>3, <3>1 DEF GoodRow
  <2>4. a \in 0..next \/ a = next + 1
    BY <1>4
  <2> QED
    BY <2>1, <2>2, <2>3, <2>4
<1> QED
  BY <1>1, <1>3, <1>5, <1>8, <1>9, <1>10 DEF GoodRow

\* Calls and the clock keep the invariant.
LEMMA CallKeepsLimit ==
  ASSUME LimiterInv, NEW k \in Callers, CheckRateLimit(k)
  PROVE  LimiterInv'
<1>0. MaxTime \in Nat /\ Window \in Nat /\ Allowed \in Nat
  BY LimiterAssumption
<1>1. /\ DOMAIN attempts \subseteq Callers
      /\ \A c \in DOMAIN attempts : attempts[c] \in [count : Nat, resetAt : Nat]
      /\ time \in 0..MaxTime /\ time \in Nat /\ time' = time
      /\ passed \in [Callers -> [0..MaxTime -> Nat]]
  BY <1>0 DEF LimiterInv, LimiterTypeOK, CheckRateLimit
<1>2. PICK entry : entry = Entry(k)
  OBVIOUS
<1>3. /\ entry \in [count : Nat, resetAt : Nat]
      /\ entry = IF Live(k) THEN attempts[k] ELSE [count |-> 0, resetAt |-> time + Window]
      /\ entry.resetAt >= time
  BY <1>0, <1>1, <1>2 DEF Entry, Live
<1>4. PICK counted : counted = [entry EXCEPT !.count = IF @ > Allowed THEN @ ELSE @ + 1]
  OBVIOUS
<1>5. /\ counted \in [count : Nat, resetAt : Nat] /\ counted.resetAt = entry.resetAt
      /\ counted.count = (IF entry.count > Allowed THEN entry.count ELSE entry.count + 1)
  BY <1>3, <1>4
<1>6. PICK table : table = [x \in DOMAIN attempts \cup {k} |-> IF x = k THEN counted ELSE attempts[x]]
  OBVIOUS
<1>7. /\ attempts' = Swept(table)
      /\ passed' = IF counted.count > Allowed THEN passed ELSE [passed EXCEPT ![k][time] = @ + 1]
  BY <1>2, <1>4, <1>6 DEF CheckRateLimit
<1>8. /\ DOMAIN attempts' \subseteq DOMAIN table
      /\ \A x \in DOMAIN table : table[x].resetAt >= time => x \in DOMAIN attempts'
      /\ \A x \in DOMAIN attempts' : attempts'[x] = table[x]
  BY <1>7 DEF Swept
<1>9. PICK now, rows, news : now = attempts' /\ rows = passed' /\ news = [c \in Callers |-> Live(c)']
  OBVIOUS
<1>10. /\ news[k] = TRUE /\ now[k] = counted
       /\ \A c \in Callers \ {k} : /\ news[c] = Live(c)
                                   /\ Live(c) => now[c] = attempts[c]
  <2>1. k \in DOMAIN now /\ now[k] = counted
    BY <1>3, <1>5, <1>6, <1>8, <1>9
  <2>2. news[k] = TRUE
    BY <1>1, <1>3, <1>5, <1>9, <2>1 DEF Live
  <2>3. ASSUME NEW c \in Callers \ {k}
        PROVE  news[c] = Live(c) /\ (Live(c) => now[c] = attempts[c])
    BY <1>1, <1>6, <1>8, <1>9, <2>3 DEF Live
  <2> QED
    BY <2>1, <2>2, <2>3
<1>11. LimiterTypeOK'
  <2>1. DOMAIN now \subseteq Callers /\ \A c \in DOMAIN now : now[c] \in [count : Nat, resetAt : Nat]
    BY <1>1, <1>5, <1>6, <1>8, <1>9
  <2>2. [passed EXCEPT ![k][time] = @ + 1] \in [Callers -> [0..MaxTime -> Nat]]
    <3>1. passed[k] \in [0..MaxTime -> Nat]
      BY <1>1
    <3>2. [passed[k] EXCEPT ![time] = @ + 1] \in [0..MaxTime -> Nat]
      BY <1>1, <3>1
    <3> QED
      BY <1>1, <3>2
  <2>3. rows \in [Callers -> [0..MaxTime -> Nat]]
    BY <1>1, <1>7, <1>9, <2>2
  <2> QED
    BY <1>1, <1>9, <2>1, <2>3 DEF LimiterTypeOK
<1>12. ASSUME NEW c \in Callers
       PROVE  GoodRow(rows[c], SumBefore(rows[c]), time, news[c], IF news[c] THEN now[c] ELSE 0)
  <2>0. PICK old : old = IF Live(c) THEN attempts[c] ELSE 0
    OBVIOUS
  <2>1. /\ GoodRow(passed[c], SumBefore(passed[c]), time, Live(c), old)
        /\ passed[c] \in [0..MaxTime -> Nat] /\ Live(c) \in BOOLEAN
        /\ Live(c) => old \in [count : Nat, resetAt : Nat] /\ old.resetAt >= time
    BY <1>1, <2>0 DEF LimiterInv, Live
  <2>2. CASE c # k
    <3>1. rows[c] = passed[c]
      BY <1>1, <1>7, <1>9, <2>2
    <3>2. news[c] = Live(c) /\ (IF news[c] THEN now[c] ELSE 0) = old
      BY <1>10, <2>0, <2>2
    <3> QED
      BY <2>1, <3>1, <3>2
  <2>3. CASE c = k /\ counted.count > Allowed
    <3>1. rows[c] = passed[c]
      BY <1>7, <1>9, <2>3
    <3>2. counted.resetAt = (IF Live(c) THEN old.resetAt ELSE time + Window)
      BY <1>3, <1>5, <2>0, <2>3
    <3>3. Live(c) => counted.count >= old.count
      BY <1>3, <1>5, <2>0, <2>3
    <3>4. GoodRow(passed[c], SumBefore(passed[c]), time, TRUE, counted)
      BY <1>1, <1>5, <2>1, <3>2, <3>3, RefusalKeepsRow
    <3> QED
      BY <1>10, <2>3, <3>1, <3>4
  <2>4. CASE c = k /\ ~(counted.count > Allowed)
    <3>1. rows[c] = [passed[c] EXCEPT ![time] = @ + 1]
      BY <1>1, <1>7, <1>9, <2>4
    <3>2. counted.resetAt = (IF Live(c) THEN old.resetAt ELSE time + Window)
      BY <1>3, <1>5, <2>0, <2>4
    <3>3. counted.count = (IF Live(c) THEN old.count + 1 ELSE 1) /\ counted.count <= Allowed
      BY <1>0, <1>3, <1>5, <2>0, <2>4
    <3>4. GoodRow(rows[c], SumBefore(rows[c]), time, TRUE, counted)
      BY <1>1, <1>5, <2>1, <3>1, <3>2, <3>3, PassKeepsRow
    <3> QED
      BY <1>10, <2>4, <3>4
  <2> QED
    BY <2>2, <2>3, <2>4
<1>13. \A c \in Callers : Live(c)' = news[c]
  BY <1>9
<1> QED
  BY <1>1, <1>9, <1>11, <1>12, <1>13 DEF LimiterInv

\* Time that passes keeps every row good.
LEMMA ClockKeepsLimit ==
  ASSUME LimiterInv, time < MaxTime, time' = time + 1, UNCHANGED <<attempts, passed>>
  PROVE  LimiterInv'
<1>0. MaxTime \in Nat
  BY LimiterAssumption
<1>1. /\ \A c \in DOMAIN attempts : attempts[c] \in [count : Nat, resetAt : Nat]
      /\ time \in 0..MaxTime /\ time + 1 \in 0..MaxTime /\ time \in Nat
      /\ passed \in [Callers -> [0..MaxTime -> Nat]]
  BY <1>0 DEF LimiterInv, LimiterTypeOK
<1>2. LimiterTypeOK'
  BY <1>1 DEF LimiterInv, LimiterTypeOK
<1>3. PICK news : news = [c \in Callers |-> Live(c)']
  OBVIOUS
<1>4. ASSUME NEW c \in Callers
      PROVE  GoodRow(passed[c], SumBefore(passed[c]), time + 1, news[c], IF news[c] THEN attempts[c] ELSE 0)
  <2>0. PICK old : old = IF Live(c) THEN attempts[c] ELSE 0
    OBVIOUS
  <2>1. /\ GoodRow(passed[c], SumBefore(passed[c]), time, Live(c), old)
        /\ passed[c] \in [0..MaxTime -> Nat] /\ Live(c) \in BOOLEAN
        /\ Live(c) => old \in [count : Nat, resetAt : Nat] /\ old.resetAt >= time
    BY <1>1, <2>0 DEF LimiterInv, Live
  <2>2. news[c] \in BOOLEAN /\ (news[c] <=> Live(c) /\ old.resetAt >= time + 1)
    <3>1. news[c] = (c \in DOMAIN attempts /\ attempts[c].resetAt >= time + 1)
      BY <1>3 DEF Live
    <3>2. c \in DOMAIN attempts => attempts[c].resetAt \in Nat
      BY <1>1
    <3>3. attempts[c].resetAt >= time + 1 /\ c \in DOMAIN attempts => attempts[c].resetAt >= time
      BY <1>1, <3>2
    <3>4. news[c] <=> Live(c) /\ attempts[c].resetAt >= time + 1
      BY <3>1, <3>3 DEF Live
    <3> QED
      BY <2>0, <3>1, <3>4
  <2>3. GoodRow(passed[c], SumBefore(passed[c]), time + 1, news[c], old)
    BY <1>1, <2>1, <2>2, ClockKeepsRow
  <2>4. news[c] => old = attempts[c]
    BY <2>0, <2>2
  <2> QED
    BY <2>3, <2>4 DEF GoodRow
<1>5. \A c \in Callers : Live(c)' = news[c]
  BY <1>3
<1> QED
  BY <1>2, <1>4, <1>5 DEF LimiterInv

\* No caller ever gets more than twice the limit through in a window's time.
THEOREM TwiceTheLimitAtMost == LimiterSpec => []TwiceTheLimit
<1>1. LimiterInit => LimiterInv
  <2> SUFFICES ASSUME LimiterInit PROVE LimiterInv
    OBVIOUS
  <2>0. MaxTime \in Nat /\ Window \in Nat /\ Allowed \in Nat
    BY LimiterAssumption
  <2>1. LimiterTypeOK
    BY <2>0 DEF LimiterInit, LimiterTypeOK
  <2>2. ASSUME NEW k \in Callers
        PROVE  GoodRow(passed[k], SumBefore(passed[k]), time, Live(k), IF Live(k) THEN attempts[k] ELSE 0)
    <3>1. PICK row : row = passed[k]
      OBVIOUS
    <3>2. row \in [0..MaxTime -> Nat] /\ \A t \in 0..MaxTime : row[t] = 0
      BY <3>1 DEF LimiterInit
    <3>3. ASSUME NEW b \in 0..(MaxTime + 1) PROVE SumBefore(row)[b] = 0
      <4>1. 0 \in 0..(MaxTime + 1) /\ b \in 0..(MaxTime + 1)
        BY <2>0
      <4>2. \A i \in 0..(b - 1) : row[i] = 0
        BY <2>0, <3>2
      <4> QED
        BY <3>2, <4>1, <4>2, SumsRest, Sums
    <3>4. ~Live(k) /\ time = 0
      BY DEF LimiterInit, Live
    <3>5. \A from \in 0..MaxTime : from + Window <= MaxTime =>
            SumBefore(row)[from + Window + 1] - SumBefore(row)[from] <= 2 * Allowed
      <4> SUFFICES ASSUME NEW from \in 0..MaxTime, from + Window <= MaxTime
                   PROVE  SumBefore(row)[from + Window + 1] - SumBefore(row)[from] <= 2 * Allowed
        OBVIOUS
      <4>1. from + Window + 1 \in 0..(MaxTime + 1) /\ from \in 0..(MaxTime + 1)
        BY <2>0
      <4>2. SumBefore(row)[from + Window + 1] = 0 /\ SumBefore(row)[from] = 0
        BY <3>3, <4>1
      <4> QED
        BY <2>0, <4>2
    <3>6. \A a \in 0..(0 + 1) : SumBefore(row)[0 + 1] - SumBefore(row)[a] <= Allowed
      <4> SUFFICES ASSUME NEW a \in 0..(0 + 1)
                   PROVE  SumBefore(row)[0 + 1] - SumBefore(row)[a] <= Allowed
        OBVIOUS
      <4>1. 0 + 1 \in 0..(MaxTime + 1) /\ a \in 0..(MaxTime + 1)
        BY <2>0
      <4>2. SumBefore(row)[0 + 1] = 0 /\ SumBefore(row)[a] = 0
        BY <3>3, <4>1
      <4> QED
        BY <2>0, <4>2
    <3>7. 0 \in 0..MaxTime
      BY <2>0
    <3> QED
      BY <3>1, <3>2, <3>4, <3>5, <3>6, <3>7 DEF GoodRow
  <2> QED
    BY <2>1, <2>2 DEF LimiterInv
<1>2. LimiterInv /\ [LimiterNext]_limiterVars => LimiterInv'
  <2> SUFFICES ASSUME LimiterInv, [LimiterNext]_limiterVars PROVE LimiterInv'
    OBVIOUS
  <2>1. CASE UNCHANGED limiterVars
    BY <2>1 DEF limiterVars, LimiterInv, LimiterTypeOK, GoodRow, Live
  <2>2. CASE LimiterNext
    BY <2>2, CallKeepsLimit, ClockKeepsLimit DEF LimiterNext
  <2> QED
    BY <2>1, <2>2
<1>3. LimiterInv => TwiceTheLimit
  BY DEF LimiterInv, GoodRow, TwiceTheLimit, PassedBetween
<1> QED
  BY <1>1, <1>2, <1>3, PTL DEF LimiterSpec

-----------------------------------------------------------------------------
(* Billing                                                                 *)

\* Entries of a log or of a report: what they saved is a number.
Entries(S) == IsFiniteSet(S) /\ \A x \in S : x.saved \in Nat

Chosen(s) == CHOOSE x \in s : TRUE

\* What Total computes along the way.
Along(S, f) ==
  [s \in SUBSET S |-> IF s = {} THEN 0 ELSE Chosen(s).saved + f[s \ {Chosen(s)}]]

\* Total is the value, for the whole set, of a function that satisfies it.
LEMMA TotalIs == \A S : Total(S) = (CHOOSE f : f = Along(S, f))[S]
BY DEF Total, MapThenSumSet, MapThenFoldSet, Along, Chosen

\* There is such a function for a finite set of entries.
LEMMA AlongExists ==
  ASSUME NEW S, Entries(S)
  PROVE  \E f \in [SUBSET S -> Nat] : f = Along(S, f)
<1> DEFINE Upto(n, f) == \A s \in SUBSET S : Cardinality(s) <= n => f[s] = Along(S, f)[s]
           N == {n \in Nat : \E f \in [SUBSET S -> Nat] : Upto(n, f)}
<1>1. ASSUME NEW s \in SUBSET S, s # {}
      PROVE  /\ Chosen(s) \in s /\ Chosen(s).saved \in Nat
             /\ s \ {Chosen(s)} \in SUBSET S
             /\ IsFiniteSet(s) /\ Cardinality(s) \in Nat
             /\ Cardinality(s \ {Chosen(s)}) = Cardinality(s) - 1
  <2>1. Chosen(s) \in s
    BY <1>1 DEF Chosen
  <2>2. IsFiniteSet(s)
    BY FS_Subset DEF Entries
  <2> QED
    BY <2>1, <2>2, FS_RemoveElement, FS_CardinalityType DEF Entries
<1>2. ASSUME NEW f \in [SUBSET S -> Nat] PROVE Along(S, f) \in [SUBSET S -> Nat]
  <2>1. ASSUME NEW s \in SUBSET S
        PROVE  (IF s = {} THEN 0 ELSE Chosen(s).saved + f[s \ {Chosen(s)}]) \in Nat
    <3>1. CASE s = {}
      BY <3>1
    <3>2. CASE s # {}
      <4>1. Chosen(s).saved \in Nat /\ f[s \ {Chosen(s)}] \in Nat
        BY <1>1, <3>2
      <4> QED
        BY <3>2, <4>1
    <3> QED
      BY <3>1, <3>2
  <2> QED
    BY <2>1 DEF Along
<1>3. 0 \in N
  <2>1. ASSUME NEW s \in SUBSET S, Cardinality(s) <= 0 PROVE s = {}
    <3>1. IsFiniteSet(s) /\ Cardinality(s) \in Nat
      BY FS_Subset, FS_CardinalityType DEF Entries
    <3> QED
      BY <2>1, <3>1, FS_EmptySet
  <2>2. PICK f : f = [s \in SUBSET S |-> 0]
    OBVIOUS
  <2>3. f \in [SUBSET S -> Nat] /\ Upto(0, f)
    BY <2>1, <2>2 DEF Along
  <2> QED
    BY <2>3
<1>4. ASSUME NEW n \in Nat, n \in N PROVE n + 1 \in N
  <2>1. PICK f \in [SUBSET S -> Nat] : Upto(n, f)
    BY <1>4
  <2>2. PICK g : g = Along(S, f)
    OBVIOUS
  <2>3. g \in [SUBSET S -> Nat]
    BY <1>2, <2>2
  <2>4. ASSUME NEW s \in SUBSET S, Cardinality(s) <= n + 1
        PROVE  g[s] = Along(S, g)[s]
    <3>1. CASE s = {}
      BY <2>2, <3>1 DEF Along
    <3>2. CASE s # {}
      <4>1. PICK rest : rest = s \ {Chosen(s)}
        OBVIOUS
      <4>2. rest \in SUBSET S /\ Cardinality(rest) <= n
        BY <1>1, <2>4, <3>2, <4>1
      <4>3. g[rest] = f[rest]
        BY <2>1, <2>2, <4>2
      <4>4. g[s] = Chosen(s).saved + f[rest] /\ Along(S, g)[s] = Chosen(s).saved + g[rest]
        BY <2>2, <3>2, <4>1 DEF Along
      <4> QED
        BY <4>3, <4>4
    <3> QED
      BY <3>1, <3>2
  <2> HIDE DEF Upto
  <2>5. Upto(n + 1, g)
    BY <2>4 DEF Upto
  <2> QED
    BY <2>3, <2>5
<1>5. Nat \subseteq N
  <2> HIDE DEF N
  <2> QED
    BY <1>3, <1>4, Induction
<1>6. PICK f \in [SUBSET S -> Nat] : Upto(Cardinality(S), f)
  <2>1. Cardinality(S) \in N
    BY <1>5, FS_CardinalityType DEF Entries
  <2> QED
    BY <2>1
<1>7. ASSUME NEW s \in SUBSET S PROVE f[s] = Along(S, f)[s]
  <2>1. Cardinality(s) <= Cardinality(S)
    BY FS_Subset DEF Entries
  <2> QED
    BY <1>6, <2>1
<1>8. Along(S, f) \in [SUBSET S -> Nat]
  BY <1>2
<1>9. f = Along(S, f)
  BY <1>7, <1>8
<1> QED
  BY <1>9

\* What is computed along two ways agrees where both come by.
LEMMA AlongAgree ==
  ASSUME NEW S, NEW f, f = Along(S, f), NEW T, NEW g, g = Along(T, g),
         NEW A, A \subseteq S, A \subseteq T, IsFiniteSet(A)
  PROVE  f[A] = g[A]
<1> DEFINE N == {n \in Nat : \A B \in SUBSET A : Cardinality(B) = n => f[B] = g[B]}
<1>1. ASSUME NEW B \in SUBSET A, B # {}
      PROVE  /\ Chosen(B) \in B /\ IsFiniteSet(B)
             /\ Cardinality(B \ {Chosen(B)}) = Cardinality(B) - 1
  <2>1. Chosen(B) \in B
    BY <1>1 DEF Chosen
  <2>2. IsFiniteSet(B)
    BY FS_Subset
  <2> QED
    BY <2>1, <2>2, FS_RemoveElement
<1>2. \A B \in SUBSET A : B \in SUBSET S /\ B \in SUBSET T
  OBVIOUS
<1>3. \A B \in SUBSET S : f[B] = IF B = {} THEN 0 ELSE Chosen(B).saved + f[B \ {Chosen(B)}]
  BY DEF Along
<1>4. \A B \in SUBSET T : g[B] = IF B = {} THEN 0 ELSE Chosen(B).saved + g[B \ {Chosen(B)}]
  BY DEF Along
<1>5. 0 \in N
  <2>1. ASSUME NEW B \in SUBSET A, Cardinality(B) = 0 PROVE f[B] = g[B]
    <3>1. B = {}
      BY <2>1, FS_Subset, FS_EmptySet
    <3> QED
      BY <1>2, <1>3, <1>4, <3>1
  <2> QED
    BY <2>1
<1>6. ASSUME NEW n \in Nat, n \in N PROVE n + 1 \in N
  <2> SUFFICES ASSUME NEW B \in SUBSET A, Cardinality(B) = n + 1 PROVE f[B] = g[B]
    OBVIOUS
  <2>1. B # {}
    BY FS_EmptySet
  <2>2. PICK C \in SUBSET A : C = B \ {Chosen(B)}
    OBVIOUS
  <2>3. f[C] = g[C]
    BY <1>1, <1>6, <2>1, <2>2
  <2> QED
    BY <1>2, <1>3, <1>4, <2>1, <2>2, <2>3
<1>7. Nat \subseteq N
  <2> HIDE DEF N
  <2> QED
    BY <1>5, <1>6, Induction
<1>8. Cardinality(A) \in Nat
  BY FS_CardinalityType
<1> QED
  BY <1>7, <1>8

\* Total adds up.
LEMMA TotalUnfolds ==
  ASSUME NEW S, Entries(S)
  PROVE  /\ Total(S) \in Nat
         /\ Total(S) = IF S = {} THEN 0 ELSE Chosen(S).saved + Total(S \ {Chosen(S)})
<1>1. PICK f : f = (CHOOSE h : h = Along(S, h))
  OBVIOUS
<1>2. PICK e \in [SUBSET S -> Nat] : e = Along(S, e)
  BY AlongExists
<1>3. f = Along(S, f)
  BY <1>1, <1>2
<1>4. Total(S) = f[S]
  BY <1>1, TotalIs
<1>5. f[S] = e[S]
  BY <1>2, <1>3, AlongAgree DEF Entries
<1>6. f[S] = IF S = {} THEN 0 ELSE Chosen(S).saved + f[S \ {Chosen(S)}]
  <2>1. \A B \in SUBSET S : f[B] = IF B = {} THEN 0 ELSE Chosen(B).saved + f[B \ {Chosen(B)}]
    BY <1>3 DEF Along
  <2> QED
    BY <2>1
<1>7. PICK T : T = S \ {Chosen(S)}
  OBVIOUS
<1>8. Entries(T) /\ T \subseteq S
  BY <1>7, FS_Subset DEF Entries
<1>9. PICK g : g = (CHOOSE h : h = Along(T, h))
  OBVIOUS
<1>10. PICK d \in [SUBSET T -> Nat] : d = Along(T, d)
  BY <1>8, AlongExists
<1>11. g = Along(T, g)
  BY <1>9, <1>10
<1>12. Total(T) = g[T]
  BY <1>9, TotalIs
<1>13. f[T] = g[T]
  BY <1>3, <1>8, <1>11, AlongAgree DEF Entries
<1>14. Total(S) \in Nat
  BY <1>2, <1>4, <1>5
<1>15. f[S \ {Chosen(S)}] = Total(S \ {Chosen(S)})
  BY <1>7, <1>12, <1>13
<1> QED
  BY <1>4, <1>6, <1>14, <1>15

\* Whichever entry is taken out first.
LEMMA TotalWithout ==
  ASSUME NEW S, Entries(S), NEW x \in S
  PROVE  Total(S) = x.saved + Total(S \ {x})
<1> DEFINE N == {n \in Nat : \A T \in SUBSET S : Cardinality(T) = n =>
                               \A y \in T : Total(T) = y.saved + Total(T \ {y})}
<1>1. ASSUME NEW T \in SUBSET S PROVE Entries(T) /\ IsFiniteSet(T)
  BY FS_Subset DEF Entries
<1>2. 0 \in N
  BY <1>1, FS_EmptySet
<1>3. ASSUME NEW n \in Nat, n \in N PROVE n + 1 \in N
  <2> SUFFICES ASSUME NEW T \in SUBSET S, Cardinality(T) = n + 1, NEW y \in T
               PROVE  Total(T) = y.saved + Total(T \ {y})
    OBVIOUS
  <2>1. PICK z : z = Chosen(T)
    OBVIOUS
  <2>2. z \in T
    BY <2>1 DEF Chosen
  <2>3. Entries(T) /\ Entries(T \ {y}) /\ Entries(T \ {z}) /\ Entries((T \ {y}) \ {z})
    BY <1>1
  <2>4. Total(T) = z.saved + Total(T \ {z})
    BY <2>1, <2>2, <2>3, TotalUnfolds
  <2>5. CASE y = z
    BY <2>4, <2>5
  <2>6. CASE y # z
    <3>1. Cardinality(T \ {z}) = n /\ Cardinality(T \ {y}) = n
      <4>1. /\ Cardinality(T \ {z}) = Cardinality(T) - 1
            /\ Cardinality(T \ {y}) = Cardinality(T) - 1
        BY <1>1, <2>2, FS_RemoveElement
      <4> QED
        BY <4>1
    <3>2. T \ {z} \in SUBSET S /\ T \ {y} \in SUBSET S /\ y \in T \ {z} /\ z \in T \ {y}
      BY <2>2, <2>6
    <3>3. Total(T \ {z}) = y.saved + Total((T \ {z}) \ {y})
      BY <1>3, <3>1, <3>2
    <3>4. Total(T \ {y}) = z.saved + Total((T \ {y}) \ {z})
      BY <1>3, <3>1, <3>2
    <3>5. (T \ {z}) \ {y} = (T \ {y}) \ {z}
      OBVIOUS
    <3>6. PICK a \in Nat, b \in Nat, c \in Nat :
            a = y.saved /\ b = z.saved /\ c = Total((T \ {y}) \ {z})
      BY <2>2, <2>3, TotalUnfolds DEF Entries
    <3> QED
      BY <2>4, <3>3, <3>4, <3>5, <3>6
  <2> QED
    BY <2>5, <2>6
<1>4. Nat \subseteq N
  <2> HIDE DEF N
  <2> QED
    BY <1>2, <1>3, Induction
<1>5. Cardinality(S) \in Nat
  BY <1>1, FS_CardinalityType
<1> QED
  BY <1>4, <1>5

\* The totals of two sets with nothing in common add up.
LEMMA TotalOfBoth ==
  ASSUME NEW S, NEW T, Entries(S), Entries(T), S \cap T = {}
  PROVE  Total(S \cup T) = Total(S) + Total(T)
<1> DEFINE G == {A \in SUBSET S : Total(A \cup T) = Total(A) + Total(T)}
<1>1. ASSUME NEW A \in SUBSET S PROVE Entries(A) /\ Entries(A \cup T)
  BY FS_Subset, FS_Union DEF Entries
<1>2. {} \in G
  <2>1. Total({}) = 0 /\ Total(T) \in Nat
    BY <1>1, TotalUnfolds
  <2>2. {} \cup T = T
    OBVIOUS
  <2> QED
    BY <2>1, <2>2
<1>3. ASSUME NEW A \in SUBSET S, NEW x \in S, A \in G, x \notin A
      PROVE  A \cup {x} \in G
  <2>1. PICK B \in SUBSET S : B = A \cup {x}
    OBVIOUS
  <2>2. /\ Entries(B) /\ Entries(B \cup T) /\ Entries(A) /\ Entries(A \cup T)
        /\ B \ {x} = A /\ (B \cup T) \ {x} = A \cup T /\ x \in B
    BY <1>1, <1>3, <2>1
  <2>3. Total(B) = x.saved + Total(A) /\ Total(B \cup T) = x.saved + Total(A \cup T)
    BY <2>2, TotalWithout
  <2>4. Total(A \cup T) = Total(A) + Total(T)
    BY <1>3
  <2>5. PICK a \in Nat, b \in Nat, c \in Nat : a = x.saved /\ b = Total(A) /\ c = Total(T)
    BY <2>2, TotalUnfolds DEF Entries
  <2>6. Total(B \cup T) = Total(B) + Total(T)
    BY <2>3, <2>4, <2>5
  <2> QED
    BY <2>1, <2>6
<1>4. S \in G
  <2> HIDE DEF G
  <2>1. IsFiniteSet(S)
    BY DEF Entries
  <2>2. \A A \in SUBSET S, x \in S : A \in G /\ x \notin A => A \cup {x} \in G
    BY <1>3
  <2> QED
    BY <1>2, <2>1, <2>2, SetInduction
<1> QED
  BY <1>4

\* What is in a set alone comes to no more.
LEMMA TotalOfPart ==
  ASSUME NEW S, NEW T, Entries(S), T \subseteq S
  PROVE  Total(T) <= Total(S)
<1>1. Entries(T) /\ Entries(S \ T)
  BY FS_Subset DEF Entries
<1>2. Total(T \cup (S \ T)) = Total(T) + Total(S \ T)
  BY <1>1, TotalOfBoth
<1>3. T \cup (S \ T) = S
  OBVIOUS
<1>4. PICK a \in Nat, b \in Nat : a = Total(T) /\ b = Total(S \ T)
  BY <1>1, TotalUnfolds
<1>5. Total(S) = Total(T) + Total(S \ T)
  BY <1>2, <1>3
<1> QED
  BY <1>4, <1>5

\* What a report says is the parts that were saved but for half a unit.
Fits(units, parts) == 2 * Unit * units <= 2 * parts + Unit

\* Sums of products.
LEMMA Distributes ==
  ASSUME NEW a \in Nat, NEW b \in Nat, NEW u \in Nat
  PROVE  /\ 2 * u * (a + b) = 2 * u * a + 2 * u * b
         /\ u * (a + 1) = u * a + u
         /\ u * a \in Nat /\ 2 * u * a \in Nat
OBVIOUS

\* A rounded number is a number of units that fits.
LEMMA RoundedFits ==
  ASSUME NEW parts \in Nat
  PROVE  Rounded(parts) \in Nat /\ Fits(Rounded(parts), parts)
<1>1. PICK n \in Nat, d \in Nat \ {0} : n = 2 * parts + Unit /\ d = 2 * Unit
  BY UsageAssumption
<1>2. n \div d \in Nat /\ d * (n \div d) <= n
  OBVIOUS
<1> QED
  BY <1>1, <1>2 DEF Rounded, Fits

\* Reports of different months, each of which fits what the runs of its month saved,
\* together fit what all runs did, but for half a unit each.
LEMMA MonthsAddUp ==
  ASSUME NEW made, NEW runs, Entries(made), Entries(runs),
         \A s, t \in made : s.month = t.month => s = t,
         \A s \in made : Fits(s.saved, Total({r \in runs : r.month = s.month}))
  PROVE  2 * Unit * Total(made) <= 2 * Total(runs) + Unit * Cardinality(made)
<1> DEFINE In(s) == {r \in runs : r.month = s.month}
           Of(A) == {r \in runs : \E s \in A : r.month = s.month}
           Fit(A) == 2 * Unit * Total(A) <= 2 * Total(Of(A)) + Unit * Cardinality(A)
           G == {A \in SUBSET made : Fit(A)}
<1>1. ASSUME NEW A \in SUBSET made PROVE Entries(A) /\ Entries(Of(A)) /\ Of(A) \subseteq runs
  <2>1. Of(A) \subseteq runs
    OBVIOUS
  <2> HIDE DEF Of
  <2> QED
    BY <2>1, FS_Subset DEF Entries
<1>2. {} \in G
  <2>1. Of({}) = {}
    OBVIOUS
  <2>2. Entries({})
    BY <1>1
  <2>3. Total({}) = 0 /\ Cardinality({}) = 0
    BY <2>2, TotalUnfolds, FS_EmptySet
  <2> QED
    BY <2>1, <2>3, UsageAssumption
<1>3. ASSUME NEW A \in SUBSET made, NEW s \in made, A \in G, s \notin A
      PROVE  A \cup {s} \in G
  <2>1. PICK B \in SUBSET made : B = A \cup {s}
    OBVIOUS
  <2>2. Of(B) = Of(A) \cup In(s) /\ Of(A) \cap In(s) = {} /\ In(s) \subseteq runs
    BY <1>3, <2>1
  <2> HIDE DEF Of
  <2>3. Fits(s.saved, Total(In(s)))
    OBVIOUS
  <2> HIDE DEF In
  <2>4. Entries(A) /\ Entries(B) /\ Entries(Of(A)) /\ Entries(Of(B))
    BY <1>1
  <2>5. Entries(In(s))
    BY <2>2, FS_Subset DEF Entries
  <2>6. Total(Of(B)) = Total(Of(A)) + Total(In(s))
    BY <2>2, <2>4, <2>5, TotalOfBoth
  <2>7. B \ {s} = A /\ s \in B
    BY <1>3, <2>1
  <2>8. Total(B) = s.saved + Total(A)
    BY <2>4, <2>7, TotalWithout
  <2>9. 2 * Unit * Total(A) <= 2 * Total(Of(A)) + Unit * Cardinality(A)
    BY <1>3
  <2>10. Cardinality(B) = Cardinality(A) + 1 /\ Cardinality(A) \in Nat
    BY <1>3, <2>1, <2>4, FS_AddElement, FS_CardinalityType DEF Entries
  <2>11. PICK a \in Nat, b \in Nat, c \in Nat, d \in Nat, e \in Nat, u \in Nat :
           /\ a = s.saved /\ b = Total(A) /\ c = Total(Of(A)) /\ d = Total(In(s))
           /\ e = Cardinality(A) /\ u = Unit
    BY <2>4, <2>5, <2>10, TotalUnfolds, UsageAssumption DEF Entries
  <2>12. 2 * u * a <= 2 * d + u /\ 2 * u * b <= 2 * c + u * e
    BY <2>3, <2>9, <2>11 DEF Fits
  <2>13. 2 * u * (a + b) <= 2 * (c + d) + u * (e + 1)
    <3>1. PICK x \in Nat, y \in Nat, z \in Nat : x = 2 * u * a /\ y = 2 * u * b /\ z = u * e
      BY Distributes
    <3>2. 2 * u * (a + b) = x + y /\ u * (e + 1) = z + u
      BY <3>1, Distributes
    <3>3. x <= 2 * d + u /\ y <= 2 * c + z
      BY <2>12, <3>1
    <3> QED
      BY <3>2, <3>3
  <2>14. 2 * Unit * Total(B) <= 2 * Total(Of(B)) + Unit * Cardinality(B)
    BY <2>6, <2>8, <2>10, <2>11, <2>13
  <2> QED
    BY <2>1, <2>14
<1>4. made \in G
  <2> HIDE DEF G
  <2>1. IsFiniteSet(made)
    BY DEF Entries
  <2>2. \A A \in SUBSET made, x \in made : A \in G /\ x \notin A => A \cup {x} \in G
    BY <1>3
  <2> QED
    BY <1>2, <2>1, <2>2, SetInduction
<1>5. /\ 2 * Unit * Total(made) <= 2 * Total(Of(made)) + Unit * Cardinality(made)
      /\ Of(made) \subseteq runs
  BY <1>4
<1>6. Total(Of(made)) <= Total(runs)
  <2> HIDE DEF Of
  <2> QED
    BY <1>5, TotalOfPart
<1>7. /\ Total(Of(made)) \in Nat /\ Total(runs) \in Nat
      /\ 2 * Unit * Total(made) \in Nat /\ Unit * Cardinality(made) \in Nat
  <2>1. Entries(Of(made)) /\ Total(made) \in Nat /\ Cardinality(made) \in Nat
    BY <1>1, TotalUnfolds, FS_CardinalityType DEF Entries
  <2> HIDE DEF Of
  <2> QED
    BY <2>1, TotalUnfolds, UsageAssumption, Distributes
<1> HIDE DEF Of
<1>8. PICK a \in Nat, b \in Nat, c \in Nat, d \in Nat :
        /\ a = 2 * Unit * Total(made) /\ b = Total(Of(made)) /\ c = Total(runs)
        /\ d = Unit * Cardinality(made)
  BY <1>7
<1>9. a <= 2 * b + d /\ b <= c
  BY <1>5, <1>6, <1>8
<1> QED
  BY <1>8, <1>9

\* The orchestrated runs of a client in a month.
Own(client, m) == {r \in runLogs : r.client = client /\ r.live /\ r.month = m}

\* Reports, one at most for a client and month, that fit what the runs saved.
GoodReports(R) ==
  /\ Entries(R)
  /\ \A s \in R : Fits(s.saved, Total(Own(s.client, s.month)))
  /\ \A s, t \in R : s.client = t.client /\ s.month = t.month => s = t

UsageInv ==
  /\ Entries(runLogs) /\ \A r \in running : r.saved \in Nat
  /\ DOMAIN generator = Generators
  /\ GoodReports(reports)
  /\ \A g \in Generators : generator[g] # NotMaking => GoodReports(generator[g].reports)

\* More runs leave good reports good.
LEMMA RunsAdd ==
  ASSUME Entries(runLogs'), runLogs \subseteq runLogs', NEW R, GoodReports(R)
  PROVE  GoodReports(R)'
<1>1. ASSUME NEW s \in R PROVE Fits(s.saved, Total(Own(s.client, s.month)))'
  <2>1. PICK old, new : old = Own(s.client, s.month) /\ new = Own(s.client, s.month)'
    OBVIOUS
  <2>2. old \subseteq new /\ new \subseteq runLogs'
    BY <2>1 DEF Own
  <2>3. Entries(new) /\ Entries(old)
    BY <2>2, FS_Subset DEF Entries
  <2>4. Total(old) <= Total(new)
    BY <2>2, <2>3, TotalOfPart
  <2>5. PICK a \in Nat, b \in Nat, c \in Nat : a = s.saved /\ b = Total(old) /\ c = Total(new)
    BY <2>3, TotalUnfolds DEF GoodReports, Entries
  <2>6. Fits(a, b) /\ b <= c
    BY <2>1, <2>4, <2>5 DEF GoodReports
  <2>7. Fits(s.saved, Total(new))
    <3>1. PICK x \in Nat, u \in Nat : x = 2 * Unit * a /\ u = Unit
      BY Distributes, UsageAssumption
    <3>2. x <= 2 * b + u
      BY <2>6, <3>1 DEF Fits
    <3>3. x <= 2 * c + u
      BY <2>6, <3>2
    <3> QED
      BY <2>5, <3>1, <3>3 DEF Fits
  <2> QED
    BY <2>1, <2>7 DEF Total, MapThenSumSet, MapThenFoldSet, Fits
<1> QED
  BY <1>1 DEF GoodReports

\* What a generator makes is good.
LEMMA MadeIsGood ==
  ASSUME Entries(runLogs), NEW m
  PROVE  GoodReports({MonthlyReport(client, m) : client \in {r.client : r \in runLogs}})
<1> DEFINE Made(A) == {MonthlyReport(r.client, m) : r \in A}
<1>1. ASSUME NEW client
      PROVE  LET s == MonthlyReport(client, m) IN
             /\ s.client = client /\ s.month = m
             /\ Fits(s.saved, Total(Own(client, m))) /\ s.saved \in Nat
  <2>1. Own(client, m) = {r \in {x \in runLogs : x.client = client /\ InMonth(x, m)} : r.live}
    BY DEF Own, InMonth
  <2>2. Entries(Own(client, m))
    <3>1. Own(client, m) \subseteq runLogs
      BY DEF Own
    <3> QED
      BY <3>1, FS_Subset DEF Entries
  <2>3. Total(Own(client, m)) \in Nat
    BY <2>2, TotalUnfolds
  <2>4. MonthlyReport(client, m).saved = Rounded(Total(Own(client, m)))
    BY <2>1 DEF MonthlyReport
  <2> QED
    BY <2>3, <2>4, RoundedFits DEF MonthlyReport
<1>2. IsFiniteSet(Made(runLogs))
  <2> DEFINE G == {A \in SUBSET runLogs : IsFiniteSet(Made(A))}
  <2>1. {} \in G
    <3>1. Made({}) = {}
      OBVIOUS
    <3> QED
      BY <3>1, FS_EmptySet
  <2>2. ASSUME NEW A \in SUBSET runLogs, NEW x \in runLogs, A \in G
        PROVE  A \cup {x} \in G
    <3>1. Made(A \cup {x}) = Made(A) \cup {MonthlyReport(x.client, m)}
      OBVIOUS
    <3>2. IsFiniteSet(Made(A))
      BY <2>2
    <3> HIDE DEF Made
    <3>3. IsFiniteSet(Made(A \cup {x}))
      <4>1. PICK M, e : M = Made(A) /\ e = MonthlyReport(x.client, m)
        OBVIOUS
      <4>2. IsFiniteSet(M \cup {e})
        BY <3>2, <4>1, FS_AddElement
      <4> QED
        BY <3>1, <4>1, <4>2
    <3> QED
      BY <3>3
  <2> HIDE DEF G
  <2>3. runLogs \in G
    BY <2>1, <2>2, SetInduction DEF Entries
  <2> QED
    BY <2>3 DEF G
<1>3. {MonthlyReport(client, m) : client \in {r.client : r \in runLogs}} = Made(runLogs)
  OBVIOUS
<1>4. PICK R : R = Made(runLogs)
  OBVIOUS
<1>5. \A s \in R : \E client : s = MonthlyReport(client, m)
  BY <1>4
<1>6. /\ \A s \in R : s.saved \in Nat /\ Fits(s.saved, Total(Own(s.client, s.month)))
      /\ \A s, t \in R : s.client = t.client => s = t
  BY <1>1, <1>5
<1>7. GoodReports(R)
  BY <1>2, <1>4, <1>6 DEF GoodReports, Entries
<1> QED
  BY <1>3, <1>4, <1>7

\* Replacing the reports of the same clients and periods leaves good reports.
LEMMA ReplacedIsGood ==
  ASSUME NEW stored, NEW made, GoodReports(stored), GoodReports(made)
  PROVE  GoodReports({s \in stored : \A r \in made : s \in WithoutPeriod(stored, r)} \cup made)
<1>1. PICK kept : kept = {s \in stored : \A r \in made : s \in WithoutPeriod(stored, r)}
  OBVIOUS
<1>2. /\ kept \subseteq stored
      /\ \A s \in kept, r \in made : ~(s.client = r.client /\ s.month = r.month)
  BY <1>1 DEF WithoutPeriod
<1>3. IsFiniteSet(kept \cup made)
  BY <1>2, FS_Subset, FS_Union DEF GoodReports, Entries
<1>4. GoodReports(kept \cup made)
  BY <1>2, <1>3 DEF GoodReports, Entries
<1> QED
  BY <1>1, <1>4

\* A month of a client is billed once, and a client never more than its orchestrated
\* runs held back, but for the half unit that rounding may add to each report.
THEOREM NothingIsBilledTwice == UsageSpec => []NothingBilledTwice
<1>1. UsageInit => UsageInv
  BY FS_EmptySet DEF UsageInit, UsageInv, GoodReports, Entries
<1>2. ASSUME UsageInv, [UsageNext]_usageVars PROVE UsageInv'
  <2>1. CASE UNCHANGED <<runLogs, reports, generator>> /\ \A r \in running' : r \in running \/ r.saved \in Nat
    <3>1. Entries(runLogs)' /\ runLogs \subseteq runLogs'
      BY <1>2, <2>1 DEF UsageInv, Entries
    <3>2. \A R : GoodReports(R) => GoodReports(R)'
      BY <3>1, RunsAdd DEF Entries
    <3>3. GoodReports(reports)'
      BY <1>2, <2>1, <3>2 DEF UsageInv
    <3>4. generator' = generator /\ \A r \in running' : r.saved \in Nat
      BY <1>2, <2>1 DEF UsageInv
    <3> QED
      BY <1>2, <3>1, <3>2, <3>3, <3>4 DEF UsageInv, Entries
  <2>2. CASE \E id \in Runs, client \in Clients, live, halted \in BOOLEAN,
                persuadable \in Costs, others \in Costs :
               RunAnswered(id, client, live, halted, persuadable, others)
    <3>1. PICK id \in Runs, client \in Clients, live \in BOOLEAN, halted \in BOOLEAN,
               persuadable \in Costs, others \in Costs :
                 RunAnswered(id, client, live, halted, persuadable, others)
      BY <2>2
    <3>2. PICK saved : saved = Saved(live /\ halted, persuadable, others)
      OBVIOUS
    <3>3. saved \in Nat
      BY <3>2, UsageAssumption DEF Saved
    <3>4. /\ running' = running \cup {[id |-> id, client |-> client, live |-> live,
                                       halted |-> live /\ halted, month |-> month, saved |-> saved]}
          /\ UNCHANGED <<runLogs, reports, generator>>
      BY <3>1, <3>2 DEF RunAnswered
    <3> QED
      BY <2>1, <3>3, <3>4
  <2>3. CASE \E r \in running : StoreRun(r)
    <3>1. PICK r \in running : StoreRun(r)
      BY <2>3
    <3>2. /\ running' = running \ {r} /\ runLogs' = runLogs \cup {r}
          /\ reports' = reports /\ generator' = generator
      BY <3>1 DEF StoreRun
    <3>3. Entries(runLogs') /\ runLogs \subseteq runLogs'
      BY <1>2, <3>2, FS_AddElement DEF UsageInv, Entries
    <3>4. \A R : GoodReports(R) => GoodReports(R)'
      BY <3>3, RunsAdd
    <3>5. GoodReports(reports)'
      BY <1>2, <3>2, <3>4 DEF UsageInv
    <3> QED
      BY <1>2, <3>2, <3>3, <3>4 DEF UsageInv, Entries
  <2>4. CASE \E g \in Generators, m \in Months : MakeReports(g, m)
    <3>1. PICK g \in Generators, m \in Months : MakeReports(g, m)
      BY <2>4
    <3>2. PICK made : made = {MonthlyReport(client, m) : client \in {r.client : r \in runLogs}}
      OBVIOUS
    <3>3. GoodReports(made)
      BY <1>2, <3>2, MadeIsGood DEF UsageInv
    <3>4. /\ generator' = [generator EXCEPT ![g] = [pc |-> "made", reports |-> made]]
          /\ UNCHANGED <<runLogs, running, reports>>
      BY <3>1, <3>2 DEF MakeReports
    <3> QED
      BY <1>2, <3>3, <3>4 DEF UsageInv, GoodReports, Own, Entries
  <2>5. CASE \E g \in Generators : StoreReports(g)
    <3>1. PICK g \in Generators : StoreReports(g)
      BY <2>5
    <3>2. PICK made, kept :
            /\ made = generator[g].reports
            /\ kept = {s \in reports : \A r \in made : s \in WithoutPeriod(reports, r)} \cup made
      OBVIOUS
    <3>3. GoodReports(made)
      BY <1>2, <3>1, <3>2 DEF UsageInv, StoreReports
    <3>4. GoodReports(kept)
      BY <1>2, <3>2, <3>3, ReplacedIsGood DEF UsageInv
    <3>5. /\ reports' = kept /\ generator' = [generator EXCEPT ![g] = NotMaking]
          /\ UNCHANGED <<runLogs, running>>
      BY <3>1, <3>2 DEF StoreReports
    <3> QED
      BY <1>2, <3>4, <3>5 DEF UsageInv, GoodReports, Own, Entries
  <2> QED
    BY <1>2, <2>1, <2>2, <2>3, <2>4, <2>5
    DEF UsageNext, LoseRun, ReportOutcomes, TrackEvent, MonthPasses, usageVars
<1>3. UsageInv => NothingBilledTwice
  <2> SUFFICES ASSUME UsageInv, NEW client \in Clients
               PROVE  2 * Unit * Total({s \in reports : s.client = client})
                        <= 2 * Total({r \in runLogs : r.client = client /\ r.live})
                             + Unit * Cardinality({s \in reports : s.client = client})
    BY DEF NothingBilledTwice, UsageInv, GoodReports
  <2>1. PICK made, runs : /\ made = {s \in reports : s.client = client}
                          /\ runs = {r \in runLogs : r.client = client /\ r.live}
    OBVIOUS
  <2>2. Entries(made) /\ Entries(runs)
    BY <2>1, FS_Subset DEF UsageInv, GoodReports, Entries
  <2>3. \A s \in made : Own(s.client, s.month) = {r \in runs : r.month = s.month}
    BY <2>1 DEF Own
  <2>4. /\ \A s, t \in made : s.month = t.month => s = t
        /\ \A s \in made : Fits(s.saved, Total({r \in runs : r.month = s.month}))
    BY <2>1, <2>3 DEF UsageInv, GoodReports
  <2>5. 2 * Unit * Total(made) <= 2 * Total(runs) + Unit * Cardinality(made)
    BY <2>2, <2>4, MonthsAddUp
  <2> QED
    BY <2>1, <2>5
<1> QED
  BY <1>1, <1>2, <1>3, PTL DEF UsageSpec

=============================================================================
