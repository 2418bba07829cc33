------------------------------ MODULE RateLimiter ------------------------------
(***************************************************************************)
(* checkRateLimit of src/server.js: attempts are counted by bucket and     *)
(* address in a window that starts with the first of them, in one map      *)
(* that is swept when it grows too large.  The call is synchronous.        *)
(***************************************************************************)
EXTENDS FiniteSets, Integers

CONSTANTS
  Callers,      \* keys: bucket and address
  Allowed,      \* policy.max
  Window,       \* policy.windowMs
  Sweeps,       \* the map is swept when it holds more keys
  MaxTime       \* bound: the clock

ASSUME LimiterAssumption == {Allowed, Window, Sweeps, MaxTime} \subseteq Nat

VARIABLES
  attempts,     \* authAttempts
  time,         \* Date.now()
  passed        \* how many calls each caller got through at each time

limiterVars == <<attempts, time, passed>>

LimiterTypeOK ==
  /\ DOMAIN attempts \subseteq Callers
  /\ \A k \in DOMAIN attempts : attempts[k] \in [count : Nat, resetAt : Nat]
  /\ time \in 0..MaxTime
  /\ passed \in [Callers -> [0..MaxTime -> Nat]]

LimiterInit ==
  /\ attempts = <<>>
  /\ time = 0
  /\ passed = [k \in Callers |-> [t \in 0..MaxTime |-> 0]]

\* The entry of the caller, restarted when its window is over.
Entry(k) ==
  IF k \in DOMAIN attempts /\ attempts[k].resetAt >= time
    THEN attempts[k] ELSE [count |-> 0, resetAt |-> time + Window]

\* Mutant: a map that is too large is emptied.
SweptAll(table) ==
  IF Cardinality(DOMAIN table) > Sweeps THEN <<>> ELSE table

\* Entries whose window is over leave the map when it is too large.
Swept(table) ==
  [k \in {x \in DOMAIN table : Cardinality(DOMAIN table) <= Sweeps \/ table[x].resetAt >= time}
     |-> table[k]]

\* checkRateLimit; counts past the limit are all the same.
CheckRateLimit(k) ==
  LET counted == [Entry(k) EXCEPT !.count = IF @ > Allowed THEN @ ELSE @ + 1] IN
  /\ attempts' = Swept([x \in DOMAIN attempts \cup {k} |->
                         IF x = k THEN counted ELSE attempts[x]])
  /\ passed' = IF counted.count > Allowed THEN passed
               ELSE [passed EXCEPT ![k][time] = @ + 1]
  /\ UNCHANGED time

LimiterNext ==
  \/ \E k \in Callers : CheckRateLimit(k)
  \/ time < MaxTime /\ time' = time + 1 /\ UNCHANGED <<attempts, passed>>

LimiterSpec == LimiterInit /\ [][LimiterNext]_limiterVars

-----------------------------------------------------------------------------
(* Properties                                                              *)

\* What a row of numbers comes to before each time.
SumBefore(row) ==
  LET sum[t \in 0..(MaxTime + 1)] == IF t = 0 THEN 0 ELSE sum[t - 1] + row[t - 1] IN sum

PassedBetween(k, from, to) == SumBefore(passed[k])[to + 1] - SumBefore(passed[k])[from]

\* Two windows may meet, but no caller ever gets more than twice the limit
\* through in a time as long as a window, wherever it begins and whatever the
\* sweeps that other callers cause take away.
TwiceTheLimit ==
  \A k \in Callers, from \in 0..MaxTime :
    from + Window <= MaxTime => PassedBetween(k, from, from + Window) <= 2 * Allowed

=============================================================================
