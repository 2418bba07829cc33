-------------------------- MODULE ExperimentPromise --------------------------
(***************************************************************************)
(* What docs/experiment-registry.md promises of the experiment registry,   *)
(* with no requests, snapshots or clocks: registering a pilot and          *)
(* accepting an outcome are each one indivisible step.                     *)
(***************************************************************************)
EXTENDS FiniteSets, Naturals, Sequences

VARIABLES
  analyses,   \* how many customer analyses there are
  studies,    \* of each experiment, the analysis it was opened on
  pilots,     \* the registered pilots that wait for an outcome
  accepted    \* the outcomes, in the order they were accepted

vars == <<analyses, studies, pilots, accepted>>

Init == analyses = 0 /\ studies = <<>> /\ pilots = {} /\ accepted = <<>>

\* Customer data is analysed and opens an experiment.
Onboard ==
  /\ analyses' = analyses + 1
  /\ studies' = Append(studies, analyses + 1)
  /\ UNCHANGED <<pilots, accepted>>

\* A pilot is registered on analysis a only if none is open there.
Register(a) ==
  /\ \A p \in pilots : studies[p] # a
  /\ studies' = Append(studies, a)
  /\ pilots' = pilots \cup {Len(studies) + 1}
  /\ UNCHANGED <<analyses, accepted>>

\* An accepted outcome takes the next version of its experiment; it closes the pilot.
Accept(e) ==
  LET before == {o \in DOMAIN accepted : accepted[o].experiment = e} IN
  /\ accepted' = Append(accepted, [experiment |-> e, version |-> Cardinality(before) + 1])
  /\ pilots' = pilots \ {e}
  /\ UNCHANGED <<analyses, studies>>

Next ==
  \/ Onboard
  \/ \E a \in 1..analyses : Register(a)
  \/ \E e \in DOMAIN studies : Accept(e)

Spec == Init /\ [][Next]_vars

=============================================================================
