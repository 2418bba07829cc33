-------------------------- MODULE MCPilotAcceptance --------------------------
(* PilotAcceptance for TLC: requests and criteria are interchangeable.     *)
EXTENDS PilotAcceptance, TLC

AcceptanceSymmetry == Permutations(Requests) \cup Permutations(Criteria)

Missing == [status |-> "missing", evidence |-> FALSE, required |-> TRUE, checked |-> FALSE]

Optional == [Missing EXCEPT !.required = FALSE]

\* The defaults, a verification without evidence, and one that is not required.
SomeCriteria ==
  {Missing, [Missing EXCEPT !.status = "submitted"], [Missing EXCEPT !.status = "verified"], Optional}

Nothing == [customer |-> "not_requested", executive |-> "not_requested",
            package |-> FALSE, certification |-> "not_certified"]

\* Nothing, or all signatures and a package, with a certification that says blocked.
SomeClaims ==
  {Nothing, [customer |-> "accepted", executive |-> "approved",
             package |-> TRUE, certification |-> "blocked"]}

\* Bound: one record is worked on in all its criteria; of two, a criterion that is
\* not required stays as it was created.
RecordBound ==
  Len(records) > 1 =>
    \E k \in Criteria : \A i \in DOMAIN records : records[i].criteria[k] = Optional

BoundedSpec == Init /\ [][Next /\ RecordBound']_vars

=============================================================================
