------------------------------ MODULE PilotSituation ------------------------------
(***************************************************************************)
(* What an organization's records come to for whoever looks at a pilot     *)
(* from outside: the stage of the newest contract, the finance status of   *)
(* the newest ledger, the newest control room, the analyses and the        *)
(* experiments on them.  And what one transaction of somebody else may     *)
(* make of that.                                                           *)
(*                                                                         *)
(* PilotEvidence reads it while it changes.  That PilotRecords and         *)
(* ExperimentRegistry change it in no other way is stated there.           *)
(***************************************************************************)
EXTENDS Naturals, Sequences

ContractStages == <<"draft", "approved", "locked", "experiment_running", "outcome_review", "closed">>
RoomStages == <<"draft", "kickoff", "data_ready", "experiment_running", "outcome_pending",
                "decision_ready", "closed">>
StageRank(stages, s) == CHOOSE i \in DOMAIN stages : stages[i] = s

\* No record yet: derivedPilotContract, fallbackLedger, fallbackWorkflow.  "ahead" is
\* a room whose present stage was called completed when it was created.
Nothing == "none"
NoRoom == [life |-> "draft", ahead |-> FALSE, critical |-> FALSE]

Situation ==
  [contract : {ContractStages[i] : i \in DOMAIN ContractStages} \cup {Nothing},
   finance : {Nothing, "not_verified", "submitted", "verified", "rejected"},
   room : [life : {RoomStages[i] : i \in DOMAIN RoomStages},
           ahead : BOOLEAN, critical : BOOLEAN],
   analyses : Seq(BOOLEAN),      \* statusFromReadiness is "ready"
   experiments : Seq([analysis : Nat, verified : BOOLEAN, outcomes : Nat])]

\* An analysis is stored together with the experiment it opens.
Studied(s) ==
  LET studies == {s.experiments[i].analysis : i \in DOMAIN s.experiments} IN
  studies = 1..Len(s.analyses)

\* normalizeStages
Completed(room) ==
  IF room.life = "closed" THEN 7
  ELSE StageRank(RoomStages, room.life) - 1 + (IF room.ahead THEN 1 ELSE 0)

-----------------------------------------------------------------------------
(* The steps of the others                                                 *)

MoveContract(s) ==
  {[s EXCEPT !.contract = c] : c \in
     IF s.contract \in {Nothing, "closed"} THEN {"draft"}
     ELSE {ContractStages[StageRank(ContractStages, s.contract) + 1]}}

MoveLedger(s) ==
  {[s EXCEPT !.finance = f] : f \in
     {"not_verified"} \cup (CASE s.finance = "not_verified" -> {"submitted"}
                              [] s.finance = "submitted" -> {"verified", "rejected"}
                              [] OTHER -> {})}

MoveRoom(s) ==
  {[s EXCEPT !.room.critical = c] : c \in BOOLEAN}
  \cup {[s EXCEPT !.room = room] : room \in [life : {"draft"}, ahead : BOOLEAN, critical : BOOLEAN]}
  \cup (IF s.room.life = "closed" THEN {}
        ELSE {[s EXCEPT !.room = [life |-> RoomStages[StageRank(RoomStages, @.life) + 1],
                                  ahead |-> FALSE, critical |-> @.critical]]})

\* A transaction on one of the three.
MoveRecord(s) == MoveContract(s) \cup MoveLedger(s) \cup MoveRoom(s)

\* importCustomerAnalysis; registerProspectiveExperiment, whose analysis was the
\* newest and without an open pilot when it was read, and need not be any more;
\* importOutcomeAnalysis.
MoveStudy(s) ==
  LET With(a, v) == [analysis |-> a, verified |-> v, outcomes |-> 0] IN
  {[s EXCEPT !.analyses = Append(@, ready),
             !.experiments = Append(@, With(Len(s.analyses) + 1, FALSE))] : ready \in BOOLEAN}
  \cup {[s EXCEPT !.experiments = Append(@, With(a, TRUE))] : a \in DOMAIN s.analyses}
  \cup {[s EXCEPT !.experiments[i].outcomes = @ + 1] : i \in DOMAIN s.experiments}

=============================================================================
