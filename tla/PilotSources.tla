------------------------------- MODULE PilotSources -------------------------------
(***************************************************************************)
(* The contracts, ledgers and workflows of PilotRecords as their clients   *)
(* see them.  PilotEvidence and PilotWorkbench each describe these records *)
(* by a stage or two and by what requests may make of it; here the records *)
(* themselves are held to that description, however much a request of      *)
(* PilotRecords carries at once.                                           *)
(***************************************************************************)
EXTENDS PilotRecords, PilotSituation, PilotWorkbench

-----------------------------------------------------------------------------
(* Seen by an acceptance                                                   *)

\* getPilotDecisionContract
SeenContract == IF contracts = <<>> THEN Nothing ELSE Last(contracts).life

\* getPilotBusinessImpact
SeenFinance == IF ledgers = <<>> THEN Nothing ELSE LatestLedger.finance

\* getPilotControlRoom
SeenRoom ==
  IF workflows = <<>> THEN NoRoom
  ELSE [life |-> Newest.life,
        ahead |-> Newest.life # "closed" /\ Newest.stages[Newest.life].status = "completed",
        critical |-> OpenCritical]

SeenRecords == [contract |-> SeenContract, finance |-> SeenFinance, room |-> SeenRoom]

-----------------------------------------------------------------------------
(* Seen by the workbench                                                   *)

StagesOf(some) == [i \in DOMAIN some |-> some[i].life]

SeenStages == [contract |-> StagesOf(contracts), ledger |-> StagesOf(ledgers),
               room |-> StagesOf(workflows)]

\* What a request of the workbench may be to the server.
Demand(k) == [creates : BOOLEAN, button : {"next"}, names : Rungs(k)]

-----------------------------------------------------------------------------
(* Properties                                                              *)

\* In one of the three, one stage on, or to a new record: as PilotEvidence says the
\* others move what an acceptance reads.
MovedAsRead == SeenRecords' \in {SeenRecords} \cup MoveRecord(SeenRecords)

\* The older records stay, and the newest one goes to the next stage or gets a
\* successor: as PilotWorkbench says the server does with some request it takes.
MovedAsServed(k) ==
  \/ SeenStages'[k] = SeenStages[k]
  \/ \E t \in Demand(k) :
       /\ Takes(k, t, StageOfNewest(SeenStages[k]))
       /\ SeenStages'[k] = Written(t, SeenStages[k])

\* What the acceptance and the workbench take for granted of the three records is
\* what these do, whatever mix of targets, patches, claims and figures a request
\* sends, also to a record that is not the newest.
MovesAsSeen ==
  [][recordVars' # recordVars =>
       MovedAsRead /\ \A k \in DOMAIN SeenStages : MovedAsServed(k)]_recordVars

=============================================================================
