------------------------------ MODULE PilotRecords ------------------------------
(***************************************************************************)
(* The three records an acceptance takes for evidence, side by side in the *)
(* document of one organization: its contracts, ledgers and workflows.     *)
(* Each of their handlers is one transaction (src/server.js), so requests  *)
(* of any number of clients are a sequence of these steps.                 *)
(***************************************************************************)
EXTENDS PilotContract, ImpactLedger, ControlRoom

recordVars == <<contracts, ledgers, workflows>>

RecordsInit == ContractInit /\ LedgerInit /\ RoomInit

RecordsNext ==
  \/ ContractNext /\ UNCHANGED <<ledgers, workflows>>
  \/ LedgerNext /\ UNCHANGED <<contracts, workflows>>
  \/ RoomNext /\ UNCHANGED <<contracts, ledgers>>

RecordsSpec == RecordsInit /\ [][RecordsNext]_recordVars

RecordsTypeOK == ContractTypeOK /\ LedgerTypeOK /\ RoomTypeOK

\* What an acceptance takes for evidence was earned: a stage the contract reached with
\* its approval on record, an impact finance signed with evidence, name and date, and a
\* rehearsal whose stages were all passed, whatever requests send or claim, in
\* whatever order.
EvidenceEarned == ApprovalOnRecord /\ VerifiedIsBacked /\ RehearsalNeedsStages

=============================================================================
