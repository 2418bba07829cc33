----------------------------- MODULE PilotWorkbench -----------------------------
(***************************************************************************)
(* The pilot lifecycle workbench of the browser (src/app.js) before the    *)
(* records of PilotContract, ImpactLedger, ControlRoom and PilotAcceptance.*)
(* Several pages are open on one organization.  A page draws its buttons   *)
(* from what it fetched, and a button stays as rendered until the next     *)
(* drawing; a reload fetches the records first and draws only after two    *)
(* more requests, so what the page knows may be ahead of what it shows.    *)
(* Only the pressed button is busy: a page may have several requests under *)
(* way.  A reply may be lost, and the button is then pressed again.        *)
(*                                                                         *)
(* A request names no record: the server applies it to the newest one, of  *)
(* which only the lifecycle matters here.  The four kinds of records do    *)
(* not disturb each other, so a behaviour is about one of them.            *)
(***************************************************************************)
EXTENDS Naturals, Sequences, SequencesExt

CONSTANTS
  Pages,       \* open pages
  MaxRecords,  \* bound: records of the kind
  MaxPresses   \* bound: buttons pressed

ASSUME WorkbenchAssumption == {MaxRecords, MaxPresses} \subseteq Nat

VARIABLES
  kind,      \* which card of the workbench
  records,   \* the lifecycles of the organization's records, the newest last
  known,     \* currentPilotLifecycle of each page
  rendered,     \* what renderPilotLifecycleWorkbench last rendered on each page
  tasks,     \* the handlers under way, and requests nobody waits for any more
  presses

workbenchVars == <<kind, records, known, rendered, tasks, presses>>

-----------------------------------------------------------------------------
(* Buttons and routes                                                      *)

Ladder(k) ==
  CASE k = "contract" -> <<"draft", "approved", "locked", "experiment_running",
                           "outcome_review", "closed">>
    [] k = "ledger" -> <<"draft", "submitted", "verified">>
    [] k = "room" -> <<"draft", "kickoff", "data_ready", "experiment_running",
                       "outcome_pending", "decision_ready", "closed">>
    [] k = "acceptance" -> <<"draft", "evidence_review", "customer_review",
                             "executive_review", "accepted">>

Rungs(k) == ToSet(Ladder(k)) \cup (IF k \in {"ledger", "acceptance"} THEN {"rejected"} ELSE {})
Final(k) == {Last(Ladder(k)), "rejected"}

\* nextContractStatus, nextPilotWorkflowStatus; "same" stands for null.
Following(k, s) ==
  LET up == {i \in 1..(Len(Ladder(k)) - 1) : Ladder(k)[i] = s} IN
  IF up = {} THEN "same" ELSE Ladder(k)[(CHOOSE i \in up : TRUE) + 1]

\* No record: the page then shows a draft that is not persisted.
NoRecord == "none"
Persisted(k) == Rungs(k)

\* renderPilotLifecycleWorkbench: when each button is enabled.
Enabling(k) ==
  CASE k = "contract" -> [save |-> {NoRecord, "draft", "approved"},
                          next |-> Persisted(k) \ Final(k)]
    [] k = "ledger" -> [save |-> {NoRecord, "draft"}, submitted |-> {"draft"},
                        verified |-> {"submitted"}, rejected |-> {"submitted"}]
    [] k = "room" -> [create |-> {NoRecord}, note |-> Persisted(k),
                      next |-> Persisted(k) \ Final(k)]
    [] k = "acceptance" -> [create |-> {NoRecord}, evidence |-> Persisted(k) \ Final(k),
                            note |-> Persisted(k),
                            customer_review |-> {"evidence_review"},
                            executive_review |-> {"customer_review"},
                            accepted |-> {"executive_review"},
                            rejected |-> {NoRecord} \cup (Persisted(k) \ Final(k))]

\* handlePilotAction and the submit handlers: the stage the body names.  What the
\* page knows at the click decides, not what it shows.  The form of the ledger sends
\* the status of finance along, which a ledger takes for a transition.
Naming(k, button, knows) ==
  CASE button = "next" -> Following(k, knows)
    [] button = "save" -> IF knows = NoRecord THEN "draft"
                          ELSE IF k = "ledger" /\ knows # "draft" THEN knows ELSE "same"
    [] button = "create" -> "draft"
    [] button = "note" -> "same"
    [] button = "evidence" -> "evidence_review"
    [] OTHER -> button

Creates(button, knows) == button = "create" \/ (button = "save" /\ knows = NoRecord)

\* Mutant: updatePilotContract without assertAllowedTransition.
AnyTransition(t, now) == now \notin {NoRecord, "closed"}

\* updatePilotContract: the stage the contract is in is no transition.
ContractTakes(t, now) ==
  /\ now \notin {NoRecord, "closed"}
  /\ t.names \in {"same", now, Following("contract", now)}

\* The guards of the four modules over the newest record, whose stage is "now":
\* createPilotContract and createAcceptance want no active record.  What else a
\* button asks for (a stage it keeps, a form, evidence) is left to the refusals.
Takes(k, t, now) ==
  IF t.creates THEN now = NoRecord \/ now \in Final(k) \/ k \in {"ledger", "room"}
  ELSE CASE k = "contract" -> ContractTakes(t, now)
         [] k = "ledger" -> \/ t.names = "same" /\ now = "draft"
                            \/ t.names # "same" /\ t.names = Following(k, now)
                            \/ t.names = "rejected" /\ now = "submitted"
         [] k = "room" -> /\ now # NoRecord
                          /\ t.button = "next" => t.names # "same" /\ t.names = Following(k, now)
         [] k = "acceptance" ->
              CASE t.names = "same"            -> now # NoRecord
                [] t.names = "evidence_review" -> now \in {"draft", "evidence_review"}
                [] t.names = "rejected"        -> now \notin Final(k) \cup {NoRecord}
                [] OTHER -> t.names = Following(k, now)

\* What the transaction makes of the records.
Written(t, stages) ==
  CASE t.creates -> Append(stages, "draft")
    [] ~t.creates /\ t.names # "same" -> [stages EXCEPT ![Len(stages)] = t.names]
    [] OTHER -> stages

-----------------------------------------------------------------------------
(* The pages                                                               *)

StageOfNewest(stages) == IF stages = <<>> THEN NoRecord ELSE Last(stages)

NewestStage == StageOfNewest(records)

Swapped(t, u) == tasks' = (tasks \ {t}) \cup {u}

\* A drawing replaces the buttons, also those that are busy.
DrawnBy(t) ==
  tasks' = {IF u.page = t.page THEN [u EXCEPT !.busy = FALSE] ELSE u : u \in tasks \ {t}}

\* A click or a submit.  "saw" is no part of the program: what the page had
\* fetched or shown when the button was pressed.
Press(p, button) ==
  /\ presses < MaxPresses
  /\ rendered[p] \in Enabling(kind)[button]
  /\ ~\E t \in tasks : t.page = p /\ t.button = button /\ t.busy
  /\ tasks' = tasks \cup {[at |-> "server", page |-> p, id |-> presses, button |-> button,
                           names |-> Naming(kind, button, known[p]),
                           creates |-> Creates(button, known[p]),
                           saw |-> {rendered[p], known[p]}, busy |-> TRUE,
                           fetched |-> NoRecord]}
  /\ presses' = presses + 1
  /\ UNCHANGED <<kind, records, known, rendered>>

\* A task that has no request any more, and fetches.
Reloading(p, id) ==
  [at |-> "answered", page |-> p, id |-> id, button |-> "refresh", names |-> "same",
   creates |-> FALSE, saw |-> {}, busy |-> FALSE, fetched |-> NoRecord]

\* loadDashboard: the whole page fetches and draws.
Refresh(p) ==
  /\ presses < MaxPresses
  /\ tasks' = tasks \cup {Reloading(p, presses)}
  /\ presses' = presses + 1
  /\ UNCHANGED <<kind, records, known, rendered>>

\* The handler's transaction.
Serve(t) ==
  /\ t.at \in {"server", "unattended"}
  /\ Takes(kind, t, NewestStage)
  /\ Len(records) < MaxRecords \/ ~t.creates
  /\ records' = Written(t, records)
  /\ IF t.at = "server"
     THEN Swapped(t, [Reloading(t.page, t.id) EXCEPT !.button = t.button, !.busy = t.busy])
     ELSE tasks' = tasks \ {t}
  /\ UNCHANGED <<kind, known, rendered, presses>>

\* A handler refuses (a guard, the form, missing evidence), or a fetch fails: the
\* page shows the error and does not reload.
GiveUp(t) ==
  /\ tasks' = tasks \ {t}
  /\ UNCHANGED <<kind, records, known, rendered, presses>>

\* The connection breaks, and the request is on its way still.
Abandon(t) ==
  /\ t.at = "server"
  /\ Swapped(t, [t EXCEPT !.at = "unattended", !.busy = FALSE])
  /\ UNCHANGED <<kind, records, known, rendered, presses>>

\* loadPilotLifecycle
Fetch(t) ==
  /\ t.at = "answered"
  /\ Swapped(t, [t EXCEPT !.at = "fetched", !.fetched = NewestStage])
  /\ UNCHANGED <<kind, records, known, rendered, presses>>

\* reloadPilotLifecycle assigns, and draws two requests later what the page knows
\* by then; a refresh does both at once.
Learn(t) ==
  /\ t.at = "fetched"
  /\ known' = [known EXCEPT ![t.page] = t.fetched]
  /\ IF t.button = "refresh"
     THEN /\ rendered' = [rendered EXCEPT ![t.page] = t.fetched]
          /\ DrawnBy(t)
     ELSE /\ Swapped(t, [t EXCEPT !.at = "learnt"])
          /\ UNCHANGED rendered
  /\ UNCHANGED <<kind, records, presses>>

Draw(t) ==
  /\ t.at = "learnt"
  /\ rendered' = [rendered EXCEPT ![t.page] = known[t.page]]
  /\ DrawnBy(t)
  /\ UNCHANGED <<kind, records, known, presses>>

\* Where a record was on its way to stage s; "rejected" may follow any but the last.
Past(k, s) ==
  IF s \in ToSet(Ladder(k))
  THEN {NoRecord} \cup {Ladder(k)[i] : i \in 1..(CHOOSE j \in DOMAIN Ladder(k) : Ladder(k)[j] = s)}
  ELSE {NoRecord, s} \cup ToSet(Front(Ladder(k)))

\* The pages were opened at some time in the life of the first record.
WorkbenchInit ==
  /\ kind \in {"contract", "ledger", "room", "acceptance"}
  /\ records \in {<<>>} \cup {<<s>> : s \in Rungs(kind)}
  /\ rendered \in [Pages -> IF records = <<>> THEN {NoRecord} ELSE Past(kind, NewestStage)]
  /\ known = rendered
  /\ tasks = {} /\ presses = 0

WorkbenchNext ==
  \/ \E p \in Pages : \E button \in DOMAIN Enabling(kind) : Press(p, button)
  \/ \E p \in Pages : Refresh(p)
  \/ \E t \in tasks : Serve(t) \/ GiveUp(t) \/ Abandon(t) \/ Fetch(t) \/ Learn(t) \/ Draw(t)

WorkbenchSpec == WorkbenchInit /\ [][WorkbenchNext]_workbenchVars

-----------------------------------------------------------------------------
(* Properties                                                              *)

WorkbenchTypeOK ==
  /\ records \in Seq(Rungs(kind)) /\ Len(records) <= MaxRecords
  /\ \A p \in Pages : {known[p], rendered[p]} \subseteq Rungs(kind) \cup {NoRecord}
  /\ \A t \in tasks : t.names \in Rungs(kind) \cup {"same"}

\* However stale a page is, however many of its requests are under way and however
\* often a button is pressed again after its reply was lost: a request that moves
\* a record takes it to the very stage it names, one stage on, and from a stage
\* the page had before it when the button was pressed; so no retry advances a
\* record twice and nothing goes back.  Only the rejection, the first evidence and
\* the saved ledger (whose form sends the status of finance along) may meet another
\* stage.  A record that is no longer the newest stays as it is.
ClickKeepsItsWord ==
  [][\E t \in tasks :
       /\ t.at \in {"server", "unattended"}
       /\ \/ t.creates /\ records' = Append(records, "draft")
          \/ /\ records # <<>> /\ Front(records') = Front(records)
             /\ Last(records') = t.names
             /\ Last(records) \in t.saw \/ t.button \in {"rejected", "evidence", "save"}
             /\ Last(records') \in {Following(kind, Last(records)), "rejected"}]_records

=============================================================================
