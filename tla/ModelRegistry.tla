----------------------------- MODULE ModelRegistry -----------------------------
(***************************************************************************)
(* The registry of uplift models (src/api/mlops/registry.py) and the two   *)
(* programs that change it: retrain.py, by timer and by deployment, and    *)
(* rollback.py, by an operator.  A change reads the index, works on its    *)
(* copy, writes registry.json.tmp and moves it over registry.json; nothing *)
(* locks, every program uses the same temporary file, and a program may    *)
(* die between any two steps.                                              *)
(*                                                                         *)
(* Files may also be damaged or removed behind the registry's back.  What  *)
(* a challenger predicts is reduced to whether it ranks better than chance *)
(* and than the champion.                                                  *)
(***************************************************************************)
EXTENDS FiniteSets, Naturals, Sequences

CONSTANTS
  Models,         \* versions, each registered once
  NoModel,        \* null
  Programs,       \* running instances of retrain.py and rollback.py
  Torn,           \* an index that is not JSON
  NoFile,         \* there is no temporary file
  HistoryLimit    \* history_limit

ASSUME RegistryAssumption ==
  NoModel \notin Models /\ HistoryLimit \in Nat /\ Torn # NoFile

VARIABLES
  index,          \* registry.json
  temporary,      \* registry.json.tmp
  artifacts,      \* model.joblib of each version
  program,        \* where each program is, and what it carries
  passed_gate     \* versions that retrain.py decided to promote

registryVars == <<index, temporary, artifacts, program, passed_gate>>

Statuses == {"none", "candidate", "production", "archived"}

\* "none" is a version without an entry.
Index == [status : [Models -> Statuses], production : Models \cup {NoModel},
          previous : Models \cup {NoModel}, history : Seq(Models)]

\* _normalize_index of an empty object
NoIndex == [status |-> [m \in Models |-> "none"], production |-> NoModel,
            previous |-> NoModel, history |-> <<>>]

ProgramRun(pc, model, promotes, copy, opened) ==
  [pc |-> pc, model |-> model, promotes |-> promotes, copy |-> copy, opened |-> opened]

NoRun == ProgramRun("idle", NoModel, FALSE, NoIndex, "none")

\* "opened" is the file that the program's descriptor leads to.
Program == [pc : {"idle", "trained", "opening", "dumping", "replacing", "registered"},
            model : Models \cup {NoModel}, promotes : BOOLEAN, copy : Index,
            opened : {"none", "tmp", "index", "gone"}]

RegistryTypeOK ==
  /\ index \in Index \cup {Torn}
  /\ temporary \in Index \cup {Torn, NoFile}
  /\ artifacts \in [Models -> {"none", "whole", "damaged", "removed"}]
  /\ program \in [Programs -> Program]
  /\ passed_gate \subseteq Models

RegistryInit ==
  /\ index = NoIndex
  /\ temporary = NoFile
  /\ artifacts = [m \in Models |-> "none"]
  /\ program = [p \in Programs |-> NoRun]
  /\ passed_gate = {}

-----------------------------------------------------------------------------
(* What the methods of Registry make of an index                           *)

\* register
Registered(i, m) ==
  [status |-> [i.status EXCEPT ![m] = "candidate"], production |-> i.production,
   previous |-> i.previous, history |-> i.history]

\* _append_history and _normalize_index: the latest events are retained.
Recorded(history, m) ==
  LET all == Append(history, m) IN
  IF Len(all) > HistoryLimit THEN SubSeq(all, Len(all) - HistoryLimit + 1, Len(all)) ELSE all

\* The loop over the entries: only one of them is in production.
Served(status, m) ==
  [v \in Models |-> CASE v = m -> "production"
                      [] v # m /\ status[v] = "production" -> "archived"
                      [] OTHER -> status[v]]

\* _validate_version_artifact
ValidArtifact(i, m) == i.status[m] # "none" /\ artifacts[m] = "whole"

\* promote
Promoted(i, m) ==
  [status |-> Served(i.status, m), production |-> m,
   previous |-> IF i.production # m THEN i.production ELSE i.previous,
   history |-> Recorded(i.history, m)]

\* rollback
RolledBack(i, m) ==
  [status |-> Served(i.status, m), production |-> m, previous |-> i.production,
   history |-> Recorded(i.history, m)]

\* Mutant: every version the index knows is approved.
Known_version(i, m) == i.status[m] # "none"

\* _is_approved_version
Approved(i, m) ==
  \/ m \in {i.production, i.previous}
  \/ i.status[m] \in {"production", "archived"}
  \/ i.status[m] # "none" /\ \E k \in DOMAIN i.history : i.history[k] = m

\* load_production finds a model: there is a pointer and its file, valid or not.
Champion(i) == i.production # NoModel /\ artifacts[i.production] \in {"whole", "damaged"}

-----------------------------------------------------------------------------
(* retrain.py and rollback.py                                              *)

\* The program goes on with another copy of the index, or with another descriptor.
RunGoes(p, pc, promotes, copy, opened) ==
  program' = [program EXCEPT ![p] = ProgramRun(pc, program[p].model, promotes, copy, opened)]

\* What a challenger may prove to be.
Challengers == {"random", "ranker", "better"}

\* validate_metrics asserts, and so ends the program.
Validated(challenger) == challenger # "random"

\* main of retrain.py up to the files of register: without a champion the
\* challenger is promoted as the bootstrap, else when it is better.  A champion
\* that cannot be unpickled ends the program.
Retrain(p, m, challenger) ==
  /\ program[p].pc = "idle"
  /\ Validated(challenger)
  /\ index # Torn
  /\ artifacts[m] = "none"
  /\ Champion(index) => artifacts[index.production] = "whole"
  /\ LET promotes == ~Champion(index) \/ challenger = "better" IN
       /\ program' = [program EXCEPT ![p] =
            ProgramRun("trained", m, promotes, NoIndex, "none")]
       /\ passed_gate' = IF promotes THEN passed_gate \cup {m} ELSE passed_gate
  /\ artifacts' = [artifacts EXCEPT ![m] = "whole"]
  /\ UNCHANGED <<index, temporary>>

\* register and promote read the index and change their copy.
ReadIndex(p) ==
  /\ index # Torn
  /\ LET m == program[p].model IN
     \/ /\ program[p].pc = "trained"
        /\ RunGoes(p, "opening", program[p].promotes, Registered(index, m), "none")
     \/ /\ program[p].pc = "registered"
        /\ ValidArtifact(index, m)
        /\ RunGoes(p, "opening", FALSE, Promoted(index, m), "none")
  /\ UNCHANGED <<index, temporary, artifacts, passed_gate>>

\* rollback.py, with a target or without: the version it goes to and the one it
\* leaves are validated.
Rollback(p, target) ==
  /\ program[p].pc = "idle"
  /\ index # Torn
  /\ LET m == IF target = NoModel THEN index.previous ELSE target IN
       /\ m # NoModel
       /\ Approved(index, m)
       /\ ValidArtifact(index, m)
       /\ index.production \notin {NoModel, m} => ValidArtifact(index, index.production)
       /\ program' = [program EXCEPT ![p] =
            ProgramRun("opening", NoModel, FALSE, RolledBack(index, m), "none")]
  /\ UNCHANGED <<index, temporary, artifacts, passed_gate>>

\* _write_index: open(tmp, "w") truncates the file, whoever writes it.
OpenTemporary(p) ==
  /\ program[p].pc = "opening"
  /\ temporary' = Torn
  /\ RunGoes(p, "dumping", program[p].promotes, program[p].copy, "tmp")
  /\ UNCHANGED <<index, artifacts, passed_gate>>

Others(p) == {q \in Programs \ {p} : program[q].pc \in {"dumping", "replacing"}
                                     /\ program[q].opened = program[p].opened}

\* The file p opened is still its own and empty.
Alone(p) == Others(p) = {} /\ program[p].opened = "tmp" /\ temporary = Torn

\* json.dump: what was written is whole, unless another program writes the same
\* file or has written a longer text there.  The copy is not used again.
Dump(p) ==
  /\ program[p].pc = "dumping"
  /\ \E content \in {program[p].copy} \cup IF Alone(p) THEN {} ELSE {Torn} :
       /\ temporary' = IF program[p].opened = "tmp" THEN content ELSE temporary
       /\ index' = IF program[p].opened = "index" THEN content ELSE index
  /\ RunGoes(p, "replacing", program[p].promotes, NoIndex, program[p].opened)
  /\ UNCHANGED <<artifacts, passed_gate>>

\* Where a descriptor leads once the temporary file was moved.
MovedFile(file) == CASE file = "tmp" -> "index" [] file = "index" -> "gone" [] OTHER -> file

\* os.replace; the program goes on to promote, or ends.  Without a temporary
\* file it fails.
Replace(p) ==
  /\ program[p].pc = "replacing"
  /\ temporary # NoFile
  /\ index' = temporary
  /\ temporary' = NoFile
  /\ program' = [q \in Programs |->
       IF q # p THEN [program[q] EXCEPT !.opened = MovedFile(@)]
       ELSE IF program[p].promotes
              THEN ProgramRun("registered", program[p].model, TRUE, NoIndex, "none")
       ELSE NoRun]
  /\ UNCHANGED <<artifacts, passed_gate>>

\* The program fails or dies.
Ends(p) ==
  /\ program[p].pc # "idle"
  /\ program' = [program EXCEPT ![p] = NoRun]
  /\ UNCHANGED <<index, temporary, artifacts, passed_gate>>

\* A stored model is damaged or removed.
Spoil(m, how) ==
  /\ artifacts[m] = "whole"
  /\ artifacts' = [artifacts EXCEPT ![m] = how]
  /\ UNCHANGED <<index, temporary, program, passed_gate>>

RegistryNext ==
  \/ \E p \in Programs :
       \/ \E m \in Models, challenger \in Challengers : Retrain(p, m, challenger)
       \/ ReadIndex(p)
       \/ \E target \in Models \cup {NoModel} : Rollback(p, target)
       \/ OpenTemporary(p)
       \/ Dump(p)
       \/ Replace(p)
       \/ Ends(p)
  \/ \E m \in Models, how \in {"damaged", "removed"} : Spoil(m, how)

RegistrySpec == RegistryInit /\ [][RegistryNext]_registryVars

-----------------------------------------------------------------------------
(* Properties                                                              *)

\* Whatever is promoted, rolled back, spoilt or cut off by the death of the
\* program, the one version in production passed the promotion gate once: no
\* challenger that was held reaches production by a rollback, neither when the
\* history has forgotten its events nor by way of the previous version.
ProductionPassedGate ==
  index # Torn =>
    /\ {m \in Models : index.status[m] = "production"} = {index.production} \ {NoModel}
    /\ {m \in Models : index.status[m] \in {"production", "archived"}} \subseteq passed_gate
    /\ index.previous \in passed_gate \cup {NoModel}


=============================================================================
