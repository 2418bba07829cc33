---------------------------- MODULE OperationsProofs ----------------------------
(***************************************************************************)
(* Proofs about what runs beside the platform's requests, for any number   *)
(* of servers, scripts, programs, handlers and backups, and any bounds:    *)
(* migrations of the schema, the registry of models, uploaded files and    *)
(* their backups, sessions and members.                                    *)
(***************************************************************************)
EXTENDS Migrations, ModelRegistry, Backups, Access, SequenceTheorems, TLAPS

-----------------------------------------------------------------------------
(* Migrations                                                              *)

\* A starter that is ready leaves nothing to plan, for itself and for everybody
\* else: with every version recorded a commit that would change anything conflicts.
MigrationInv == MigrationTypeOK /\ ReadyOnItsSchema

\* Where a step leads the one who takes it, and that it changes no release.
LEMMA MigrationSteps ==
  ASSUME MigrationTypeOK, NEW s \in Starters,
         \/ Start(s) \/ Snapshot(s) \/ Plan(s) \/ Migrate(s) \/ EndMigration(s)
         \/ MigrationFails(s) \/ Validate(s)
  PROVE  /\ starter' \in [Starters -> Starter]
         /\ \A t \in Starters : starter'[t].release = starter[t].release
         /\ \A t \in Starters \ {s} : starter'[t] = starter[t]
         /\ starter'[s].pc = "ready" => Validate(s) /\ Validates(s)
<1>1. /\ starter \in [Starters -> Starter] /\ starter[s] \in Starter
      /\ starter[s].dry \in BOOLEAN /\ starter[s].pending \in SUBSET Versions
  BY DEF MigrationTypeOK, Starter
<1>2. PICK pc \in {"off", "snapshot", "planning", "planned", "migrated", "validating",
                  "ready", "failed"}, dry \in BOOLEAN, pending \in SUBSET Versions :
        /\ Carries(s, pc, dry, pending)
        /\ pc = "ready" => Validate(s) /\ Validates(s)
  <2>1. CASE Start(s)
    <3>1. CASE starter[s].mode = "script" /\ Carries(s, "snapshot", TRUE, {})
      <4> WITNESS "snapshot" \in {"off", "snapshot", "planning", "planned", "migrated",
                                 "validating", "ready", "failed"},
                  TRUE \in BOOLEAN, {} \in SUBSET Versions
      <4> QED
        BY <3>1
    <3>2. CASE starter[s].mode = "development" /\ Carries(s, "planning", FALSE, {})
      <4> WITNESS "planning" \in {"off", "snapshot", "planning", "planned", "migrated",
                                 "validating", "ready", "failed"},
                  FALSE \in BOOLEAN, {} \in SUBSET Versions
      <4> QED
        BY <3>2
    <3>3. CASE starter[s].mode = "production" /\ Carries(s, "validating", FALSE, {})
      <4> WITNESS "validating" \in {"off", "snapshot", "planning", "planned", "migrated",
                                 "validating", "ready", "failed"},
                  FALSE \in BOOLEAN, {} \in SUBSET Versions
      <4> QED
        BY <3>3
    <3> QED
      BY <2>1, <3>1, <3>2, <3>3 DEF Start
  <2>2. CASE Snapshot(s) \/ Migrate(s) \/ MigrationFails(s)
    BY <1>1, <2>2 DEF Snapshot, Migrate, MigrationFails, Steps
  <2>3. CASE Plan(s)
    BY <1>1, <2>3 DEF Plan, Pending
  <2>4. CASE EndMigration(s)
    BY <1>1, <2>4 DEF EndMigration
  <2>5. CASE Validate(s)
    BY <1>1, <2>5 DEF Validate, Steps
  <2> QED
    BY <2>1, <2>2, <2>3, <2>4, <2>5
<1>3. [pc |-> pc, mode |-> starter[s].mode, dry |-> dry, pending |-> pending,
       release |-> starter[s].release] \in Starter
  BY <1>1 DEF Starter
<1> QED
  BY <1>1, <1>2, <1>3 DEF Carries

\* Every step of a starter keeps the state of the migrations in its type.
LEMMA MigrationTyped ==
  ASSUME MigrationTypeOK, [MigrationNext]_migrationVars
  PROVE  MigrationTypeOK'
<1>1. CASE UNCHANGED migrationVars
  BY <1>1 DEF migrationVars, MigrationTypeOK
<1>2. ASSUME NEW s \in Starters,
             \/ Start(s) \/ Snapshot(s) \/ Plan(s) \/ Migrate(s) \/ MigrationFails(s) \/ Validate(s)
      PROVE  MigrationTypeOK'
  <2>1. starter' \in [Starters -> Starter]
    BY <1>2, MigrationSteps
  <2> QED
    BY <1>2, <2>1
    DEF MigrationTypeOK, Start, Snapshot, Plan, Migrate, MigrationFails, Validate
<1>3. ASSUME NEW s \in Starters, EndMigration(s)
      PROVE  MigrationTypeOK'
  <2>1. starter' \in [Starters -> Starter]
    BY <1>3, MigrationSteps
  <2>2. starter[s].release \in [Versions -> Checksums] /\ starter[s].pending \subseteq Versions
    BY DEF MigrationTypeOK, Starter
  <2> QED
    BY <1>3, <2>1, <2>2 DEF EndMigration, MigrationTypeOK
<1> QED
  BY <1>1, <1>2, <1>3 DEF MigrationNext

\* What a validation finds is the schema of the release that validates.
LEMMA ValidatedIsReady ==
  ASSUME MigrationTypeOK, NEW s \in Starters, Validates(s)
  PROVE  applied = starter[s].release /\ relations = Versions /\ state # NoStarter
<1>1. \A v \in Versions : applied[v] = starter[s].release[v]
  BY DEF Validates, PlanAgrees, Pending
<1>2. starter[s].release \in [Versions -> Checksums]
  BY DEF MigrationTypeOK, Starter
<1> QED
  BY <1>1, <1>2 DEF Validates, MigrationTypeOK

\* Where somebody is ready the schema is complete, and no commit changes it.
LEMMA CompleteStays ==
  ASSUME MigrationInv, NEW s \in Starters, IsAt(s, "ready"), NEW t \in Starters, EndMigration(t)
  PROVE  UNCHANGED <<applied, relations, state>>
<1>1. applied = starter[s].release /\ relations = Versions /\ state # NoStarter
  BY DEF MigrationInv, ReadyOnItsSchema
<1>2. /\ starter[s].release \in [Versions -> Checksums]
      /\ starter[t].pending \subseteq Versions
  BY DEF MigrationInv, MigrationTypeOK, Starter
<1>3. \A v \in Versions : applied[v] # NoChecksum
  BY <1>1, <1>2, MigrationAssumption
<1>4. CASE ~Commits(t)
  BY <1>4 DEF EndMigration
<1>5. CASE Commits(t)
  <2>1. starter[t].pending = {}
    BY <1>2, <1>3, <1>5 DEF EndMigration, Conflicts
  <2> QED
    BY <1>1, <1>2, <1>5, <2>1 DEF EndMigration
<1> QED
  BY <1>4, <1>5

\* Every step keeps who is ready on the schema of its release.
LEMMA ReadyStays ==
  ASSUME MigrationInv, [MigrationNext]_migrationVars
  PROVE  ReadyOnItsSchema'
<1> SUFFICES ASSUME NEW s \in Starters, IsAt(s, "ready")'
             PROVE  (applied = starter[s].release /\ relations = Versions /\ state # NoStarter)'
  BY DEF ReadyOnItsSchema
<1>1. MigrationTypeOK
  BY DEF MigrationInv
<1>2. ASSUME starter[s].pc = "ready"
      PROVE  applied = starter[s].release /\ relations = Versions /\ state # NoStarter
  BY <1>2 DEF MigrationInv, ReadyOnItsSchema, IsAt
<1>3. CASE UNCHANGED migrationVars
  BY <1>2, <1>3 DEF IsAt, migrationVars
<1>4. ASSUME NEW t \in Starters,
             \/ Start(t) \/ Snapshot(t) \/ Plan(t) \/ Migrate(t) \/ EndMigration(t)
             \/ MigrationFails(t) \/ Validate(t)
      PROVE  (applied = starter[s].release /\ relations = Versions /\ state # NoStarter)'
  <2>1. CASE s = t
    <3>1. Validate(s) /\ Validates(s) /\ starter'[s].release = starter[s].release
      BY <1>1, <1>4, <2>1, MigrationSteps DEF IsAt
    <3> QED
      BY <1>1, <3>1, ValidatedIsReady DEF Validate
  <2>2. CASE s # t
    <3>1. starter[s].pc = "ready" /\ starter'[s].release = starter[s].release
      BY <1>1, <1>4, <2>2, MigrationSteps DEF IsAt
    <3>2. UNCHANGED <<applied, relations, state>>
      BY <1>4, <3>1, CompleteStays
      DEF IsAt, Start, Snapshot, Plan, Migrate, MigrationFails, Validate
    <3> QED
      BY <1>2, <3>1, <3>2
  <2> QED
    BY <2>1, <2>2
<1> QED
  BY <1>3, <1>4 DEF MigrationNext

\* A server that is up runs on the schema of its own release and goes on to,
\* whatever servers and scripts of other releases do beside it.
THEOREM ReadyServersKeepTheirSchema == MigrationSpec => []ReadyOnItsSchema
<1>1. MigrationInit => MigrationInv
  BY MigrationAssumption
  DEF MigrationInit, MigrationInv, MigrationTypeOK, ReadyOnItsSchema, IsAt, Starter
<1>2. MigrationInv /\ [MigrationNext]_migrationVars => MigrationInv'
  BY MigrationTyped, ReadyStays DEF MigrationInv
<1>3. MigrationInv => ReadyOnItsSchema
  BY DEF MigrationInv
<1> QED
  BY <1>1, <1>2, <1>3, PTL DEF MigrationSpec

-----------------------------------------------------------------------------
(* The registry of models                                                  *)

\* Every index there is: in the file, in the temporary file, in a program's memory.
Indexes ==
  {program[p].copy : p \in Programs} \cup ({index} \ {Torn}) \cup ({temporary} \ {Torn, NoFile})

\* What holds of each: all that a promotion or a rollback may go to was approved.
Sound(i, approved) ==
  /\ \A m \in Models : i.status[m] = "production" <=> i.production = m
  /\ \A m \in Models : i.status[m] \in {"production", "archived"} => m \in approved
  /\ i.previous \in approved \cup {NoModel}
  /\ i.history \in Seq(approved)

Unregistered(m) == \A i \in Indexes : i.status[m] = "none"

\* Versions are registered once: before its files are written no index and no
\* program knows a version, and then only the program that wrote them.
RegistryInv ==
  /\ RegistryTypeOK
  /\ \A i \in Indexes : Sound(i, passed_gate)
  /\ \A m \in Models : artifacts[m] = "none" =>
       Unregistered(m) /\ \A p \in Programs : program[p].model # m
  /\ \A p \in Programs : program[p].pc = "trained" =>
       /\ program[p].model \in Models
       /\ Unregistered(program[p].model)
       /\ \A q \in Programs \ {p} : program[q].model # program[p].model
  /\ \A p \in Programs : program[p].promotes \/ program[p].pc = "registered" =>
       program[p].model \in passed_gate

\* The history keeps the latest of what was recorded, and nothing else.
LEMMA RecordedIsApproved ==
  ASSUME NEW approved, NEW history \in Seq(approved), NEW m \in approved
  PROVE  Recorded(history, m) \in Seq(approved)
<1> DEFINE all == Append(history, m)
<1>1. all \in Seq(approved) /\ Len(all) \in Nat
  OBVIOUS
<1> HIDE DEF all
<1>2. CASE Len(all) > HistoryLimit
  <2> DEFINE first == Len(all) - HistoryLimit + 1
  <2>1. /\ first \in Int /\ 1 <= first
        /\ \A k \in first..Len(all) : all[k] \in approved
    BY <1>1, <1>2, RegistryAssumption
  <2> QED
    BY <1>1, <1>2, <2>1, RegistryAssumption, SubSeqProperties DEF Recorded, all
<1> QED
  BY <1>1, <1>2, RegistryAssumption DEF Recorded, all

\* Registering a version that the index does not know.
LEMMA RegisteredIsSound ==
  ASSUME NEW approved, NEW i \in Index, Sound(i, approved), NEW m \in Models, i.status[m] = "none"
  PROVE  /\ Registered(i, m) \in Index /\ Sound(Registered(i, m), approved)
         /\ \A v \in Models \ {m} : i.status[v] = "none" => Registered(i, m).status[v] = "none"
BY DEF Registered, Index, Statuses, Sound

\* The version that is served is one that the gate approved.
LEMMA ServedIsSound ==
  ASSUME NEW approved, NEW i \in Index, Sound(i, approved), NEW m \in approved, m \in Models
  PROVE  /\ Served(i.status, m) \in [Models -> Statuses]
         /\ \A v \in Models : Served(i.status, m)[v] = "production" <=> v = m
         /\ \A v \in Models : Served(i.status, m)[v] \in {"production", "archived"} => v \in approved
         /\ \A v \in Models \ {m} : i.status[v] = "none" => Served(i.status, m)[v] = "none"
BY DEF Served, Index, Statuses, Sound

\* Both changes of the version in production keep an index sound.
LEMMA PromotedIsSound ==
  ASSUME NEW approved, approved \subseteq Models,
         NEW i \in Index, Sound(i, approved), NEW m \in approved,
         NEW j \in {Promoted(i, m), RolledBack(i, m)}
  PROVE  /\ j \in Index /\ Sound(j, approved)
         /\ \A v \in Models \ {m} : i.status[v] = "none" => j.status[v] = "none"
<1>1. Recorded(i.history, m) \in Seq(approved)
  BY RecordedIsApproved DEF Sound
<1>2. i.production \in approved \cup {NoModel} /\ i.previous \in approved \cup {NoModel}
  BY DEF Sound, Index
<1>3. PICK previous \in approved \cup {NoModel} :
        j = [status |-> Served(i.status, m), production |-> m, previous |-> previous,
             history |-> Recorded(i.history, m)]
  BY <1>2 DEF Promoted, RolledBack
<1>4. Recorded(i.history, m) \in Seq(Models)
  BY <1>1, SeqDef
<1> QED
  BY <1>1, <1>3, <1>4, ServedIsSound, RegistryAssumption DEF Index, Sound

\* Before anything is registered.
LEMMA NoIndexIsSound ==
  ASSUME NEW approved
  PROVE  /\ NoIndex \in Index /\ Sound(NoIndex, approved)
         /\ \A m \in Models : NoIndex.status[m] = "none"
BY RegistryAssumption DEF NoIndex, Index, Statuses, Sound

\* What was approved stays approved.
LEMMA SoundGrows ==
  ASSUME NEW approved, NEW more, approved \subseteq more, NEW i, Sound(i, approved)
  PROVE  Sound(i, more)
<1>1. i.history \in Seq(more)
  BY SeqMonotonic DEF Sound
<1> QED
  BY <1>1 DEF Sound

LEMMA IndexesTyped ==
  ASSUME RegistryTypeOK
  PROVE  Indexes \subseteq Index
BY DEF RegistryTypeOK, Indexes, Program

\* A program goes on, perhaps with another index, in which no version is registered
\* that was not but its own.
LEMMA GoingOn ==
  ASSUME RegistryInv, RegistryTypeOK', UNCHANGED <<artifacts, passed_gate>>,
         NEW p \in Programs,
         \A q \in Programs \ {p} :
           /\ program'[q].pc = program[q].pc /\ program'[q].model = program[q].model
           /\ program'[q].promotes = program[q].promotes,
         Indexes' \subseteq Indexes \cup {program'[p].copy},
         Sound(program'[p].copy, passed_gate),
         \A m \in Models : Unregistered(m) /\ m # program[p].model
           => program'[p].copy.status[m] = "none",
         program'[p].pc # "trained", program'[p].model \in {program[p].model, NoModel},
         program'[p].promotes \/ program'[p].pc = "registered" =>
           program'[p].model \in passed_gate
  PROVE  RegistryInv'
<1>1. \A i \in Indexes' : Sound(i, passed_gate')
  BY DEF RegistryInv
<1>2. ASSUME NEW m \in Models, Unregistered(m), m # program[p].model
      PROVE  Unregistered(m)'
  BY <1>2 DEF Unregistered
<1>3. ASSUME NEW m \in Models, artifacts'[m] = "none"
      PROVE  Unregistered(m)' /\ \A q \in Programs : program'[q].model # m
  <2>1. Unregistered(m) /\ \A q \in Programs : program[q].model # m
    BY <1>3 DEF RegistryInv
  <2> QED
    BY <1>2, <2>1, RegistryAssumption
<1>4. ASSUME NEW q \in Programs, program'[q].pc = "trained"
      PROVE  /\ program'[q].model \in Models
             /\ \A i \in Indexes' : i.status[program'[q].model] = "none"
             /\ \A r \in Programs \ {q} : program'[r].model # program'[q].model
  <2> DEFINE m == program[q].model
  <2>1. q # p /\ program'[q].model = m /\ program[q].pc = "trained"
    BY <1>4
  <2>2. m \in Models /\ Unregistered(m) /\ \A r \in Programs \ {q} : program[r].model # m
    BY <2>1 DEF RegistryInv
  <2>3. \A i \in Indexes' : i.status[m] = "none"
    <3> HIDE DEF m
    <3> QED
      BY <2>1, <2>2 DEF Unregistered
  <2> QED
    BY <2>1, <2>2, <2>3, RegistryAssumption
<1>5. \A q \in Programs : program'[q].promotes \/ program'[q].pc = "registered" =>
        program'[q].model \in passed_gate'
  BY DEF RegistryInv
<1> QED
  BY <1>1, <1>3, <1>4, <1>5 DEF RegistryInv, Unregistered

\* The steps in which a program changes its own record only.
LEMMA ReadKeepsRegistry ==
  ASSUME RegistryInv, NEW p \in Programs, ReadIndex(p)
  PROVE  RegistryInv'
<1> DEFINE m == program[p].model
<1>1. /\ RegistryTypeOK /\ program[p] \in Program /\ program[p].promotes \in BOOLEAN
      /\ index \in Index /\ index \in Indexes /\ Sound(index, passed_gate)
      /\ m \in Models \cup {NoModel} /\ passed_gate \subseteq Models
  BY DEF RegistryInv, RegistryTypeOK, ReadIndex, Indexes, Program
<1>2. ASSUME NEW copy \in Index, NEW promotes \in BOOLEAN,
             Sound(copy, passed_gate), promotes => m \in passed_gate,
             RunGoes(p, "opening", promotes, copy, "none"),
             \A v \in Models \ {m} : index.status[v] = "none" => copy.status[v] = "none"
      PROVE  RegistryInv'
  <2>1. /\ program' \in [Programs -> Program]
        /\ \A q \in Programs \ {p} : program'[q] = program[q]
        /\ program'[p].pc = "opening" /\ program'[p].model = m /\ program'[p].copy = copy
        /\ program'[p].promotes = promotes
    BY <1>1, <1>2, RegistryAssumption DEF RunGoes, ProgramRun, Program, RegistryTypeOK
  <2>2. RegistryTypeOK'
    BY <1>1, <2>1 DEF RegistryTypeOK, ReadIndex
  <2>3. Indexes' \subseteq Indexes \cup {program'[p].copy}
    BY <2>1 DEF Indexes, ReadIndex
  <2> QED
    BY <1>1, <1>2, <2>1, <2>2, <2>3, GoingOn DEF ReadIndex, Unregistered
<1>3. CASE program[p].pc = "trained" /\ RunGoes(p, "opening", program[p].promotes, Registered(index, m), "none")
  <2>1. m \in Models /\ index.status[m] = "none"
    BY <1>1, <1>3 DEF RegistryInv, Unregistered
  <2>2. program[p].promotes => m \in passed_gate
    BY DEF RegistryInv
  <2> HIDE DEF m
  <2> QED
    BY <1>1, <1>2, <1>3, <2>1, <2>2, RegisteredIsSound
<1>4. CASE program[p].pc = "registered" /\ RunGoes(p, "opening", FALSE, Promoted(index, m), "none")
  <2>1. m \in passed_gate
    BY <1>4 DEF RegistryInv
  <2> HIDE DEF m
  <2> QED
    BY <1>1, <1>2, <1>4, <2>1, PromotedIsSound
<1> QED
  BY <1>3, <1>4 DEF ReadIndex

\* A rollback goes to a version that the index approves of, so the gate did.
LEMMA RollbackKeepsRegistry ==
  ASSUME RegistryInv, NEW p \in Programs, NEW target \in Models \cup {NoModel}, Rollback(p, target)
  PROVE  RegistryInv'
<1>1. /\ RegistryTypeOK /\ index \in Index /\ index \in Indexes
      /\ Sound(index, passed_gate) /\ passed_gate \subseteq Models
  BY DEF RegistryInv, RegistryTypeOK, Rollback, Indexes
<1>2. PICK m \in Models \cup {NoModel} :
        /\ m # NoModel /\ Approved(index, m) /\ ValidArtifact(index, m)
        /\ program' = [program EXCEPT ![p] =
             ProgramRun("opening", NoModel, FALSE, RolledBack(index, m), "none")]
  BY <1>1 DEF Rollback, Index
<1>3. m \in passed_gate
  <2>1. \A k \in DOMAIN index.history : index.history[k] \in passed_gate
    BY <1>1 DEF Sound
  <2> QED
    BY <1>1, <1>2, <2>1 DEF Approved, Sound
<1> DEFINE copy == RolledBack(index, m)
<1>4. /\ copy \in Index /\ Sound(copy, passed_gate)
      /\ \A v \in Models \ {m} : index.status[v] = "none" => copy.status[v] = "none"
  BY <1>1, <1>3, PromotedIsSound
<1> HIDE DEF copy
<1>5. /\ program' \in [Programs -> Program]
      /\ \A q \in Programs \ {p} : program'[q] = program[q]
      /\ program'[p].pc = "opening" /\ program'[p].model = NoModel /\ program'[p].copy = copy
      /\ program'[p].promotes = FALSE
  BY <1>1, <1>2, <1>4, RegistryAssumption DEF copy, ProgramRun, Program, RegistryTypeOK
<1>6. RegistryTypeOK'
  BY <1>1, <1>5 DEF RegistryTypeOK, Rollback
<1>7. Indexes' \subseteq Indexes \cup {program'[p].copy}
  BY <1>5 DEF Indexes, Rollback
<1>8. \A v \in Models : Unregistered(v) => copy.status[v] = "none"
  BY <1>1, <1>2, <1>4 DEF Unregistered, ValidArtifact
<1> QED
  BY <1>4, <1>5, <1>6, <1>7, <1>8, GoingOn DEF Rollback

\* Opening the temporary file, and a program that ends.
LEMMA OpensOrEndsKeepsRegistry ==
  ASSUME RegistryInv, NEW p \in Programs, OpenTemporary(p) \/ Ends(p)
  PROVE  RegistryInv'
<1>1. /\ RegistryTypeOK /\ program[p] \in Program /\ program[p].copy \in Index
      /\ program[p].promotes \in BOOLEAN
      /\ program[p].model \in Models \cup {NoModel} /\ program[p].copy \in Indexes
  BY DEF RegistryInv, RegistryTypeOK, Program, Indexes
<1>2. program[p].promotes => program[p].model \in passed_gate
  BY DEF RegistryInv
<1>3. CASE OpenTemporary(p)
  <2>1. /\ program' \in [Programs -> Program]
        /\ \A q \in Programs \ {p} : program'[q] = program[q]
        /\ program'[p].pc = "dumping" /\ program'[p].model = program[p].model
        /\ program'[p].copy = program[p].copy /\ program'[p].promotes = program[p].promotes
    BY <1>1, <1>3, RegistryAssumption DEF OpenTemporary, RunGoes, ProgramRun, Program, RegistryTypeOK
  <2>2. RegistryTypeOK'
    BY <1>1, <1>3, <2>1 DEF RegistryTypeOK, OpenTemporary
  <2>3. Indexes' \subseteq Indexes \cup {program'[p].copy}
    BY <1>3, <2>1 DEF Indexes, OpenTemporary
  <2>4. Sound(program'[p].copy, passed_gate)
    BY <1>1, <2>1 DEF RegistryInv
  <2> QED
    BY <1>1, <1>2, <1>3, <2>1, <2>2, <2>3, <2>4, GoingOn DEF OpenTemporary, Unregistered
<1>4. CASE Ends(p)
  <2>1. NoIndex \in Index /\ Sound(NoIndex, passed_gate)
        /\ \A m \in Models : NoIndex.status[m] = "none"
    BY NoIndexIsSound
  <2>2. /\ program' \in [Programs -> Program]
        /\ \A q \in Programs \ {p} : program'[q] = program[q]
        /\ program'[p].pc = "idle" /\ program'[p].model = NoModel
        /\ program'[p].copy = NoIndex /\ program'[p].promotes = FALSE
    BY <1>1, <1>4, <2>1, RegistryAssumption DEF Ends, NoRun, ProgramRun, Program, RegistryTypeOK
  <2>3. RegistryTypeOK'
    BY <1>1, <1>4, <2>2 DEF RegistryTypeOK, Ends
  <2>4. Indexes' \subseteq Indexes \cup {program'[p].copy}
    BY <1>4, <2>2 DEF Indexes, Ends
  <2> QED
    BY <1>4, <2>1, <2>2, <2>3, <2>4, GoingOn DEF Ends
<1> QED
  BY <1>3, <1>4

\* Writing an index: what is written is the program's copy, or not JSON.
LEMMA DumpKeepsRegistry ==
  ASSUME RegistryInv, NEW p \in Programs, Dump(p)
  PROVE  RegistryInv'
<1>1. /\ RegistryTypeOK /\ program[p] \in Program /\ program[p].copy \in Index
      /\ program[p].promotes \in BOOLEAN
      /\ program[p].model \in Models \cup {NoModel} /\ program[p].copy \in Indexes
  BY DEF RegistryInv, RegistryTypeOK, Program, Indexes
<1>2. /\ program' \in [Programs -> Program]
      /\ \A q \in Programs \ {p} : program'[q] = program[q]
      /\ program'[p].pc = "replacing" /\ program'[p].model = program[p].model
      /\ program'[p].copy = NoIndex /\ program'[p].promotes = program[p].promotes
  BY <1>1, NoIndexIsSound DEF Dump, RunGoes, ProgramRun, Program, RegistryTypeOK
<1>3. /\ temporary' \in {temporary, program[p].copy, Torn}
      /\ index' \in {index, program[p].copy, Torn}
  BY DEF Dump
<1>4. RegistryTypeOK'
  BY <1>1, <1>2, <1>3 DEF RegistryTypeOK, Dump
<1>5. Indexes' \subseteq Indexes \cup {program'[p].copy}
  BY <1>2, <1>3 DEF Indexes
<1>6. /\ Sound(program'[p].copy, passed_gate)
      /\ \A m \in Models : program'[p].copy.status[m] = "none"
      /\ program[p].promotes => program[p].model \in passed_gate
  BY <1>1, <1>2, NoIndexIsSound DEF RegistryInv
<1> QED
  BY <1>1, <1>2, <1>4, <1>5, <1>6, GoingOn DEF Dump

\* Moving the temporary file over the index, whoever wrote it.
LEMMA ReplaceKeepsRegistry ==
  ASSUME RegistryInv, NEW p \in Programs, Replace(p)
  PROVE  RegistryInv'
<1>1. /\ RegistryTypeOK /\ program \in [Programs -> Program] /\ program[p].copy \in Indexes
      /\ program[p].promotes => program[p].model \in passed_gate
  BY DEF RegistryInv, RegistryTypeOK, Indexes
<1>2. NoIndex \in Index /\ Sound(NoIndex, passed_gate)
      /\ \A m \in Models : NoIndex.status[m] = "none"
  BY NoIndexIsSound
<1>3. \A q \in Programs \ {p} :
        /\ program'[q] \in Program /\ program'[q].copy = program[q].copy
        /\ program'[q].pc = program[q].pc /\ program'[q].model = program[q].model
        /\ program'[q].promotes = program[q].promotes
  BY <1>1 DEF Replace, MovedFile, Program
<1>4. {index'} \ {Torn} \subseteq Indexes /\ {temporary'} \ {Torn, NoFile} = {}
      /\ UNCHANGED <<artifacts, passed_gate>>
  BY DEF Indexes, Replace
<1>5. CASE program[p].promotes
  <2>1. /\ program'[p] \in Program /\ program'[p].copy = NoIndex
        /\ program'[p].pc = "registered" /\ program'[p].model = program[p].model
    BY <1>1, <1>2, <1>5 DEF Replace, ProgramRun, Program
  <2>2. RegistryTypeOK'
    BY <1>1, <1>3, <2>1 DEF RegistryTypeOK, Replace
  <2>3. Indexes' \subseteq Indexes \cup {program'[p].copy}
    <3> SUFFICES ASSUME NEW q \in Programs
                 PROVE  program'[q].copy \in Indexes \cup {program'[p].copy}
      BY <1>4 DEF Indexes
    <3> QED
      BY <1>3 DEF Indexes
  <2> QED
    BY <1>1, <1>2, <1>3, <1>4, <1>5, <2>1, <2>2, <2>3, GoingOn
<1>6. CASE ~program[p].promotes
  <2>1. /\ program'[p] \in Program /\ program'[p].copy = NoIndex
        /\ program'[p].pc = "idle" /\ program'[p].model = NoModel /\ program'[p].promotes = FALSE
    BY <1>1, <1>2, <1>6 DEF Replace, NoRun, ProgramRun, Program
  <2>2. RegistryTypeOK'
    BY <1>1, <1>3, <2>1 DEF RegistryTypeOK, Replace
  <2>3. Indexes' \subseteq Indexes \cup {program'[p].copy}
    <3> SUFFICES ASSUME NEW q \in Programs
                 PROVE  program'[q].copy \in Indexes \cup {program'[p].copy}
      BY <1>4 DEF Indexes
    <3> QED
      BY <1>3 DEF Indexes
  <2> QED
    BY <1>2, <1>3, <1>4, <2>1, <2>2, <2>3, GoingOn
<1> QED
  BY <1>5, <1>6

\* A challenger is a version that nobody registered yet.
LEMMA RetrainKeepsRegistry ==
  ASSUME RegistryInv, NEW p \in Programs, NEW m \in Models, NEW challenger, Retrain(p, m, challenger)
  PROVE  RegistryInv'
<1>1. /\ RegistryTypeOK /\ program \in [Programs -> Program] /\ passed_gate \subseteq Models
      /\ artifacts[m] = "none" /\ Unregistered(m) /\ \A q \in Programs : program[q].model # m
  BY DEF RegistryInv, RegistryTypeOK, Retrain
<1>2. PICK promotes \in BOOLEAN :
        /\ program' = [program EXCEPT ![p] = ProgramRun("trained", m, promotes, NoIndex, "none")]
        /\ passed_gate' = IF promotes THEN passed_gate \cup {m} ELSE passed_gate
  BY DEF Retrain
<1>3. NoIndex \in Index /\ Sound(NoIndex, passed_gate)
      /\ \A v \in Models : NoIndex.status[v] = "none"
  BY NoIndexIsSound
<1>4. /\ program' \in [Programs -> Program]
      /\ \A q \in Programs \ {p} : program'[q] = program[q]
      /\ program'[p].pc = "trained" /\ program'[p].model = m
      /\ program'[p].copy = NoIndex /\ program'[p].promotes = promotes
  BY <1>1, <1>2, <1>3 DEF ProgramRun, Program
<1>5. RegistryTypeOK'
  BY <1>1, <1>2, <1>4 DEF RegistryTypeOK, Retrain
<1>6. Indexes' \subseteq Indexes \cup {NoIndex}
  BY <1>4 DEF Indexes, Retrain
<1>7. \A i \in Indexes' : Sound(i, passed_gate')
  <2>1. \A i \in Indexes \cup {NoIndex} : Sound(i, passed_gate)
    BY <1>3 DEF RegistryInv
  <2>2. passed_gate \subseteq passed_gate'
    BY <1>2
  <2> QED
    BY <1>6, <2>1, <2>2, SoundGrows
<1>8. \A v \in Models : Unregistered(v) => \A i \in Indexes' : i.status[v] = "none"
  BY <1>3, <1>6 DEF Unregistered
<1>9. \A v \in Models : artifacts'[v] = "none" =>
        /\ \A i \in Indexes' : i.status[v] = "none"
        /\ \A q \in Programs : program'[q].model # v
  <2> SUFFICES ASSUME NEW v \in Models, artifacts'[v] = "none"
               PROVE  /\ \A i \in Indexes' : i.status[v] = "none"
                      /\ \A q \in Programs : program'[q].model # v
    OBVIOUS
  <2>1. v # m /\ artifacts[v] = "none"
    BY <1>1 DEF Retrain, RegistryTypeOK
  <2> QED
    BY <1>4, <1>8, <2>1 DEF RegistryInv
<1>10. \A q \in Programs : program'[q].pc = "trained" =>
         /\ program'[q].model \in Models
         /\ \A i \in Indexes' : i.status[program'[q].model] = "none"
         /\ \A r \in Programs \ {q} : program'[r].model # program'[q].model
  BY <1>1, <1>4, <1>8 DEF RegistryInv
<1>11. \A q \in Programs : program'[q].promotes \/ program'[q].pc = "registered" =>
         program'[q].model \in passed_gate'
  BY <1>2, <1>4 DEF RegistryInv
<1> QED
  BY <1>5, <1>7, <1>9, <1>10, <1>11 DEF RegistryInv, Unregistered

\* Damage to a stored model changes no index.
LEMMA SpoilKeepsRegistry ==
  ASSUME RegistryInv, NEW m \in Models, NEW how \in {"damaged", "removed"}, Spoil(m, how)
  PROVE  RegistryInv'
<1>1. UNCHANGED Indexes /\ \A v \in Models : artifacts'[v] = "none" => artifacts[v] = "none"
  BY DEF Spoil, Indexes, RegistryInv, RegistryTypeOK
<1>2. RegistryTypeOK'
  BY DEF Spoil, RegistryInv, RegistryTypeOK
<1> QED
  BY <1>1, <1>2 DEF Spoil, RegistryInv, Unregistered

\* Whatever is promoted, rolled back, spoilt or cut off, the one version in
\* production passed the promotion gate once, and so did every version that a
\* rollback may go to.
THEOREM RegistryServesWhatPassed == RegistrySpec => []ProductionPassedGate
<1>1. RegistryInit => RegistryInv
  <2> SUFFICES ASSUME RegistryInit PROVE RegistryInv
    OBVIOUS
  <2>1. NoIndex \in Index /\ Sound(NoIndex, passed_gate)
        /\ \A m \in Models : NoIndex.status[m] = "none"
    BY NoIndexIsSound
  <2>2. RegistryTypeOK
    BY <2>1 DEF RegistryInit, RegistryTypeOK, NoRun, ProgramRun, Program
  <2>3. Indexes \subseteq {NoIndex}
    BY DEF RegistryInit, Indexes, NoRun, ProgramRun
  <2> QED
    BY <2>1, <2>2, <2>3, RegistryAssumption DEF RegistryInit, RegistryInv, NoRun, ProgramRun, Unregistered
<1>2. RegistryInv /\ [RegistryNext]_registryVars => RegistryInv'
  <2> SUFFICES ASSUME RegistryInv, [RegistryNext]_registryVars PROVE RegistryInv'
    OBVIOUS
  <2>1. CASE UNCHANGED registryVars
    BY <2>1 DEF registryVars, RegistryInv, RegistryTypeOK, Unregistered, Indexes
  <2>2. CASE RegistryNext
    BY <2>2, RetrainKeepsRegistry, ReadKeepsRegistry, RollbackKeepsRegistry,
       OpensOrEndsKeepsRegistry, DumpKeepsRegistry, ReplaceKeepsRegistry, SpoilKeepsRegistry
    DEF RegistryNext
  <2> QED
    BY <2>1, <2>2
<1>3. RegistryInv => ProductionPassedGate
  <2> SUFFICES ASSUME RegistryInv, index # Torn PROVE ProductionPassedGate
    BY DEF ProductionPassedGate
  <2>1. index \in Index /\ Sound(index, passed_gate)
    BY DEF RegistryInv, RegistryTypeOK, Indexes
  <2> QED
    BY <2>1, RegistryAssumption DEF ProductionPassedGate, Sound, Index
<1> QED
  BY <1>1, <1>2, <1>3, PTL DEF RegistrySpec

-----------------------------------------------------------------------------
(* Sessions and members                                                    *)

\* An account that anybody has a session of is known, with an organization.
AccessInv ==
  /\ AccessTypeOK
  /\ \A u \in Users : Known(u) => accounts[u].org \in Orgs
  /\ SessionsAreCurrent

\* What the steps write of an account is typed.
LEMMA JoinedIsTyped ==
  ASSUME AccessTypeOK, NEW u \in Users, NEW org \in Orgs, NEW role \in Roles,
         NEW password \in 0..MaxPasswords, NEW expires \in 0..Never,
         Joined(u, org, role, password, expires)
  PROVE  /\ accounts' \in [Users -> Account]
         /\ accounts'[u].org = org /\ accounts'[u].password = password
         /\ accounts'[u].role = role
         /\ \A v \in Users \ {u} : accounts'[v] = accounts[v]
BY DEF Joined, AccessTypeOK, Account

\* Nobody has a session of an account that does not exist.
LEMMA SessionsOfKnown ==
  ASSUME AccessInv, NEW s \in DOMAIN sessions
  PROVE  /\ sessions[s] \in Session /\ sessions[s].user \in Users
         /\ Known(sessions[s].user)
         /\ sessions[s].with = accounts[sessions[s].user].password
BY AccessAssumption DEF AccessInv, AccessTypeOK, SessionsAreCurrent, Session, Known, Account

\* An account whose sessions are ended, or that had none, may change its password.
LEMMA ChangedAccount ==
  ASSUME AccessInv, NEW u \in Users, NEW org \in Orgs, NEW role \in Roles,
         NEW password \in 0..MaxPasswords, NEW expires \in 0..Never,
         Joined(u, org, role, password, expires), orgs' \subseteq Orgs,
         held' \in [Calls -> {NoRequest} \cup Authenticated], UNCHANGED clock,
         \/ sessions' = Without(u)
         \/ UNCHANGED sessions /\ (~Known(u) \/ password = accounts[u].password)
  PROVE  AccessInv'
<1>1. /\ accounts' \in [Users -> Account]
      /\ accounts'[u].org = org /\ accounts'[u].password = password
      /\ \A v \in Users \ {u} : accounts'[v] = accounts[v]
  BY JoinedIsTyped DEF AccessInv
<1>2. \A s \in DOMAIN sessions' :
        /\ s \in DOMAIN sessions /\ sessions'[s] = sessions[s]
        /\ sessions[s].user = u => password = accounts[u].password
  BY SessionsOfKnown DEF Without
<1>3. AccessTypeOK'
  BY <1>1, <1>2 DEF AccessInv, AccessTypeOK
<1>4. \A v \in Users : Known(v)' => accounts'[v].org \in Orgs
  BY <1>1 DEF AccessInv, Known
<1>5. SessionsAreCurrent'
  <2> SUFFICES ASSUME NEW s \in DOMAIN sessions'
               PROVE  sessions'[s].with = accounts'[sessions'[s].user].password
    BY DEF SessionsAreCurrent
  <2>1. sessions[s].user \in Users /\ sessions[s].with = accounts[sessions[s].user].password
    BY <1>2, SessionsOfKnown
  <2> QED
    BY <1>1, <1>2, <2>1
<1> QED
  BY <1>3, <1>4, <1>5 DEF AccessInv

\* A session that is opened is one of the password the account has now.
LEMMA OpenedIsCurrent ==
  ASSUME AccessInv, NEW u \in Users, NEW password \in 1..MaxPasswords, OpenSession(u, password),
         accounts' \in [Users -> Account], accounts'[u].password = password,
         accounts'[u].org \in Orgs, orgs' \subseteq Orgs,
         \A v \in Users \ {u} : accounts'[v] = accounts[v],
         password = accounts[u].password \/ ~Known(u),
         UNCHANGED <<clock, held>>
  PROVE  AccessInv'
<1>1. PICK s \in SignedIds :
        sessions' = [x \in DOMAIN sessions \cup {s} |->
          IF x = s THEN [user |-> u, expires |-> clock + SessionTtl, with |-> password]
                   ELSE sessions[x]]
  BY DEF OpenSession
<1>2. [user |-> u, expires |-> clock + SessionTtl, with |-> password] \in Session
  BY AccessAssumption DEF AccessInv, AccessTypeOK, Session
<1>3. AccessTypeOK'
  BY <1>1, <1>2 DEF AccessInv, AccessTypeOK, SignedIds
<1>4. \A v \in Users : Known(v)' => accounts'[v].org \in Orgs
  BY DEF AccessInv, Known
<1>5. SessionsAreCurrent'
  <2> SUFFICES ASSUME NEW x \in DOMAIN sessions'
               PROVE  sessions'[x].with = accounts'[sessions'[x].user].password
    BY DEF SessionsAreCurrent
  <2>1. CASE x = s
    BY <1>1, <2>1
  <2>2. CASE x # s
    <3>1. x \in DOMAIN sessions /\ sessions'[x] = sessions[x]
      BY <1>1, <2>2
    <3>2. sessions[x].user \in Users /\ Known(sessions[x].user)
          /\ sessions[x].with = accounts[sessions[x].user].password
      BY <3>1, SessionsOfKnown
    <3> QED
      BY <3>1, <3>2
  <2> QED
    BY <2>1, <2>2
<1> QED
  BY <1>3, <1>4, <1>5 DEF AccessInv

\* Steps that leave the accounts alone, and only end sessions.
LEMMA RequestKeepsAccess ==
  ASSUME AccessInv, UNCHANGED <<accounts, orgs>>, clock' \in 0..MaxClock,
         DOMAIN sessions' \subseteq DOMAIN sessions,
         \A s \in DOMAIN sessions' : sessions'[s] = sessions[s],
         held' \in [Calls -> {NoRequest} \cup Authenticated]
  PROVE  AccessInv'
BY DEF AccessInv, AccessTypeOK, Known, SessionsAreCurrent

LEMMA AccessStep ==
  ASSUME AccessInv, AccessNext
  PROVE  AccessInv'
<1>1. /\ AccessTypeOK /\ accounts \in [Users -> Account] /\ clock \in Nat
      /\ clock \in 0..Never /\ Never \in 0..Never /\ 1 \in 0..MaxPasswords
  BY AccessAssumption DEF AccessInv, AccessTypeOK, Never
<1>2. ASSUME NEW u \in Users, NEW org \in Orgs, Signup(u, org)
      PROVE  AccessInv'
  <2>1. /\ accounts' \in [Users -> Account]
        /\ accounts'[u].org = org /\ accounts'[u].password = 1
        /\ \A v \in Users \ {u} : accounts'[v] = accounts[v]
    BY <1>1, <1>2, JoinedIsTyped DEF Signup, Roles
  <2>2. orgs' = orgs \cup {org} /\ orgs \subseteq Orgs
    BY <1>1, <1>2 DEF Signup, AccessTypeOK
  <2> QED
    BY <1>1, <1>2, <2>1, <2>2, OpenedIsCurrent DEF Signup
<1>3. ASSUME NEW u \in Users, Login(u)
      PROVE  AccessInv'
  <2>1. accounts[u].password \in 1..MaxPasswords /\ accounts[u].org \in Orgs /\ orgs \subseteq Orgs
    BY <1>1, <1>3, AccessAssumption DEF Login, Known, AccessInv, AccessTypeOK, Account
  <2> QED
    BY <1>1, <1>3, <2>1, OpenedIsCurrent DEF Login
<1>4. ASSUME NEW r \in Calls, NEW s \in SignedIds, Authenticate(r, s)
      PROVE  AccessInv'
  <2> DEFINE u == sessions[s].user
  <2>1. s \in DOMAIN sessions /\ u \in Users /\ accounts[u].org \in Orgs /\ accounts[u].role \in Roles
    <3>1. s \in DOMAIN sessions /\ u \in Users /\ Known(u)
      BY <1>4, SessionsOfKnown DEF Authenticate
    <3> QED
      BY <1>1, <3>1 DEF AccessInv, AccessTypeOK, Account
  <2> HIDE DEF u
  <2>2. held' \in [Calls -> {NoRequest} \cup Authenticated]
    BY <1>1, <1>4, <2>1 DEF Authenticate, SignedIds, AccessTypeOK, Authenticated, u
  <2> QED
    BY <1>4, <2>2, RequestKeepsAccess DEF Authenticate, AccessInv, AccessTypeOK
<1>5. ASSUME NEW r \in Calls, Answers(r)
      PROVE  held' \in [Calls -> {NoRequest} \cup Authenticated]
  BY <1>1, <1>5 DEF Answers, AccessTypeOK
<1>6. ASSUME NEW r \in Calls, Answered(r) \/ Logout(r)
      PROVE  AccessInv'
  <2>1. DOMAIN sessions' \subseteq DOMAIN sessions /\ \A s \in DOMAIN sessions' : sessions'[s] = sessions[s]
    BY <1>6 DEF Answered, Logout
  <2> QED
    BY <1>1, <1>5, <1>6, <2>1, RequestKeepsAccess DEF Answered, Logout, AccessTypeOK
<1>7. ASSUME NEW r \in Calls, NEW u \in Users, NEW role \in Roles, CreateMember(r, u, role)
      PROVE  AccessInv'
  <2>1. held[r] \in Authenticated /\ held[r].org \in Orgs /\ orgs \subseteq Orgs
    BY <1>1, <1>7 DEF CreateMember, Holds, AccessTypeOK, Authenticated
  <2> QED
    BY <1>1, <1>5, <1>7, <2>1, ChangedAccount DEF CreateMember
<1>8. ASSUME NEW r \in Calls, NEW u \in Users, NEW role \in Roles, ChangeRole(r, u, role)
      PROVE  AccessInv'
  <2>1. /\ accounts[u].org \in Orgs /\ orgs \subseteq Orgs
        /\ accounts[u].password \in 0..MaxPasswords /\ accounts[u].expires \in 0..Never
    BY <1>1, <1>8 DEF ChangeRole, AccessInv, AccessTypeOK, Account
  <2> QED
    BY <1>1, <1>5, <1>8, <2>1, ChangedAccount DEF ChangeRole
<1>9. ASSUME NEW u \in Users, NEW org \in Orgs, NEW role \in Roles, NEW rotate \in BOOLEAN,
             NEW expires \in 1..MaxClock, ProvisionPilotUser(u, org, role, rotate, expires)
      PROVE  AccessInv'
  <2>1. /\ orgs' \subseteq Orgs /\ expires \in 0..Never /\ accounts[u].password \in 0..MaxPasswords
        /\ held' \in [Calls -> {NoRequest} \cup Authenticated]
    BY <1>1, <1>9, AccessAssumption DEF ProvisionPilotUser, AccessTypeOK, Account, Never
  <2>2. CASE Known(u) /\ ~rotate
    BY <1>9, <2>1, <2>2, ChangedAccount DEF ProvisionPilotUser
  <2>3. CASE ~(Known(u) /\ ~rotate)
    <3>1. accounts[u].password + 1 \in 0..MaxPasswords
      BY <1>9, <2>1, <2>3, AccessAssumption DEF ProvisionPilotUser
    <3> QED
      BY <1>9, <2>1, <2>3, <3>1, ChangedAccount DEF ProvisionPilotUser, RotatedSessions
  <2> QED
    BY <2>2, <2>3
<1>10. ASSUME NEW u \in Users, NEW role \in Roles, DisableQaUser(u, role)
       PROVE  AccessInv'
  <2>1. /\ accounts[u].org \in Orgs /\ orgs \subseteq Orgs
        /\ accounts[u].password \in 0..MaxPasswords
        /\ held' \in [Calls -> {NoRequest} \cup Authenticated]
    BY <1>1, <1>10 DEF DisableQaUser, AccessInv, AccessTypeOK, Account
  <2> QED
    BY <1>1, <1>10, <2>1, ChangedAccount DEF DisableQaUser
<1>11. ASSUME NEW u \in Users, NEW org \in Orgs, NEW expires \in 1..MaxClock,
              ProvisionDemoUser(u, org, expires)
       PROVE  AccessInv'
  <2>1. /\ orgs \subseteq Orgs /\ expires \in 0..Never /\ "viewer" \in Roles
        /\ accounts[u].password + 1 \in 0..MaxPasswords
        /\ held' \in [Calls -> {NoRequest} \cup Authenticated]
    BY <1>1, <1>11, AccessAssumption DEF ProvisionDemoUser, AccessTypeOK, Account, Never, Roles
  <2> QED
    BY <1>11, <2>1, ChangedAccount DEF ProvisionDemoUser, RotatedSessions
<1>12. CASE TimePasses
  BY <1>1, <1>12, AccessAssumption, RequestKeepsAccess DEF TimePasses, AccessTypeOK
<1> QED
  BY <1>2, <1>3, <1>4, <1>6, <1>7, <1>8, <1>9, <1>10, <1>11, <1>12 DEF AccessNext, Operate

\* No member takes the role of an owner away: whose role a request changes is
\* looked up when it acts.
LEMMA OwnersStay ==
  ASSUME AccessInv, AccessNext
  PROVE  OwnersKeepTheirRole
<1>1. AccessTypeOK
  BY DEF AccessInv
<1>2. ASSUME NEW u \in Users, NEW org, NEW role, NEW password, NEW expires,
             Joined(u, org, role, password, expires), ~Known(u) \/ accounts[u].role # "owner"
      PROVE  OwnersKeepTheirRole
  BY <1>1, <1>2 DEF Joined, OwnersKeepTheirRole, AccessTypeOK
<1>3. ASSUME UNCHANGED accounts
      PROVE  OwnersKeepTheirRole
  BY <1>3 DEF OwnersKeepTheirRole
<1>4. ASSUME NEW u \in Users, NEW org \in Orgs, Signup(u, org)
      PROVE  OwnersKeepTheirRole
  BY <1>2, <1>4 DEF Signup
<1>5. ASSUME NEW r \in Calls, NEW u \in Users, NEW role \in Roles,
             CreateMember(r, u, role) \/ ChangeRole(r, u, role)
      PROVE  OwnersKeepTheirRole
  BY <1>2, <1>5 DEF CreateMember, ChangeRole, Changeable
<1>6. CASE Operate
  BY <1>6 DEF OwnersKeepTheirRole
<1>7. CASE \/ \E u \in Users : Login(u)
           \/ \E r \in Calls, s \in SignedIds : Authenticate(r, s)
           \/ \E r \in Calls : Answered(r) \/ Logout(r)
           \/ TimePasses
  BY <1>3, <1>7 DEF Login, Authenticate, Answered, Logout, TimePasses
<1> QED
  BY <1>4, <1>5, <1>6, <1>7 DEF AccessNext

LEMMA AccessInductive == AccessSpec => []AccessInv
<1>1. AccessInit => AccessInv
  BY AccessAssumption
  DEF AccessInit, AccessInv, AccessTypeOK, SessionsAreCurrent, Known, Unknown, Account, Roles, Never
<1>2. AccessInv /\ [AccessNext]_accessVars => AccessInv'
  <2>1. AccessInv /\ UNCHANGED accessVars => AccessInv'
    BY DEF accessVars, AccessInv, AccessTypeOK, SessionsAreCurrent, Known
  <2> QED
    BY <2>1, AccessStep
<1> QED
  BY <1>1, <1>2, PTL DEF AccessSpec

\* Accounts, sessions and what requests hold of them are well-formed.
THEOREM AccessTypeCorrect == AccessSpec => []AccessTypeOK
<1>1. AccessInv => AccessTypeOK
  BY DEF AccessInv
<1> QED
  BY <1>1, AccessInductive, PTL

\* A stored session is one of the password its account has, and no member takes
\* the role of an owner away, whatever scripts and requests do in between.
THEOREM AccessIsKept == AccessSpec => AccessHolds
<1>1. AccessInv' => SessionsAreCurrent'
  BY DEF AccessInv
<1>2. AccessInv /\ AccessInv' /\ [AccessNext]_accessVars
      => [SessionsAreCurrent' /\ OwnersKeepTheirRole]_accessVars
  BY <1>1, OwnersStay
<1> QED
  BY <1>2, AccessInductive, PTL DEF AccessSpec, AccessHolds

-----------------------------------------------------------------------------
(* Uploaded files                                                          *)

Working(h, a) == handler[h].artifact = a /\ ~At(h, "found")
InImport(h, a) == handler[h].artifact = a /\ handler[h].pc \in {"created", "persisted"}

\* An artifact, unless it is doubted, is in the hands of one request at most, and of
\* none while the database has its metadata; its import begins with no file, and
\* stores the metadata of a whole one.
GoodArtifact(a) ==
  /\ a \notin used =>
       a \notin metadata \cup doubted /\ files[a] = "none" /\ \A h \in Handlers : handler[h].artifact # a
  /\ \A h \in Handlers : InImport(h, a) =>
       /\ a \notin metadata \cup doubted
       /\ \A g \in Handlers : handler[g].artifact = a => g = h
       /\ files[a] = IF At(h, "created") THEN "none" ELSE "whole"
  /\ a \in metadata \ doubted => files[a] = "whole" /\ ~InHand(a)
  /\ a \notin doubted => \A g, h \in Handlers : Working(g, a) /\ Working(h, a) => g = h
  /\ a \notin doubted \cup faulty \cup metadata => InHand(a) \/ files[a] = "none"

ArtifactInv ==
  /\ ArtifactTypeOK
  /\ \A h \in Handlers : At(h, "idle") <=> handler[h].artifact = NoArtifact
  /\ \A a \in Artifacts : GoodArtifact(a)

\* A request changes what is known of the artifact in its hands only.
LEMMA OthersKept ==
  ASSUME ArtifactInv, ArtifactTypeOK', NEW h \in Handlers, NEW a \in Artifacts,
         \A g \in Handlers \ {h} : handler'[g] = handler[g],
         handler[h].artifact \in {a, NoArtifact}, handler'[h].artifact \in {a, NoArtifact},
         \A b \in Artifacts \ {a} :
           /\ files'[b] = files[b]
           /\ b \in metadata' <=> b \in metadata
           /\ b \in used' <=> b \in used
           /\ b \in faulty' <=> b \in faulty
           /\ b \in doubted' <=> b \in doubted,
         handler'[h].pc = "idle" <=> handler'[h].artifact = NoArtifact,
         GoodArtifact(a)'
  PROVE  ArtifactInv'
<1>1. \A g \in Handlers : At(g, "idle")' <=> handler'[g].artifact = NoArtifact
  BY DEF ArtifactInv, At
<1>2. ASSUME NEW b \in Artifacts \ {a}
      PROVE  GoodArtifact(b)'
  <2>1. handler[h].artifact # b /\ handler'[h].artifact # b
    BY ArtifactAssumption
  <2>2. GoodArtifact(b)
    BY DEF ArtifactInv
  <2>3. \A g \in Handlers : /\ handler'[g].artifact = b <=> handler[g].artifact = b
                            /\ handler[g].artifact = b => handler'[g] = handler[g]
    BY <2>1
  <2>4. /\ \A g \in Handlers : InImport(g, b)' <=> InImport(g, b)
        /\ \A g \in Handlers : Working(g, b)' <=> Working(g, b)
        /\ InHand(b)' <=> InHand(b)
    BY <2>1, <2>3 DEF InImport, Working, InHand, At
  <2>5. \A g \in Handlers : InImport(g, b) => (At(g, "created")' <=> At(g, "created"))
    BY <2>3 DEF InImport, At
  <2> QED
    BY <2>2, <2>3, <2>4, <2>5 DEF GoodArtifact
<1> QED
  BY <1>1, <1>2 DEF ArtifactInv

\* Every step of a request keeps the files accounted for.
LEMMA ArtifactStep ==
  ASSUME ArtifactInv, NEW h \in Handlers,
         \/ \E a \in Artifacts : BeginImport(h, a)
         \/ \E result \in {"none", "partial", "whole"} : Persist(h, result)
         \/ StoreMetadata(h)
         \/ \E committed \in BOOLEAN : StoreFails(h, committed)
         \/ \E a \in Artifacts : RemoveArtifact(h, a)
         \/ DeleteArtifact(h)
         \/ \E a \in Artifacts : FindArtifact(h, a)
         \/ ReadArtifact(h)
         \/ CutOff(h)
  PROVE  ArtifactInv'
<1>1. /\ ArtifactTypeOK /\ files \in [Artifacts -> {"none", "partial", "whole"}]
      /\ metadata \subseteq Artifacts /\ used \subseteq Artifacts
      /\ faulty \subseteq Artifacts /\ doubted \subseteq Artifacts
      /\ handler \in [Handlers ->
           [pc : {"idle", "created", "persisted", "undoing", "unlinking", "found"},
            artifact : Artifacts \cup {NoArtifact}]]
  BY DEF ArtifactInv, ArtifactTypeOK
<1> DEFINE own == handler[h].artifact
<1>2. ~At(h, "idle") => own \in Artifacts /\ GoodArtifact(own)
  BY <1>1 DEF ArtifactInv
<1>3. At(h, "idle") => own = NoArtifact
  BY DEF ArtifactInv
<1>4. ASSUME NEW a \in Artifacts, BeginImport(h, a)
      PROVE  ArtifactInv'
  <2>1. GoodArtifact(a)
    BY DEF ArtifactInv
  <2>2. /\ handler' = [handler EXCEPT ![h] = [pc |-> "created", artifact |-> a]]
        /\ UNCHANGED <<files, metadata, faulty, doubted>> /\ used' = used \cup {a}
        /\ a \notin used /\ own = NoArtifact
    BY <1>3, <1>4 DEF BeginImport, Goes
  <2>3. GoodArtifact(a)'
    BY <1>1, <2>1, <2>2 DEF GoodArtifact, InImport, Working, InHand, At
  <2>4. ArtifactTypeOK'
    BY <1>1, <2>2 DEF ArtifactTypeOK
  <2> QED
    BY <1>1, <2>2, <2>3, <2>4, OthersKept, ArtifactAssumption
<1>5. ASSUME NEW result \in {"none", "partial", "whole"}, Persist(h, result)
      PROVE  ArtifactInv'
  <2>1. PICK a \in Artifacts : own = a /\ GoodArtifact(a) /\ InImport(h, a) /\ At(h, "created")
    BY <1>2, <1>5 DEF Persist, At, InImport
  <2>2. UNCHANGED <<metadata, used, doubted>> /\ files' = [files EXCEPT ![a] = result]
    BY <1>5, <2>1 DEF Persist
  <2>3. /\ \A g \in Handlers : InHand(a) /\ (Working(g, a) => g = h)
        /\ a \in used /\ a \notin metadata \cup doubted /\ files[a] = "none"
        /\ \A g \in Handlers : handler[g].artifact = a => g = h
    BY <1>1, <2>1 DEF GoodArtifact, InHand, Working, InImport, At
  <2>4. CASE handler' = [handler EXCEPT ![h] = [pc |-> "persisted", artifact |-> a]]
             /\ result = "whole" /\ UNCHANGED faulty
    <3>1. GoodArtifact(a)'
      BY <1>1, <2>2, <2>3, <2>4 DEF GoodArtifact, InImport, Working, InHand, At
    <3>2. ArtifactTypeOK'
      BY <1>1, <2>2, <2>4 DEF ArtifactTypeOK
    <3> QED
      BY <1>1, <2>1, <2>2, <2>4, <3>1, <3>2, OthersKept, ArtifactAssumption
  <2>5. CASE handler' = [handler EXCEPT ![h] = [pc |-> "idle", artifact |-> NoArtifact]]
             /\ faulty' = faulty \cup {a}
    <3>1. GoodArtifact(a)'
      BY <1>1, <2>2, <2>3, <2>5, ArtifactAssumption DEF GoodArtifact, InImport, Working, InHand, At
    <3>2. ArtifactTypeOK'
      BY <1>1, <2>2, <2>5 DEF ArtifactTypeOK
    <3> QED
      BY <1>1, <2>1, <2>2, <2>5, <3>1, <3>2, OthersKept, ArtifactAssumption
  <2> QED
    BY <1>5, <2>1, <2>4, <2>5 DEF Persist, Goes, Leaves, AtRest
<1>6. CASE StoreMetadata(h)
  <2>1. PICK a \in Artifacts : own = a /\ GoodArtifact(a) /\ InImport(h, a) /\ At(h, "persisted")
    BY <1>2, <1>6 DEF StoreMetadata, At, InImport
  <2>2. /\ handler' = [handler EXCEPT ![h] = [pc |-> "idle", artifact |-> NoArtifact]]
        /\ metadata' = metadata \cup {a}
        /\ UNCHANGED <<files, used, faulty, doubted>>
    BY <1>6, <2>1 DEF StoreMetadata, Leaves, AtRest
  <2>3. /\ a \in used /\ a \notin metadata \cup doubted /\ files[a] = "whole"
        /\ \A g \in Handlers : handler[g].artifact = a => g = h
    BY <1>1, <2>1 DEF GoodArtifact, InImport, At
  <2>4. GoodArtifact(a)'
    BY <1>1, <2>2, <2>3, ArtifactAssumption DEF GoodArtifact, InImport, Working, InHand, At
  <2>5. ArtifactTypeOK'
    BY <1>1, <2>1, <2>2 DEF ArtifactTypeOK
  <2> QED
    BY <1>1, <2>1, <2>2, <2>4, <2>5, OthersKept, ArtifactAssumption
<1>7. ASSUME NEW committed \in BOOLEAN, StoreFails(h, committed)
      PROVE  ArtifactInv'
  <2>1. PICK a \in Artifacts : own = a /\ GoodArtifact(a) /\ InImport(h, a) /\ At(h, "persisted")
    BY <1>2, <1>7 DEF StoreFails, At, InImport
  <2>2. /\ handler' = [handler EXCEPT ![h] = [pc |-> "undoing", artifact |-> a]]
        /\ \/ metadata' = metadata \cup {a} /\ doubted' = doubted \cup {a}
           \/ UNCHANGED <<metadata, doubted>>
        /\ UNCHANGED <<files, used, faulty>>
    BY <1>7, <2>1 DEF StoreFails, Undoes, Goes
  <2>3. /\ a \in used /\ a \notin metadata \cup doubted
        /\ \A g \in Handlers : handler[g].artifact = a => g = h
    BY <1>1, <2>1 DEF GoodArtifact, InImport, At
  <2>4. GoodArtifact(a)'
    BY <1>1, <2>2, <2>3, ArtifactAssumption DEF GoodArtifact, InImport, Working, InHand, At
  <2>5. ArtifactTypeOK'
    BY <1>1, <2>1, <2>2 DEF ArtifactTypeOK
  <2> QED
    BY <1>1, <2>1, <2>2, <2>4, <2>5, OthersKept, ArtifactAssumption
<1>8. ASSUME NEW a \in Artifacts, RemoveArtifact(h, a) \/ FindArtifact(h, a)
      PROVE  ArtifactInv'
  <2>1. GoodArtifact(a) /\ a \in metadata /\ a \in used
    BY <1>8 DEF ArtifactInv, GoodArtifact, RemoveArtifact, MetadataFirst, FindArtifact, Shown
  <2>2. /\ \A g \in Handlers : ~InImport(g, a)
        /\ a \notin doubted => files[a] = "whole" /\ \A g \in Handlers : ~Working(g, a)
    BY <2>1 DEF GoodArtifact, InHand, Working
  <2>3. UNCHANGED <<files, used, faulty, doubted>> /\ own = NoArtifact
    BY <1>3, <1>8 DEF RemoveArtifact, MetadataFirst, FindArtifact
  <2>4. CASE RemoveArtifact(h, a)
    <3>1. /\ handler' = [handler EXCEPT ![h] = [pc |-> "unlinking", artifact |-> a]]
          /\ metadata' = metadata \ {a}
      BY <2>4 DEF RemoveArtifact, MetadataFirst, Goes
    <3>2. GoodArtifact(a)'
      BY <1>1, <2>1, <2>2, <2>3, <3>1 DEF GoodArtifact, InImport, Working, InHand, At
    <3>3. ArtifactTypeOK'
      BY <1>1, <2>3, <3>1 DEF ArtifactTypeOK
    <3> QED
      BY <1>1, <2>3, <3>1, <3>2, <3>3, OthersKept, ArtifactAssumption
  <2>5. CASE FindArtifact(h, a)
    <3>1. /\ handler' = [handler EXCEPT ![h] = [pc |-> "found", artifact |-> a]]
          /\ UNCHANGED metadata
      BY <2>5 DEF FindArtifact, Goes
    <3>2. GoodArtifact(a)'
      BY <1>1, <2>1, <2>2, <2>3, <3>1 DEF GoodArtifact, InImport, Working, InHand, At
    <3>3. ArtifactTypeOK'
      BY <1>1, <2>3, <3>1 DEF ArtifactTypeOK
    <3> QED
      BY <1>1, <2>3, <3>1, <3>2, <3>3, OthersKept, ArtifactAssumption
  <2> QED
    BY <1>8, <2>4, <2>5
<1>9. CASE DeleteArtifact(h)
  <2>1. PICK a \in Artifacts : own = a /\ GoodArtifact(a) /\ Working(h, a) /\ ~InImport(h, a)
    BY <1>2, <1>9 DEF DeleteArtifact, At, InImport, Working
  <2>2. /\ handler' = [handler EXCEPT ![h] = [pc |-> "idle", artifact |-> NoArtifact]]
        /\ files' = [files EXCEPT ![a] = "none"]
        /\ UNCHANGED <<metadata, used, faulty, doubted>>
    BY <1>9, <2>1 DEF DeleteArtifact, Leaves, AtRest
  <2>3. /\ a \in used /\ \A g \in Handlers : ~InImport(g, a)
        /\ a \notin doubted => a \notin metadata /\ \A g \in Handlers : Working(g, a) => g = h
    BY <1>1, <2>1 DEF GoodArtifact, InImport, Working, InHand, At
  <2>4. GoodArtifact(a)'
    BY <1>1, <2>2, <2>3, ArtifactAssumption DEF GoodArtifact, InImport, Working, InHand, At
  <2>5. ArtifactTypeOK'
    BY <1>1, <2>1, <2>2 DEF ArtifactTypeOK
  <2> QED
    BY <1>1, <2>1, <2>2, <2>4, <2>5, OthersKept, ArtifactAssumption
<1>10. CASE ReadArtifact(h) \/ CutOff(h)
  <2>1. PICK a \in Artifacts : own = a /\ GoodArtifact(a)
    BY <1>2, <1>10 DEF ReadArtifact, CutOff, At
  <2>2. /\ handler' = [handler EXCEPT ![h] = [pc |-> "idle", artifact |-> NoArtifact]]
        /\ ~At(h, "found") => faulty' = faulty \cup {a}
        /\ faulty' \in {faulty, faulty \cup {a}}
        /\ UNCHANGED <<files, metadata, used, doubted>>
    BY <1>10, <2>1 DEF ReadArtifact, CutOff, Leaves, AtRest
  <2>3. a \in used
    BY <2>1 DEF GoodArtifact
  <2>4. GoodArtifact(a)'
    BY <1>1, <2>1, <2>2, <2>3, ArtifactAssumption DEF GoodArtifact, InImport, Working, InHand, At
  <2>5. ArtifactTypeOK'
    BY <1>1, <2>1, <2>2 DEF ArtifactTypeOK
  <2> QED
    BY <1>1, <2>1, <2>2, <2>4, <2>5, OthersKept, ArtifactAssumption
<1> QED
  BY <1>4, <1>5, <1>6, <1>7, <1>8, <1>9, <1>10

LEMMA ArtifactInductive == ArtifactSpec => []ArtifactInv
<1>1. ArtifactInit => ArtifactInv
  BY ArtifactAssumption
  DEF ArtifactInit, ArtifactInv, ArtifactTypeOK, GoodArtifact, InImport, Working, InHand, At, AtRest
<1>2. ArtifactInv /\ [ArtifactNext]_artifactVars => ArtifactInv'
  <2>1. ArtifactInv /\ UNCHANGED artifactVars => ArtifactInv'
    BY DEF artifactVars, ArtifactInv, ArtifactTypeOK, GoodArtifact, InImport, Working, InHand, At
  <2> QED
    BY <2>1, ArtifactStep DEF ArtifactNext
<1> QED
  BY <1>1, <1>2, PTL DEF ArtifactSpec

\* Where no call failed files and metadata agree once the requests are done, and
\* metadata has its file whatever fails: only the lost reply of a COMMIT takes it.
THEOREM ArtifactsAreAccounted == ArtifactSpec => []ArtifactsAccounted
<1>1. ArtifactInv => ArtifactsAccounted
  BY DEF ArtifactInv, GoodArtifact, ArtifactsAccounted
<1> QED
  BY <1>1, ArtifactInductive, PTL

-----------------------------------------------------------------------------
(* Backups                                                                 *)

Young(f) == date - f.at <= Keep
Dumped(b) == backups[b].dump.is = "whole"
Archived(b) == backups[b].archive.is = "whole"

\* What a run has written while it goes on, and that it is not old yet.
GoodRun(x) ==
  /\ x.pc = "none" => x.dump = None /\ x.archive = None
  /\ x.pc = "dump" => x.archive.is = "none" /\ Young(x.dump)
  /\ x.pc = "tar" => x.dump.is = "whole" /\ x.archive.is = "partial" /\ Young(x.dump) /\ Young(x.archive)
  /\ x.pc \in {"report", "prune"} =>
       x.dump.is = "whole" /\ x.archive.is = "whole" /\ Young(x.dump) /\ Young(x.archive)

\* What the dump knows of, and is there still.
Held(x) == (x.holds \cap metadata) \ doubted

\* Metadata that the dump holds was stored once and will not be stored again; its
\* files are archived, or tar has them before it.
GoodContents(x) ==
  /\ \A a \in x.holds : a \in used /\ \A h \in Handlers : ~InImport(h, a)
  /\ x.pc = "tar" => Held(x) \subseteq x.todo \cup x.kept
  /\ x.archive.is = "whole" => Held(x) \subseteq x.kept

BackupInv ==
  /\ BackupTypeOK
  /\ ArtifactInv
  /\ \A b \in Stamps : GoodRun(backups[b]) /\ GoodContents(backups[b])
  /\ (\E b \in Stamps : backups[b].pc \in {"prune", "done"}) => \E b \in Stamps : Dumped(b) /\ Archived(b)
  /\ verifier.pc \in {"restoring", "listing"} => verifier.dump \in Stamps /\ verifier.archive \in Stamps
  /\ verifier.pc \in {"listing", "writing"} \/ status = "ok" => \E b \in Stamps : Dumped(b)
  /\ verifier.pc = "writing" \/ status = "ok" => \E b \in Stamps : Archived(b)

\* A run goes on and keeps the files it has written.
LEMMA RunGoesOn ==
  ASSUME BackupInv, NEW b \in Stamps, NEW x \in BackupRun,
         backups' = [backups EXCEPT ![b] = x],
         UNCHANGED <<artifactVars, date, verifier>>,
         status' \in {status, "torn", "pending"},
         GoodRun(x), GoodContents(x),
         Dumped(b) => x.dump.is = "whole", Archived(b) => x.archive.is = "whole",
         x.pc \in {"prune", "done"} => (x.dump.is = "whole" /\ x.archive.is = "whole")
                                       \/ backups[b].pc \in {"prune", "done"}
  PROVE  BackupInv'
<1>1. /\ backups' \in [Stamps -> BackupRun] /\ backups'[b] = x
      /\ \A c \in Stamps \ {b} : backups'[c] = backups[c]
  BY DEF BackupInv, BackupTypeOK
<1>2. UNCHANGED <<files, metadata, used, handler, faulty, doubted>>
  BY DEF artifactVars
<1>3. ArtifactInv'
  BY <1>2 DEF BackupInv, ArtifactInv, ArtifactTypeOK, GoodArtifact, InImport, Working, InHand, At
<1>4. BackupTypeOK'
  BY <1>1, <1>3 DEF BackupInv, BackupTypeOK, ArtifactInv
<1>5. ASSUME NEW y, GoodRun(y) /\ GoodContents(y)
      PROVE  GoodRun(y)' /\ GoodContents(y)'
  BY <1>2, <1>5 DEF GoodRun, Young, GoodContents, Held, InImport
<1>6. ASSUME NEW c \in Stamps
      PROVE  GoodRun(backups[c])' /\ GoodContents(backups[c])'
  <2>1. PICK y : y = backups'[c] /\ GoodRun(y) /\ GoodContents(y)
    BY <1>1 DEF BackupInv
  <2>2. GoodRun(y)' /\ GoodContents(y)'
    BY <1>5, <2>1
  <2> QED
    BY <2>1, <2>2 DEF GoodRun, Young, GoodContents, Held
<1>7. \A c \in Stamps : (Dumped(c) => Dumped(c)') /\ (Archived(c) => Archived(c)')
  BY <1>1 DEF Dumped, Archived
<1> QED
  <2>1. (\E c \in Stamps : backups'[c].pc \in {"prune", "done"})
        => \E c \in Stamps : Dumped(c)' /\ Archived(c)'
    <3>1. CASE x.pc \in {"prune", "done"} /\ x.dump.is = "whole" /\ x.archive.is = "whole"
      BY <1>1, <3>1 DEF Dumped, Archived
    <3>2. CASE \E c \in Stamps : backups[c].pc \in {"prune", "done"}
      BY <1>7, <3>2 DEF BackupInv
    <3> QED
      BY <1>1, <3>1, <3>2
  <2>2. /\ verifier'.pc \in {"listing", "writing"} \/ status' = "ok" => \E c \in Stamps : Dumped(c)'
        /\ verifier'.pc = "writing" \/ status' = "ok" => \E c \in Stamps : Archived(c)'
    BY <1>7 DEF BackupInv
  <2>3. verifier'.pc \in {"restoring", "listing"} => verifier'.dump \in Stamps /\ verifier'.archive \in Stamps
    BY DEF BackupInv
  <2> QED
    BY <1>3, <1>4, <1>6, <2>1, <2>2, <2>3 DEF BackupInv

\* What a command writes is typed, and young.
LEMMA ContinuesIsTyped ==
  ASSUME BackupInv, NEW x \in BackupRun,
         NEW pc \in {"none", "dump", "tar", "report", "prune", "done", "failed"}
  PROVE  /\ Continues(x, pc) \in BackupRun
         /\ Young(File("partial")) /\ Young(File("whole"))
<1>1. date \in 0..LastDay /\ metadata \subseteq Artifacts
  BY DEF BackupInv, BackupTypeOK, ArtifactInv, ArtifactTypeOK
<1>2. \A is \in {"none", "partial", "whole"} : File(is) \in Stored
  BY <1>1 DEF File, Stored
<1>3. Young(File("partial")) /\ Young(File("whole"))
  BY <1>1, BackupAssumption DEF Young, File
<1>4. /\ (CASE pc = "dump" -> File("partial") [] x.pc = "dump" -> File("whole") [] OTHER -> x.dump) \in Stored
      /\ (CASE pc = "tar" -> File("partial") [] x.pc = "tar" -> File("whole") [] OTHER -> x.archive) \in Stored
  BY <1>2 DEF BackupRun
<1>5. /\ x.warned \in BOOLEAN /\ x.kept \in SUBSET Artifacts
      /\ (IF pc = "dump" THEN metadata ELSE x.holds) \in SUBSET Artifacts
      /\ (IF pc = "tar" THEN {a \in Artifacts : files[a] # "none"} ELSE x.todo) \in SUBSET Artifacts
  BY <1>1 DEF BackupRun
<1> QED
  BY <1>3, <1>4, <1>5 DEF Continues, Backup, BackupRun

LEMMA BeginsKeeps ==
  ASSUME BackupInv, NEW b \in Stamps, Begins(b)
  PROVE  BackupInv'
<1>1. PICK x \in BackupRun : x = backups[b] /\ x.pc = "none" /\ x.dump = None /\ x.archive = None
  BY DEF BackupInv, BackupTypeOK, Begins, GoodRun
<1>2. PICK y \in BackupRun :
        /\ y = Continues(x, "dump") /\ backups' = [backups EXCEPT ![b] = y]
        /\ Young(File("partial"))
  BY <1>1, ContinuesIsTyped DEF Begins, After
<1>3. y.pc = "dump" /\ y.dump = File("partial") /\ y.archive = None /\ y.holds = metadata
  BY <1>1, <1>2 DEF Continues, Backup
<1>4. \A a \in metadata : a \in used /\ \A h \in Handlers : ~InImport(h, a)
  BY DEF BackupInv, ArtifactInv, ArtifactTypeOK, GoodArtifact
<1>5. GoodRun(y) /\ GoodContents(y)
  BY <1>2, <1>3, <1>4 DEF GoodRun, GoodContents, None
<1>6. /\ UNCHANGED <<artifactVars, date, verifier>>
      /\ status' \in {status, "torn", "pending"}
  BY <1>1 DEF Begins
<1>7. /\ Dumped(b) => y.dump.is = "whole"
      /\ Archived(b) => y.archive.is = "whole"
      /\ y.pc \in {"prune", "done"} => (y.dump.is = "whole" /\ y.archive.is = "whole")
                                       \/ backups[b].pc \in {"prune", "done"}
  BY <1>1, <1>3 DEF Dumped, Archived, None
<1> QED
  BY <1>2, <1>5, <1>6, <1>7, RunGoesOn

LEMMA DumpEndsKeeps ==
  ASSUME BackupInv, NEW b \in Stamps, DumpEnds(b)
  PROVE  BackupInv'
<1>1. PICK x \in BackupRun : x = backups[b] /\ x.pc = "dump" /\ GoodRun(x) /\ GoodContents(x)
  BY DEF BackupInv, BackupTypeOK, DumpEnds
<1>2. PICK y \in BackupRun :
        /\ y = Continues(x, "tar") /\ backups' = [backups EXCEPT ![b] = y]
        /\ Young(File("partial")) /\ Young(File("whole"))
  BY <1>1, ContinuesIsTyped DEF DumpEnds, After
<1>3. /\ y.pc = "tar" /\ y.dump = File("whole") /\ y.archive = File("partial")
      /\ y.holds = x.holds /\ y.kept = x.kept /\ y.todo = {a \in Artifacts : files[a] # "none"}
  BY <1>1, <1>2 DEF Continues, Backup
<1>4. Held(y) \subseteq y.todo
  BY <1>3 DEF Held, BackupInv, ArtifactInv, ArtifactTypeOK, GoodArtifact
<1>5. y.dump.is = "whole" /\ y.archive.is = "partial"
  BY <1>3 DEF File
<1>6. GoodRun(y) /\ GoodContents(y)
  BY <1>1, <1>2, <1>3, <1>4, <1>5 DEF GoodRun, GoodContents
<1> QED
  BY <1>1, <1>2, <1>3, <1>5, <1>6, RunGoesOn DEF DumpEnds, Truncates, After, Dumped, Archived, GoodRun

LEMMA TarReadsKeeps ==
  ASSUME BackupInv, NEW b \in Stamps, NEW a \in Artifacts, TarReads(b, a)
  PROVE  BackupInv'
<1>1. PICK x \in BackupRun : x = backups[b] /\ x.pc = "tar" /\ GoodRun(x) /\ GoodContents(x)
  BY DEF BackupInv, BackupTypeOK, TarReads
<1>2. PICK y : /\ backups' = [backups EXCEPT ![b] = y]
               /\ y = Backup(x.pc, x.dump, x.archive, IF files[a] = "none" THEN TRUE ELSE x.warned, x.holds,
                             IF files[a] = "whole" THEN x.kept \cup {a} ELSE x.kept, x.todo \ {a})
  BY <1>1 DEF TarReads
<1>3. /\ y \in BackupRun /\ y.pc = "tar" /\ y.dump = x.dump /\ y.archive = x.archive
      /\ y.holds = x.holds /\ y.kept = IF files[a] = "whole" THEN x.kept \cup {a} ELSE x.kept
      /\ y.todo = x.todo \ {a}
  BY <1>1, <1>2 DEF Backup, BackupRun
<1>4. a \in Held(x) => files[a] = "whole"
  BY DEF Held, BackupInv, ArtifactInv, GoodArtifact
<1>5. GoodRun(y) /\ GoodContents(y)
  BY <1>1, <1>3, <1>4 DEF GoodRun, GoodContents, Held
<1>6. /\ UNCHANGED <<artifactVars, date, verifier>>
      /\ status' \in {status, "torn", "pending"}
  BY <1>1 DEF TarReads
<1>7. /\ Dumped(b) => y.dump.is = "whole"
      /\ Archived(b) => y.archive.is = "whole"
      /\ y.pc \in {"prune", "done"} => (y.dump.is = "whole" /\ y.archive.is = "whole")
                                       \/ backups[b].pc \in {"prune", "done"}
  BY <1>1, <1>3 DEF Dumped, Archived
<1> QED
  BY <1>2, <1>3, <1>5, <1>6, <1>7, RunGoesOn

LEMMA TarEndsKeeps ==
  ASSUME BackupInv, NEW b \in Stamps, TarEnds(b)
  PROVE  BackupInv'
<1>1. PICK x \in BackupRun : x = backups[b] /\ x.pc = "tar" /\ x.todo = {} /\ GoodRun(x) /\ GoodContents(x)
  BY DEF BackupInv, BackupTypeOK, TarEnds
<1>2. PICK pc \in {"failed", "report"}, y \in BackupRun :
        /\ y = Continues(x, pc) /\ backups' = [backups EXCEPT ![b] = y] /\ Truncates(pc)
        /\ Young(File("whole"))
  <2>1. PICK pc \in {"failed", "report"} :
          backups' = [backups EXCEPT ![b] = Continues(x, pc)] /\ Truncates(pc)
    BY <1>1 DEF TarEnds, After
  <2> QED
    BY <1>1, <2>1, ContinuesIsTyped
<1>3. /\ y.pc = pc /\ y.dump = x.dump /\ y.archive = File("whole")
      /\ y.holds = x.holds /\ y.kept = x.kept
  BY <1>1, <1>2 DEF Continues, Backup
<1>4. GoodRun(y) /\ GoodContents(y)
  BY <1>1, <1>2, <1>3 DEF GoodRun, GoodContents, Held, File
<1>5. /\ UNCHANGED <<artifactVars, date, verifier>>
      /\ status' \in {status, "torn", "pending"}
  BY <1>2 DEF TarEnds, Truncates
<1>6. /\ Dumped(b) => y.dump.is = "whole"
      /\ Archived(b) => y.archive.is = "whole"
      /\ y.pc \in {"prune", "done"} => (y.dump.is = "whole" /\ y.archive.is = "whole")
                                       \/ backups[b].pc \in {"prune", "done"}
  BY <1>1, <1>2, <1>3 DEF Dumped, Archived, File
<1> QED
  BY <1>2, <1>4, <1>5, <1>6, RunGoesOn

LEMMA ReportsKeeps ==
  ASSUME BackupInv, NEW b \in Stamps, Reports(b)
  PROVE  BackupInv'
<1>1. PICK x \in BackupRun : x = backups[b] /\ x.pc = "report" /\ GoodRun(x) /\ GoodContents(x)
  BY DEF BackupInv, BackupTypeOK, Reports
<1>2. PICK y \in BackupRun : y = Continues(x, "prune") /\ backups' = [backups EXCEPT ![b] = y]
  BY <1>1, ContinuesIsTyped DEF Reports, After
<1>3. /\ y.pc = "prune" /\ y.dump = x.dump /\ y.archive = x.archive
      /\ y.holds = x.holds /\ y.kept = x.kept
  BY <1>1, <1>2 DEF Continues, Backup
<1>4. GoodRun(y) /\ GoodContents(y)
  BY <1>1, <1>3 DEF GoodRun, GoodContents, Held
<1> QED
  BY <1>1, <1>2, <1>3, <1>4, RunGoesOn DEF Reports, Dumped, Archived, GoodRun

LEMMA BackupFailsKeeps ==
  ASSUME BackupInv, NEW b \in Stamps, BackupFails(b)
  PROVE  BackupInv'
<1>1. PICK x \in BackupRun : x = backups[b] /\ GoodRun(x) /\ GoodContents(x)
  BY DEF BackupInv, BackupTypeOK
<1>a. PICK pc \in {"done", "failed"} :
        /\ pc = "done" => x.pc = "prune"
        /\ backups' = [backups EXCEPT ![b] =
             Backup(pc, x.dump, x.archive, x.warned, x.holds, x.kept, x.todo)]
  BY <1>1 DEF BackupFails
<1>b. PICK y : y = Backup(pc, x.dump, x.archive, x.warned, x.holds, x.kept, x.todo)
  OBVIOUS
<1>2. /\ pc \in {"done", "failed"}
      /\ pc = "done" => x.pc = "prune"
      /\ y = Backup(pc, x.dump, x.archive, x.warned, x.holds, x.kept, x.todo)
      /\ backups' = [backups EXCEPT ![b] = y]
  BY <1>a, <1>b
<1>3. /\ y \in BackupRun /\ y.pc = pc /\ y.dump = x.dump /\ y.archive = x.archive
      /\ y.holds = x.holds /\ y.kept = x.kept
  BY <1>1, <1>2 DEF Backup, BackupRun
<1>4. GoodRun(y) /\ GoodContents(y)
  BY <1>1, <1>2, <1>3 DEF GoodRun, GoodContents, Held
<1>5. /\ UNCHANGED <<artifactVars, date, verifier>>
      /\ status' \in {status, "torn", "pending"}
  BY <1>1 DEF BackupFails
<1>6. /\ Dumped(b) => y.dump.is = "whole"
      /\ Archived(b) => y.archive.is = "whole"
      /\ y.pc \in {"prune", "done"} => (y.dump.is = "whole" /\ y.archive.is = "whole")
                                       \/ backups[b].pc \in {"prune", "done"}
  BY <1>1, <1>2, <1>3 DEF Dumped, Archived
<1> QED
  BY <1>2, <1>3, <1>4, <1>5, <1>6, RunGoesOn

\* Deleting what is old leaves every run that goes on its files, so the one that
\* deletes leaves a pair.
LEMMA PrunesKeeps ==
  ASSUME BackupInv, NEW b \in Stamps, Prunes(b)
  PROVE  BackupInv'
<1>1. /\ BackupTypeOK /\ backups \in [Stamps -> BackupRun] /\ ArtifactInv'
      /\ UNCHANGED <<metadata, used, handler, doubted, date, verifier, status>>
  <2>1. UNCHANGED <<files, metadata, used, handler, faulty, doubted>>
    BY DEF artifactVars, Prunes
  <2> QED
    BY <2>1 DEF BackupInv, BackupTypeOK, Prunes,
       ArtifactInv, ArtifactTypeOK, GoodArtifact, InImport, Working, InHand, At
<1>2. \A f \in Stored : Kept(f) \in {f, None} /\ (Young(f) => Kept(f) = f)
  BY <1>1, BackupAssumption DEF Kept, Old, Young, BackupTypeOK, Stored
<1>3. None \in Stored
  BY BackupAssumption DEF None, Stored
<1>4. ASSUME NEW c \in Stamps
      PROVE  /\ backups'[c] \in BackupRun
             /\ GoodRun(backups[c])' /\ GoodContents(backups[c])'
             /\ c = b => Dumped(c)' /\ Archived(c)'
  <2>1. PICK x \in BackupRun : x = backups[c] /\ GoodRun(x) /\ GoodContents(x)
    BY <1>1 DEF BackupInv
  <2>2. PICK pc, y :
          /\ pc \in {x.pc, "done"}
          /\ y = backups'[c] /\ (pc = x.pc \/ c = b) /\ (c = b => x.pc = "prune" /\ pc = "done")
          /\ y = Backup(pc, Kept(x.dump), Kept(x.archive), x.warned, x.holds, x.kept, x.todo)
    BY <2>1 DEF Prunes, After
  <2>3. x.dump \in Stored /\ x.archive \in Stored
    BY <2>1 DEF BackupRun
  <2>4. /\ y.pc = pc /\ y.dump = Kept(x.dump) /\ y.archive = Kept(x.archive)
        /\ y.holds = x.holds /\ y.kept = x.kept /\ y.todo = x.todo
    BY <2>2 DEF Backup
  <2>5. y \in BackupRun
    BY <1>2, <1>3, <2>1, <2>2, <2>3 DEF Backup, BackupRun
  <2>6. GoodRun(y)
    BY <1>2, <2>1, <2>2, <2>3, <2>4 DEF GoodRun, None
  <2>7. GoodContents(y)
    BY <1>2, <2>1, <2>2, <2>3, <2>4 DEF GoodContents, Held, None, GoodRun
  <2>8. c = b => y.dump.is = "whole" /\ y.archive.is = "whole"
    BY <1>2, <2>1, <2>2, <2>3, <2>4 DEF GoodRun
  <2> QED
    BY <1>1, <2>2, <2>5, <2>6, <2>7, <2>8
    DEF GoodRun, Young, GoodContents, Held, InImport, Dumped, Archived
<1>5. backups' = [c \in Stamps |-> backups'[c]]
  BY DEF Prunes
<1>6. BackupTypeOK'
  BY <1>1, <1>4, <1>5 DEF BackupTypeOK, ArtifactInv
<1>7. /\ \E c \in Stamps : Dumped(c)' /\ Archived(c)'
      /\ \E c \in Stamps : Dumped(c)'
      /\ \E c \in Stamps : Archived(c)'
  BY <1>4
<1> QED
  BY <1>1, <1>4, <1>6, <1>7 DEF BackupInv

\* The metadata of an artifact is stored once, by the one request that imports it.
LEMMA ImportedOnce ==
  ASSUME ArtifactInv, ArtifactNext
  PROVE  /\ used \subseteq used' /\ doubted \subseteq doubted'
         /\ \A a \in Artifacts : a \in metadata' =>
              a \in metadata \/ \E h \in Handlers : InImport(h, a)
         /\ \A h \in Handlers, a \in Artifacts : InImport(h, a)' =>
              InImport(h, a) \/ a \notin used
<1>1. /\ ArtifactTypeOK
      /\ handler \in [Handlers ->
           [pc : {"idle", "created", "persisted", "undoing", "unlinking", "found"},
            artifact : Artifacts \cup {NoArtifact}]]
  BY DEF ArtifactInv, ArtifactTypeOK
<1> DEFINE Goal == /\ used \subseteq used' /\ doubted \subseteq doubted'
                   /\ \A a \in Artifacts : a \in metadata' =>
                        a \in metadata \/ \E h \in Handlers : InImport(h, a)
                   /\ \A h \in Handlers, a \in Artifacts : InImport(h, a)' =>
                        InImport(h, a) \/ a \notin used
<1> SUFFICES Goal
  OBVIOUS
<1>2. ASSUME NEW h \in Handlers, \E a \in Artifacts : BeginImport(h, a)
      PROVE  Goal
  BY <1>1, <1>2 DEF BeginImport, Goes, InImport
<1>3. ASSUME NEW h \in Handlers, NEW result, Persist(h, result)
      PROVE  Goal
  BY <1>1, <1>3, ArtifactAssumption DEF Persist, Goes, Leaves, AtRest, InImport, At
<1>4. ASSUME NEW h \in Handlers, StoreMetadata(h) \/ \E committed \in BOOLEAN : StoreFails(h, committed)
      PROVE  Goal
  BY <1>1, <1>4, ArtifactAssumption DEF StoreMetadata, StoreFails, Undoes, Goes, Leaves, AtRest, InImport, At
<1>5. ASSUME NEW h \in Handlers, NEW a \in Artifacts, RemoveArtifact(h, a) \/ FindArtifact(h, a)
      PROVE  Goal
  BY <1>1, <1>5 DEF RemoveArtifact, MetadataFirst, FindArtifact, Goes, InImport
<1>6. ASSUME NEW h \in Handlers, DeleteArtifact(h) \/ ReadArtifact(h) \/ CutOff(h)
      PROVE  Goal
  BY <1>1, <1>6 DEF DeleteArtifact, ReadArtifact, CutOff, Leaves, AtRest, InImport
<1> HIDE DEF Goal
<1> QED
  BY <1>2, <1>3, <1>4, <1>5, <1>6 DEF ArtifactNext

\* Imports and removals beside the backups.
LEMMA ArtifactsBeside ==
  ASSUME BackupInv, ArtifactNext, UNCHANGED <<date, backups, verifier, status>>
  PROVE  BackupInv'
<1>1. ArtifactInv'
  BY ArtifactStep DEF BackupInv, ArtifactNext
<1>2. BackupTypeOK'
  BY <1>1 DEF BackupInv, BackupTypeOK, ArtifactInv
<1>3. ASSUME NEW b \in Stamps
      PROVE  GoodRun(backups[b])' /\ GoodContents(backups[b])'
  <2>1. /\ backups[b] \in BackupRun /\ GoodRun(backups[b]) /\ GoodContents(backups[b])
        /\ backups[b].holds \subseteq Artifacts
    BY DEF BackupInv, BackupTypeOK, BackupRun
  <2>2. \A a \in backups[b].holds :
          /\ a \in used' /\ \A h \in Handlers : ~InImport(h, a)'
          /\ a \in metadata' => a \in metadata
          /\ a \in doubted => a \in doubted'
    BY <2>1, ImportedOnce DEF GoodContents, BackupInv
  <2>3. Held(backups[b])' \subseteq Held(backups[b])
    BY <2>2 DEF Held
  <2> QED
    BY <2>1, <2>2, <2>3 DEF GoodRun, Young, GoodContents
<1> QED
  BY <1>1, <1>2, <1>3 DEF BackupInv, Dumped, Archived

\* The verifier reads, and reports what it found whole.
LEMMA VerifierKeeps ==
  ASSUME BackupInv,
         (\E d, a \in Stamps : Picks(d, a)) \/ Restores \/ Lists \/ ReportsVerified \/ VerifyFails
  PROVE  BackupInv'
<1>1. /\ BackupTypeOK
      /\ UNCHANGED <<files, metadata, used, handler, faulty, doubted, date, backups>>
  BY DEF BackupInv, Picks, Restores, Lists, ReportsVerified, VerifyFails, artifactVars
<1>2. ArtifactInv' /\ \A b \in Stamps : GoodRun(backups[b])' /\ GoodContents(backups[b])'
  BY <1>1 DEF BackupInv, GoodRun, Young, GoodContents, Held,
     ArtifactInv, ArtifactTypeOK, GoodArtifact, InImport, Working, InHand, At
<1>3. \A b \in Stamps : (Dumped(b)' <=> Dumped(b)) /\ (Archived(b)' <=> Archived(b))
  BY <1>1 DEF Dumped, Archived
<1>4. /\ verifier' \in [pc : {"idle", "restoring", "listing", "writing"},
                         dump : 0..MaxBackups, archive : 0..MaxBackups]
      /\ status' \in {"absent", "torn", "pending", "ok"}
  BY <1>1, BackupAssumption
  DEF Picks, Restores, Lists, ReportsVerified, VerifyFails, VerifierIdle, Truncates, Stamps, BackupTypeOK
<1>5. /\ verifier'.pc \in {"restoring", "listing"} => verifier'.dump \in Stamps /\ verifier'.archive \in Stamps
      /\ verifier'.pc \in {"listing", "writing"} \/ status' = "ok" => \E b \in Stamps : Dumped(b)
      /\ verifier'.pc = "writing" \/ status' = "ok" => \E b \in Stamps : Archived(b)
  BY DEF Picks, Restores, Lists, ReportsVerified, VerifyFails, VerifierIdle, Truncates,
     BackupInv, DumpOf, ArchiveOf, Dumped, Archived
<1>6. BackupTypeOK'
  BY <1>1, <1>2, <1>4 DEF BackupTypeOK, ArtifactInv
<1> QED
  BY <1>1, <1>2, <1>3, <1>5, <1>6 DEF BackupInv

\* A day passes: no run is older than files are kept.
LEMMA DayKeeps ==
  ASSUME BackupInv, NextDay
  PROVE  BackupInv'
<1>1. /\ BackupTypeOK /\ backups \in [Stamps -> BackupRun]
      /\ UNCHANGED <<files, metadata, used, handler, faulty, doubted, backups, verifier, status>>
      /\ date' = date + 1 /\ date \in 0..LastDay /\ date' \in 0..LastDay
  BY BackupAssumption DEF BackupInv, BackupTypeOK, NextDay, artifactVars
<1>2. ArtifactInv' /\ \A b \in Stamps : GoodContents(backups[b])'
  BY <1>1 DEF BackupInv, GoodContents, Held,
     ArtifactInv, ArtifactTypeOK, GoodArtifact, InImport, Working, InHand, At
<1>3. ASSUME NEW b \in Stamps
      PROVE  GoodRun(backups[b])'
  <2>1. GoodRun(backups[b]) /\ backups[b].dump.at \in Nat /\ backups[b].archive.at \in Nat
    BY <1>1, BackupAssumption DEF BackupInv, BackupRun, Stored
  <2>2. backups[b].pc \in {"dump", "tar", "report", "prune"} =>
          /\ date - backups[b].dump.at < Keep
          /\ date - backups[b].archive.at < Keep \/ backups[b].archive.is = "none"
    BY DEF NextDay, DumpOf, ArchiveOf
  <2> QED
    BY <1>1, <2>1, <2>2, BackupAssumption DEF GoodRun, Young
<1>4. BackupTypeOK'
  BY <1>1, <1>2 DEF BackupTypeOK, ArtifactInv
<1> QED
  BY <1>1, <1>2, <1>3, <1>4 DEF BackupInv, Dumped, Archived

LEMMA BackupInductive == BackupSpec => []BackupInv
<1>1. BackupInit => BackupInv
  <2> SUFFICES ASSUME BackupInit PROVE BackupInv
    OBVIOUS
  <2>1. ArtifactInv
    BY ArtifactAssumption
    DEF BackupInit, ArtifactInit, ArtifactInv, ArtifactTypeOK, GoodArtifact, InImport, Working, InHand, At, AtRest
  <2>2. Unbegun \in BackupRun /\ None \in Stored
    BY BackupAssumption DEF Unbegun, Backup, BackupRun, Stored, None
  <2>3. BackupTypeOK
    BY <2>1, <2>2, BackupAssumption DEF BackupInit, BackupTypeOK, ArtifactInv, VerifierIdle
  <2> QED
    BY <2>1, <2>2, <2>3
    DEF BackupInit, BackupInv, GoodRun, GoodContents, Unbegun, Backup, None, VerifierIdle
<1>2. BackupInv /\ [BackupNext]_backupVars => BackupInv'
  <2>1. BackupInv /\ UNCHANGED backupVars => BackupInv'
    BY DEF backupVars, artifactVars, BackupInv, BackupTypeOK, GoodRun, Young, GoodContents, Held,
       ArtifactInv, ArtifactTypeOK, GoodArtifact, InImport, Working, InHand, At, Dumped, Archived
  <2> QED
    BY <2>1, ArtifactsBeside, BeginsKeeps, DumpEndsKeeps, TarReadsKeeps, TarEndsKeeps, ReportsKeeps,
       PrunesKeeps, BackupFailsKeeps, VerifierKeeps, DayKeeps
    DEF BackupNext
<1> QED
  BY <1>1, <1>2, PTL DEF BackupSpec

\* Once a backup or a verification is reported a pair stays, whatever later runs
\* fail or delete, and a pair restores to metadata that has its files.
THEOREM ReportedBackupsRestore == BackupSpec => []BackupsRestorable
<1>1. BackupInv => BackupsRestorable
  <2> SUFFICES ASSUME BackupInv PROVE BackupsRestorable
    OBVIOUS
  <2>1. \A b \in Stamps : /\ Dumped(b) <=> DumpOf[b].is = "whole"
                          /\ Archived(b) <=> ArchiveOf[b].is = "whole"
    BY DEF Dumped, Archived, DumpOf, ArchiveOf
  <2>2. \A b \in Stamps : Archived(b) =>
          backups[b].holds \ backups[b].kept \subseteq (Artifacts \ metadata) \cup doubted
    BY DEF BackupInv, GoodContents, Held, Archived, BackupTypeOK, BackupRun
  <2> QED
    BY <2>1, <2>2 DEF BackupInv, BackupsRestorable
<1> QED
  BY <1>1, BackupInductive, PTL

=============================================================================
