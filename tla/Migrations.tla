------------------------------- MODULE Migrations -------------------------------
(***************************************************************************)
(* The PostgreSQL schema (src/storage-migrations.js) as the starting       *)
(* server (initializePostgres of src/storage.js) and the operator's script *)
(* (scripts/migrate-storage.js) bring it up to date, several of them       *)
(* perhaps at the same time and from different releases.                   *)
(*                                                                         *)
(* A run of the migrations is one transaction: it plans from what is       *)
(* committed, and its first statement that changes the schema waits for    *)
(* the other transaction that did.                                         *)
(***************************************************************************)
EXTENDS FiniteSets, Naturals

CONSTANTS
  Versions,     \* versions of the migrations
  Checksums,    \* what a release may have computed for a migration
  NoChecksum,   \* the migration is not recorded
  Starters,     \* servers and scripts
  NoStarter     \* nobody changes the schema

ASSUME MigrationAssumption == NoChecksum \notin Checksums /\ NoStarter \notin Starters

VARIABLES
  applied,      \* marginlift_schema_migrations
  relations,    \* versions whose tables exist
  state,        \* marginlift_state: who seeded its row
  snapshots,    \* marginlift_migration_snapshots
  locker,       \* who has uncommitted changes of the schema
  starter       \* where each starter is, and what it carries

migrationVars == <<applied, relations, state, snapshots, locker, starter>>

\* "mode" is what the starter does: a server outside production migrates and
\* validates, one in production validates only, the script takes a snapshot and
\* makes a dry run before it does both.
Modes == {"development", "production", "script"}

Starter == [pc : {"off", "snapshot", "planning", "planned", "migrated", "validating",
                  "ready", "failed"},
            mode : Modes, dry : BOOLEAN, pending : SUBSET Versions,
            release : [Versions -> Checksums]]

MigrationTypeOK ==
  /\ applied \in [Versions -> Checksums \cup {NoChecksum}]
  /\ relations \subseteq Versions
  /\ state \in Starters \cup {NoStarter}
  /\ locker \in Starters \cup {NoStarter}
  /\ starter \in [Starters -> Starter]

MigrationInit ==
  /\ applied = [v \in Versions |-> NoChecksum]
  /\ relations = {}
  /\ state = NoStarter
  /\ snapshots = {}
  /\ locker = NoStarter
  /\ starter \in [Starters -> {s \in Starter : s.pc = "off" /\ s.pending = {} /\ ~s.dry}]

IsAt(s, pc) == starter[s].pc = pc

\* A starter goes on; its mode and its release stay.
Carries(s, pc, dry, pending) ==
  starter' = [starter EXCEPT ![s] =
    [pc |-> pc, mode |-> starter[s].mode, dry |-> dry, pending |-> pending,
     release |-> starter[s].release]]

Steps(s, pc) == Carries(s, pc, starter[s].dry, starter[s].pending)

\* Mutant: a checksum that differs is not noticed.
NoMismatch(s) == TRUE

\* planMigrations throws when a recorded checksum is not the release's.
PlanAgrees(s) ==
  \A v \in Versions : applied[v] \in {NoChecksum, starter[s].release[v]}

\* planMigrations
Pending == {v \in Versions : applied[v] = NoChecksum}

\* The process starts; production goes to the validation at once.
Start(s) ==
  /\ IsAt(s, "off")
  /\ LET mode == starter[s].mode IN
       \/ mode = "script" /\ Carries(s, "snapshot", TRUE, {})
       \/ mode = "development" /\ Carries(s, "planning", FALSE, {})
       \/ mode = "production" /\ Carries(s, "validating", FALSE, {})
  /\ UNCHANGED <<applied, relations, state, snapshots, locker>>

\* readStateSnapshot and readJobSnapshot read a table only when it exists.
StateSnapshot == IF relations = {} THEN NoStarter ELSE state

\* createMigrationSnapshot
Snapshot(s) ==
  /\ IsAt(s, "snapshot")
  /\ snapshots' = snapshots \cup {[applied |-> applied, state |-> StateSnapshot]}
  /\ Steps(s, "planning")
  /\ UNCHANGED <<applied, relations, state, locker>>

\* runPostgresMigrations: BEGIN, the control tables, the plan.
Plan(s) ==
  /\ IsAt(s, "planning")
  /\ Carries(s, IF PlanAgrees(s) THEN "planned" ELSE "failed", starter[s].dry, Pending)
  /\ UNCHANGED <<applied, relations, state, snapshots, locker>>

\* The first migration.up of the plan: CREATE TABLE IF NOT EXISTS, the seed.
Migrate(s) ==
  /\ IsAt(s, "planned")
  /\ starter[s].pending # {}
  /\ locker = NoStarter
  /\ locker' = s
  /\ Steps(s, "migrated")
  /\ UNCHANGED <<applied, relations, state, snapshots>>

Commits(s) == ~starter[s].dry

\* A transaction that finds its version recorded meanwhile fails on the key.
Conflicts(s) == \E v \in starter[s].pending : applied[v] # NoChecksum

\* The end of the transaction: ROLLBACK of a dry run, after which the script
\* plans again, or COMMIT; ON CONFLICT keeps the row that is there.
EndMigration(s) ==
  /\ IF starter[s].pending = {} THEN IsAt(s, "planned") ELSE IsAt(s, "migrated")
  /\ Commits(s) => ~Conflicts(s)
  /\ IF Commits(s)
       THEN /\ applied' = [v \in Versions |->
                            IF v \in starter[s].pending THEN starter[s].release[v] ELSE applied[v]]
            /\ relations' = relations \cup starter[s].pending
            /\ state' = IF state = NoStarter /\ starter[s].pending # {} THEN s ELSE state
       ELSE UNCHANGED <<applied, relations, state>>
  /\ Carries(s, IF starter[s].dry THEN "planning" ELSE "validating", FALSE, starter[s].pending)
  /\ locker' = IF locker = s THEN NoStarter ELSE locker
  /\ UNCHANGED snapshots

\* A statement fails, or the process dies: ROLLBACK.
MigrationFails(s) ==
  /\ ~IsAt(s, "off") /\ ~IsAt(s, "ready") /\ ~IsAt(s, "failed")
  /\ Steps(s, "failed")
  /\ locker' = IF locker = s THEN NoStarter ELSE locker
  /\ UNCHANGED <<applied, relations, state, snapshots>>

\* validatePostgresMigrations
Validates(s) ==
  /\ PlanAgrees(s)
  /\ Pending = {}
  /\ relations = Versions
  /\ state # NoStarter

Validate(s) ==
  /\ IsAt(s, "validating")
  /\ Steps(s, IF Validates(s) THEN "ready" ELSE "failed")
  /\ UNCHANGED <<applied, relations, state, snapshots, locker>>

MigrationNext ==
  \E s \in Starters :
    \/ Start(s)
    \/ Snapshot(s)
    \/ Plan(s)
    \/ Migrate(s)
    \/ EndMigration(s)
    \/ MigrationFails(s)
    \/ Validate(s)

MigrationSpec == MigrationInit /\ [][MigrationNext]_migrationVars

-----------------------------------------------------------------------------
(* Properties                                                              *)

\* A server that is up runs on the schema of its own release, and goes on to,
\* whatever other servers and scripts of other releases do beside it.
ReadyOnItsSchema ==
  \A s \in Starters : IsAt(s, "ready") =>
    applied = starter[s].release /\ relations = Versions /\ state # NoStarter


=============================================================================
