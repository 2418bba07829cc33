------------------------------ MODULE Backups ------------------------------
(***************************************************************************)
(* ops/vm/backup.sh and ops/vm/verify-backup.sh beside a serving platform: *)
(* a dump of the database and then an archive of the uploaded files, taken *)
(* one after the other while imports and removals go on; a status file     *)
(* rewritten in place; old files deleted.  The timer and a deployment may  *)
(* run backups at the same time, each may fail at any step, and what it    *)
(* wrote stays.  The dates in the status file are left out.                *)
(***************************************************************************)
EXTENDS ArtifactFiles

CONSTANTS
  MaxBackups,   \* bound on the runs of backup.sh
  Keep,         \* days a file is kept: find -mtime +14
  LastDay       \* bound on the calendar

ASSUME BackupAssumption == MaxBackups \in Nat /\ Keep \in Nat /\ LastDay \in Nat

VARIABLES
  date,
  backups,      \* each run of backup.sh with the two files it writes
  verifier,     \* the run of verify-backup.sh and the files it picked
  status        \* verificationStatus in status.json

backupVars == <<artifactVars, date, backups, verifier, status>>

Stamps == 1..MaxBackups
None == [is |-> "none", at |-> 0]

Stored == [is : {"none", "partial", "whole"}, at : 0..LastDay]

BackupRun ==
  [pc : {"none", "dump", "tar", "report", "prune", "done", "failed"},
   dump : Stored, archive : Stored, warned : BOOLEAN,
   holds : SUBSET Artifacts, kept : SUBSET Artifacts, todo : SUBSET Artifacts]

BackupTypeOK ==
  /\ ArtifactTypeOK
  /\ date \in 0..LastDay
  /\ backups \in [Stamps -> BackupRun]
  /\ verifier \in [pc : {"idle", "restoring", "listing", "writing"},
                   dump : 0..MaxBackups, archive : 0..MaxBackups]
  /\ status \in {"absent", "torn", "pending", "ok"}

Backup(pc, dump, archive, warned, holds, kept, todo) ==
  [pc |-> pc, dump |-> dump, archive |-> archive, warned |-> warned,
   holds |-> holds, kept |-> kept, todo |-> todo]

Unbegun == Backup("none", None, None, FALSE, {}, {}, {})

VerifierIdle == [pc |-> "idle", dump |-> 0, archive |-> 0]

BackupInit ==
  /\ ArtifactInit
  /\ date = 0
  /\ backups = [b \in Stamps |-> Unbegun]
  /\ verifier = VerifierIdle
  /\ status = "absent"

-----------------------------------------------------------------------------
(* backup.sh                                                               *)

File(is) == [is |-> is, at |-> date]

\* Mutant: the files are archived before the database is dumped.
FilesFirst(pc) ==
  [none |-> "tar", tar |-> "dump", dump |-> "report", report |-> "prune", prune |-> "done"][pc]

\* The order of the commands
After(pc) ==
  [none |-> "dump", dump |-> "tar", tar |-> "report", report |-> "prune", prune |-> "done"][pc]

\* A command ends, which leaves its file whole, and the next one opens its own:
\* pg_dump takes its snapshot, tar lists the directory.
Continues(x, pc) ==
  Backup(pc,
         CASE pc = "dump" -> File("partial") [] x.pc = "dump" -> File("whole") [] OTHER -> x.dump,
         CASE pc = "tar" -> File("partial") [] x.pc = "tar" -> File("whole") [] OTHER -> x.archive,
         x.warned,
         IF pc = "dump" THEN metadata ELSE x.holds,
         x.kept,
         IF pc = "tar" THEN {a \in Artifacts : files[a] # "none"} ELSE x.todo)

\* The status file is truncated before it is written.
Truncates(pc) == IF pc = "report" THEN status' = "torn" ELSE UNCHANGED status

Begins(b) ==
  /\ backups[b].pc = "none"
  /\ \A c \in Stamps : c < b => backups[c].pc # "none"
  /\ backups' = [backups EXCEPT ![b] = Continues(@, After("none"))]
  /\ UNCHANGED <<artifactVars, date, verifier, status>>

DumpEnds(b) ==
  /\ backups[b].pc = "dump"
  /\ backups' = [backups EXCEPT ![b] = Continues(@, After("dump"))]
  /\ Truncates(After("dump"))
  /\ UNCHANGED <<artifactVars, date, verifier>>

\* A file removed since it was listed is a warning, and tar's exit status.
TarReads(b, a) ==
  /\ backups[b].pc = "tar"
  /\ a \in backups[b].todo
  /\ LET x == backups[b] IN
       backups' = [backups EXCEPT ![b] =
         Backup(x.pc, x.dump, x.archive, IF files[a] = "none" THEN TRUE ELSE x.warned, x.holds,
                IF files[a] = "whole" THEN x.kept \cup {a} ELSE x.kept, x.todo \ {a})]
  /\ UNCHANGED <<artifactVars, date, verifier, status>>

TarEnds(b) ==
  /\ backups[b].pc = "tar"
  /\ backups[b].todo = {}
  /\ LET next == IF backups[b].warned THEN "failed" ELSE After("tar") IN
       /\ backups' = [backups EXCEPT ![b] = Continues(@, next)]
       /\ Truncates(next)
  /\ UNCHANGED <<artifactVars, date, verifier>>

Reports(b) ==
  /\ backups[b].pc = "report"
  /\ backups' = [backups EXCEPT ![b] = Continues(@, After("report"))]
  /\ status' = "pending"
  /\ UNCHANGED <<artifactVars, date, verifier>>

Old(f) == date - f.at > Keep
Kept(f) == IF Old(f) THEN None ELSE f

Prunes(b) ==
  /\ backups[b].pc = "prune"
  /\ backups' = [c \in Stamps |->
       LET x == backups[c] IN
         Backup(IF c = b THEN After("prune") ELSE x.pc, Kept(x.dump), Kept(x.archive),
                x.warned, x.holds, x.kept, x.todo)]
  /\ UNCHANGED <<artifactVars, date, verifier, status>>

\* set -e: a command fails, or the machine stops.
BackupFails(b) ==
  /\ backups[b].pc \in {"dump", "tar", "report", "prune"}
  /\ LET x == backups[b] IN
       backups' = [backups EXCEPT ![b] =
         Backup(IF x.pc = "prune" THEN "done" ELSE "failed", x.dump, x.archive, x.warned,
                x.holds, x.kept, x.todo)]
  /\ UNCHANGED <<artifactVars, date, verifier, status>>

-----------------------------------------------------------------------------
(* verify-backup.sh                                                        *)

\* The newest by modification time, with no regard to the other.
NewestOf(some, b) ==
  /\ some[b].is # "none"
  /\ \A c \in Stamps : some[c].is # "none" => some[c].at <= some[b].at

DumpOf == [b \in Stamps |-> backups[b].dump]
ArchiveOf == [b \in Stamps |-> backups[b].archive]

Picks(d, a) ==
  /\ verifier.pc = "idle"
  /\ NewestOf(DumpOf, d) /\ NewestOf(ArchiveOf, a)
  /\ verifier' = [pc |-> "restoring", dump |-> d, archive |-> a]
  /\ UNCHANGED <<artifactVars, date, backups, status>>

\* pg_restore --exit-on-error, and the one row of marginlift_state is there.
Restores ==
  /\ verifier.pc = "restoring"
  /\ DumpOf[verifier.dump].is = "whole"
  /\ verifier' = [pc |-> "listing", dump |-> verifier.dump, archive |-> verifier.archive]
  /\ UNCHANGED <<artifactVars, date, backups, status>>

\* tar -tzf, after which the status file is opened.
Lists ==
  /\ verifier.pc = "listing"
  /\ ArchiveOf[verifier.archive].is = "whole"
  /\ verifier' = [pc |-> "writing", dump |-> verifier.dump, archive |-> verifier.archive]
  /\ Truncates("report")
  /\ UNCHANGED <<artifactVars, date, backups>>

ReportsVerified ==
  /\ verifier.pc = "writing"
  /\ verifier' = VerifierIdle
  /\ status' = "ok"
  /\ UNCHANGED <<artifactVars, date, backups>>

\* A partial or vanished file, a failing command, or the machine stops.
VerifyFails ==
  /\ verifier.pc # "idle"
  /\ verifier' = VerifierIdle
  /\ UNCHANGED <<artifactVars, date, backups, status>>

-----------------------------------------------------------------------------

\* No backup takes longer than files are kept.
NextDay ==
  /\ date < LastDay
  /\ \A b \in Stamps : backups[b].pc \in {"dump", "tar", "report", "prune"} =>
       /\ date - DumpOf[b].at < Keep
       /\ date - ArchiveOf[b].at < Keep \/ ArchiveOf[b].is = "none"
  /\ date' = date + 1
  /\ UNCHANGED <<artifactVars, backups, verifier, status>>

BackupNext ==
  \/ ArtifactNext /\ UNCHANGED <<date, backups, verifier, status>>
  \/ \E b \in Stamps :
       \/ Begins(b)
       \/ DumpEnds(b)
       \/ \E a \in Artifacts : TarReads(b, a)
       \/ TarEnds(b)
       \/ Reports(b)
       \/ Prunes(b)
       \/ BackupFails(b)
  \/ \E d, a \in Stamps : Picks(d, a)
  \/ Restores
  \/ Lists
  \/ ReportsVerified
  \/ VerifyFails
  \/ NextDay

BackupSpec == BackupInit /\ [][BackupNext]_backupVars

-----------------------------------------------------------------------------
(* Properties                                                              *)

\* Once a backup is reported one whole pair stays on disk, and where a
\* verification is reported a dump and an archive do, whatever later runs fail
\* or delete.  A pair restores to metadata whose files are in the archive: only
\* an artifact removed since may lack its file, as one whose COMMIT's reply was
\* lost may.
BackupsRestorable ==
  LET whole(b) == DumpOf[b].is = "whole" /\ ArchiveOf[b].is = "whole" IN
  /\ (\E b \in Stamps : backups[b].pc \in {"prune", "done"}) => \E b \in Stamps : whole(b)
  /\ status = "ok" => \E d, a \in Stamps : DumpOf[d].is = "whole" /\ ArchiveOf[a].is = "whole"
  /\ \A b \in Stamps : whole(b) =>
       backups[b].holds \ backups[b].kept \subseteq (Artifacts \ metadata) \cup doubted

=============================================================================
