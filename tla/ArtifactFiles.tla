------------------------------ MODULE ArtifactFiles ------------------------------
(***************************************************************************)
(* Uploaded files: src/artifact-store.js writes each of them encrypted     *)
(* beside the database, and src/server.js keeps their metadata in it.  The *)
(* two are not one transaction: an import writes the file, stores the      *)
(* metadata and deletes the file again when that fails; a removal takes    *)
(* the metadata first and the file after it.  Any call may fail, and the   *)
(* process may die between any two.                                        *)
(***************************************************************************)
EXTENDS Naturals

CONSTANTS
  Artifacts,    \* identifiers, each of them created once
  Handlers,     \* requests served at the same time
  NoArtifact    \* an idle handler

ASSUME ArtifactAssumption == NoArtifact \notin Artifacts

VARIABLES
  files,        \* the file of each artifact
  metadata,     \* db.artifacts
  used,         \* the identifiers createId has given out
  handler,      \* what each request works on and where it is
  faulty,       \* artifacts one of whose calls failed or was cut off by a crash
  doubted       \* artifacts whose COMMIT took effect and was reported failed

artifactVars == <<files, metadata, used, handler, faulty, doubted>>

AtRest == [pc |-> "idle", artifact |-> NoArtifact]

ArtifactTypeOK ==
  /\ files \in [Artifacts -> {"none", "partial", "whole"}]
  /\ {metadata, used, faulty, doubted} \subseteq SUBSET Artifacts
  /\ handler \in [Handlers ->
       [pc : {"idle", "created", "persisted", "undoing", "unlinking", "found"},
        artifact : Artifacts \cup {NoArtifact}]]

ArtifactInit ==
  /\ files = [a \in Artifacts |-> "none"]
  /\ metadata = {} /\ used = {} /\ faulty = {} /\ doubted = {}
  /\ handler = [h \in Handlers |-> AtRest]

At(h, pc) == handler[h].pc = pc
Goes(h, pc, a) == handler' = [handler EXCEPT ![h] = [pc |-> pc, artifact |-> a]]
Leaves(h) == handler' = [handler EXCEPT ![h] = AtRest]

-----------------------------------------------------------------------------
(* Import                                                                  *)

\* importCampaign and its like: the rows are analysed and an identifier is made.
BeginImport(h, a) ==
  /\ At(h, "idle")
  /\ a \notin used
  /\ used' = used \cup {a}
  /\ Goes(h, "created", a)
  /\ UNCHANGED <<files, metadata, faulty, doubted>>

\* persistArtifact; a write that fails leaves what it wrote, and is outside the
\* try of the import.
Persist(h, result) ==
  /\ At(h, "created")
  /\ LET a == handler[h].artifact IN
       /\ files' = [files EXCEPT ![a] = result]
       /\ IF result = "whole" THEN Goes(h, "persisted", a) /\ UNCHANGED faulty
                              ELSE Leaves(h) /\ faulty' = faulty \cup {a}
  /\ UNCHANGED <<metadata, used, doubted>>

\* The transaction that stores the analysis with the metadata.
StoreMetadata(h) ==
  /\ At(h, "persisted")
  /\ metadata' = metadata \cup {handler[h].artifact}
  /\ Leaves(h)
  /\ UNCHANGED <<files, used, faulty, doubted>>

\* Mutant: a failed transaction is reported and the file left.
Reported(h) == Leaves(h)

\* catch: await deleteArtifact
Undoes(h) == Goes(h, "undoing", handler[h].artifact)

\* It is refused or fails; or PostgreSQL commits it and the reply is lost.
StoreFails(h, committed) ==
  /\ At(h, "persisted")
  /\ LET a == handler[h].artifact IN
       /\ metadata' = IF committed THEN metadata \cup {a} ELSE metadata
       /\ doubted' = IF committed THEN doubted \cup {a} ELSE doubted
  /\ Undoes(h)
  /\ UNCHANGED <<files, used, faulty>>

-----------------------------------------------------------------------------
(* Removal and download                                                    *)

\* The transaction of removeArtifact
MetadataFirst(h, a) ==
  /\ a \in metadata
  /\ metadata' = metadata \ {a}
  /\ Goes(h, "unlinking", a)
  /\ UNCHANGED files

RemoveArtifact(h, a) ==
  /\ At(h, "idle")
  /\ MetadataFirst(h, a)
  /\ UNCHANGED <<used, faulty, doubted>>

\* deleteArtifact, after a removal or a failed import; a missing file is fine.
DeleteArtifact(h) ==
  /\ At(h, "undoing") \/ At(h, "unlinking")
  /\ files' = [files EXCEPT ![handler[h].artifact] = "none"]
  /\ Leaves(h)
  /\ UNCHANGED <<metadata, used, faulty, doubted>>

\* publicArtifact, of what getArtifacts lists and a client may ask for
Shown == metadata

\* downloadArtifact reads the metadata, then the file.
FindArtifact(h, a) ==
  /\ At(h, "idle")
  /\ a \in Shown
  /\ Goes(h, "found", a)
  /\ UNCHANGED <<files, metadata, used, faulty, doubted>>

\* readArtifact decrypts the file, or throws when it is not there any more.
ReadArtifact(h) ==
  /\ At(h, "found")
  /\ Leaves(h)
  /\ UNCHANGED <<files, metadata, used, faulty, doubted>>

\* unlink fails, or the process dies: what was begun stays as it is.
CutOff(h) ==
  /\ ~At(h, "idle")
  /\ faulty' = faulty \cup {handler[h].artifact}
  /\ Leaves(h)
  /\ UNCHANGED <<files, metadata, used, doubted>>

ArtifactNext ==
  \E h \in Handlers :
    \/ \E a \in Artifacts : BeginImport(h, a)
    \/ \E result \in {"none", "partial", "whole"} : Persist(h, result)
    \/ StoreMetadata(h)
    \/ \E committed \in BOOLEAN : StoreFails(h, committed)
    \/ \E a \in Artifacts : RemoveArtifact(h, a)
    \/ DeleteArtifact(h)
    \/ \E a \in Artifacts : FindArtifact(h, a)
    \/ ReadArtifact(h)
    \/ CutOff(h)

ArtifactSpec == ArtifactInit /\ [][ArtifactNext]_artifactVars

-----------------------------------------------------------------------------
(* Properties                                                              *)

InHand(a) == \E h \in Handlers : handler[h].artifact = a /\ ~At(h, "found")

\* Where no call failed and nothing crashed, files and metadata agree once the
\* requests are done, however imports that are refused and removals interleave.
\* Failing calls and crashes may leave a file nobody can name, but metadata
\* always has its file: only the lost reply of a COMMIT takes it away.
ArtifactsAccounted ==
  \A a \in Artifacts \ doubted :
    /\ a \in metadata => files[a] = "whole"
    /\ a \notin faulty \cup metadata /\ ~InHand(a) => files[a] = "none"

=============================================================================
