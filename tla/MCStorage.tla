------------------------------ MODULE MCStorage ------------------------------
(***************************************************************************)
(* The two halves of src/storage.js, the document and the job queue, for   *)
(* TLC: they share no state, and each behaviour is one of one half (the    *)
(* variable "half") while the other rests.                                 *)
(***************************************************************************)
EXTENDS JobQueue, DocumentStore

VARIABLE half

\* Bound: with PostgreSQL all jobs have one key, which is what makes inserts meet.
KeyBound ==
  LET one == CHOOSE key \in Keys : TRUE
  IN  storageDriver = "postgres" =>
        /\ \A j \in DOMAIN jobs : jobs[j].key = one
        /\ \A e \in Enqueuers : enqueuing[e] \in {NoKey, one}

StorageInit ==
  /\ half \in {"queue", "document"}
  /\ Init
  /\ StoreInit /\ driver = storageDriver

StorageNext ==
  \/ half = "queue" /\ Next /\ KeyBound' /\ UNCHANGED <<half, storeVars>>
  \/ half = "document" /\ StoreNext /\ UNCHANGED <<half, vars>>

StorageSpec ==
  /\ StorageInit
  /\ [][StorageNext]_<<half, vars, storeVars>>
  /\ Fairness
  /\ StoreFairness

=============================================================================
