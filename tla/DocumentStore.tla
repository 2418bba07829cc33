------------------------------ MODULE DocumentStore ------------------------------
(***************************************************************************)
(* transact of src/storage.js, in both drivers.  The whole database is one *)
(* document.  With the JSON file a process runs its mutators one after the *)
(* other through a chain of promises, and each of them reads the file,     *)
(* writes a temporary file and renames it.  With PostgreSQL the document   *)
(* is one row, locked FOR UPDATE by one connection at a time.              *)
(*                                                                         *)
(* A mutator adds its own name to the document, so that the document shows *)
(* which of them it holds and in which order they saw each other.          *)
(***************************************************************************)
EXTENDS Naturals, Sequences, SequencesExt

CONSTANTS
  Txns,         \* calls of transact
  NoTxn         \* nobody holds the row

ASSUME StoreAssumption == NoTxn \notin Txns

VARIABLES
  driver,       \* storageDriver
  doc,          \* the file, or the committed row
  tmp,          \* the temporary file of the process
  queue,        \* jsonWriteQueue: the calls that have not settled, in order
  holder,       \* the transaction that locks the row
  pc,           \* where each call is
  copy,         \* the document as each call has read and changed it
  answer        \* what its caller learnt

storeVars == <<driver, doc, tmp, queue, holder, pc, copy, answer>>

Outcomes == {"none", "ok", "refused", "failed"}

StoreTypeOK ==
  /\ driver \in {"json", "postgres"}
  /\ doc \in Seq(Txns) /\ tmp \in Seq(Txns) /\ queue \in Seq(Txns)
  /\ copy \in [Txns -> Seq(Txns)]
  /\ holder \in Txns \cup {NoTxn}
  /\ pc \in [Txns -> {"idle", "waiting", "working", "changed", "stored", "settled"}]
  /\ answer \in [Txns -> Outcomes]

\* initializeJson writes createInitialDb when there is no file; the row is
\* seeded by the migrations.
StoreInit ==
  /\ driver \in {"json", "postgres"}
  /\ doc = <<>> /\ tmp = <<>> /\ queue = <<>> /\ holder = NoTxn
  /\ pc = [t \in Txns |-> "idle"]
  /\ copy = [t \in Txns |-> <<>>]
  /\ answer = [t \in Txns |-> "none"]

Goes(t, to) == pc' = [pc EXCEPT ![t] = to]

\* Mutant: a mutator that fails leaves the chain of promises broken.
OnlySuccessLeaves(t, a) == IF a = "ok" /\ queue # <<>> THEN Tail(queue) ELSE queue

\* operation.catch(() => undefined): the next call runs after this one however
\* it ended.
QueueAfter(t, a) == IF queue = <<>> THEN queue ELSE Tail(queue)

Settles(t, a) ==
  /\ Goes(t, "settled")
  /\ answer' = [answer EXCEPT ![t] = a]
  /\ queue' = QueueAfter(t, a)
  /\ holder' = IF holder = t THEN NoTxn ELSE holder

\* transact is called: the operation is chained, or a connection is taken.
Call(t) ==
  /\ pc[t] = "idle"
  /\ Goes(t, "waiting")
  /\ queue' = IF driver = "json" THEN Append(queue, t) ELSE queue
  /\ UNCHANGED <<driver, doc, tmp, holder, copy, answer>>

\* Mutant: a call does not wait for the ones before it.
NoTurn(t) == holder = NoTxn

MyTurn(t) == IF driver = "json" THEN Head(queue) = t ELSE holder = NoTxn

\* readDb, or SELECT ... FOR UPDATE
Read(t) ==
  /\ pc[t] = "waiting"
  /\ MyTurn(t)
  /\ copy' = [copy EXCEPT ![t] = doc]
  /\ holder' = IF driver = "postgres" THEN t ELSE holder
  /\ Goes(t, "working")
  /\ UNCHANGED <<driver, doc, tmp, queue, answer>>

Mutate(t) ==
  /\ pc[t] = "working"
  /\ copy' = [copy EXCEPT ![t] = Append(@, t)]
  /\ Goes(t, "changed")
  /\ UNCHANGED <<driver, doc, tmp, queue, holder, answer>>

\* The mutator throws: nothing is written, and ROLLBACK frees the row.
Throw(t) ==
  /\ pc[t] = "working"
  /\ Settles(t, "refused")
  /\ UNCHANGED <<driver, doc, tmp, copy>>

\* writeJsonFile up to the rename, or the UPDATE inside its transaction.
Store(t) ==
  /\ pc[t] = "changed"
  /\ tmp' = IF driver = "json" THEN copy[t] ELSE tmp
  /\ Goes(t, "stored")
  /\ UNCHANGED <<driver, doc, queue, holder, copy, answer>>

\* rename, whose caller learns of it later, or not when the process dies.
Rename(t) ==
  /\ driver = "json"
  /\ pc[t] = "stored"
  /\ doc # tmp
  /\ doc' = tmp
  /\ UNCHANGED <<driver, tmp, queue, holder, pc, copy, answer>>

Return(t) ==
  /\ driver = "json"
  /\ pc[t] = "stored"
  /\ doc = tmp
  /\ Settles(t, "ok")
  /\ UNCHANGED <<driver, doc, tmp, copy>>

\* COMMIT takes effect; its reply arrives or is lost with the connection, and
\* then the caller is told of a failure.
CommitRow(t, a) ==
  /\ driver = "postgres"
  /\ pc[t] = "stored"
  /\ doc' = copy[t]
  /\ Settles(t, a)
  /\ UNCHANGED <<driver, tmp, copy>>

\* No connection is had, or a read or a write fails before anything took effect.
CallFails(t) ==
  /\ pc[t] \in {"working", "changed", "stored"} \/ (driver = "postgres" /\ pc[t] = "waiting")
  /\ t \notin ToSet(doc)
  /\ Settles(t, "failed")
  /\ UNCHANGED <<driver, doc, tmp, copy>>

\* The process dies: its queue is gone, PostgreSQL rolls its transactions back,
\* and the file is what the last rename made it.  Nobody is answered.
Crash ==
  /\ LET lost == {t \in Txns : pc[t] \notin {"idle", "settled"}} IN
       /\ lost # {}
       /\ pc' = [t \in Txns |-> IF t \in lost THEN "settled" ELSE pc[t]]
       /\ answer' = [t \in Txns |-> IF t \in lost THEN "failed" ELSE answer[t]]
  /\ queue' = <<>>
  /\ holder' = NoTxn
  /\ UNCHANGED <<driver, doc, tmp, copy>>

Proceed(t) ==
  \/ Read(t)
  \/ Mutate(t)
  \/ Store(t)
  \/ Rename(t)
  \/ Return(t)
  \/ CommitRow(t, "ok")

StoreNext ==
  \/ \E t \in Txns : Call(t)
  \/ \E t \in Txns : Proceed(t)
  \/ \E t \in Txns : Throw(t)
  \/ \E t \in Txns : CommitRow(t, "failed")
  \/ \E t \in Txns : CallFails(t)
  \/ Crash

\* The event loop runs what is due, and the database answers.
StoreFairness == \A t \in Txns : WF_storeVars(Proceed(t))

StoreSpec == StoreInit /\ [][StoreNext]_storeVars /\ StoreFairness

-----------------------------------------------------------------------------
(* Properties                                                              *)

Promise == INSTANCE DocumentPromise

\* Both drivers keep the promise of one atomic document: no update is lost, no
\* refused mutator is seen, and success is only told of what is stored; on the
\* way every variable keeps its type.
DocumentPromised == Promise!PromiseSpec /\ []StoreTypeOK

\* Every call of transact settles, also behind calls that failed or were
\* refused: neither the chain of promises nor the row is held for ever.
CallsSettle == \A t \in Txns : pc[t] = "waiting" ~> pc[t] = "settled"

=============================================================================
