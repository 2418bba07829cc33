-------------------------- MODULE DocumentStoreProofs --------------------------
(***************************************************************************)
(* Proofs about DocumentStore, for any number of calls: both drivers of    *)
(* transact implement one atomic document.                                 *)
(*                                                                         *)
(* A call writes back a copy it read earlier, so an update is lost unless  *)
(* the document stood still meanwhile.  It does because one call at a time *)
(* is past its turn (OneInside), for a reason of its own in each driver:   *)
(* it is the first of the chain of promises, or it holds the row.          *)
(***************************************************************************)
EXTENDS DocumentStore, SequenceTheorems, TLAPS

Inside(t) == pc[t] \in {"working", "changed", "stored"}

OneInside == \A s, t \in Txns : Inside(s) /\ Inside(t) => s = t

\* Why a call that is not inside cannot enter while another one is.
Waits ==
  /\ driver = "json" =>
       /\ holder = NoTxn
       /\ \A t \in Txns : Inside(t) => queue # <<>> /\ Head(queue) = t
       /\ \A t \in Txns : pc[t] = "waiting" => \E i \in 1..Len(queue) : queue[i] = t
  /\ driver = "postgres" =>
       /\ queue = <<>>
       /\ \A t \in Txns : Inside(t) <=> holder = t

\* What a call holds of the document, at each of its stages.
GoodCopy(t) ==
  /\ pc[t] = "working" => copy[t] = doc
  /\ pc[t] = "changed" => copy[t] = Append(doc, t)
  /\ pc[t] = "stored" /\ driver = "postgres" => copy[t] = Append(doc, t)
  /\ pc[t] = "stored" /\ driver = "json" =>
       \/ tmp = doc /\ t \in ToSet(doc)
       \/ tmp = Append(doc, t) /\ t \notin ToSet(doc)

\* Only what was renamed or committed is in the document, and only the settled
\* have an answer.
Told(t) ==
  /\ t \in ToSet(doc) => pc[t] = "settled" \/ (pc[t] = "stored" /\ driver = "json")
  /\ pc[t] # "settled" => answer[t] = "none"

IInv ==
  /\ StoreTypeOK
  /\ OneInside
  /\ Waits
  /\ \A t \in Txns : GoodCopy(t)
  /\ \A t \in Txns : Told(t)

-----------------------------------------------------------------------------

\* An appended document is another one, and holds one call more.
LEMMA Appended ==
  ASSUME NEW s \in Seq(Txns), NEW t \in Txns
  PROVE  /\ Append(s, t) \in Seq(Txns)
         /\ Append(s, t) # s
         /\ ToSet(Append(s, t)) = ToSet(s) \cup {t}
<1>1. Append(s, t) \in Seq(Txns) /\ Len(Append(s, t)) = Len(s) + 1 /\ Len(s) \in Nat
  OBVIOUS
<1>2. \A i \in 1..Len(s) : Append(s, t)[i] = s[i]
  OBVIOUS
<1>3. Append(s, t)[Len(s) + 1] = t
  OBVIOUS
<1> QED
  BY <1>1, <1>2, <1>3 DEF ToSet

\* The empty document holds no call.
LEMMA NothingIn == ToSet(<<>>) = {}
BY DEF ToSet

\* The invariant holds before the first call, in either driver.
THEOREM Initially == StoreInit => IInv
<1> SUFFICES ASSUME StoreInit PROVE IInv
  OBVIOUS
<1>1. StoreTypeOK
  BY DEF StoreInit, StoreTypeOK, Outcomes
<1>2. OneInside /\ Waits
  BY StoreAssumption DEF StoreInit, OneInside, Waits, Inside
<1>3. \A t \in Txns : GoodCopy(t) /\ Told(t)
  BY NothingIn DEF StoreInit, GoodCopy, Told
<1> QED
  BY <1>1, <1>2, <1>3 DEF IInv

-----------------------------------------------------------------------------
(* Who is inside                                                           *)

\* What a call that settles leaves to the others.
LEMMA Settled ==
  ASSUME IInv, NEW t \in Txns, NEW a \in Outcomes, Settles(t, a), UNCHANGED driver,
         Inside(t) \/ (driver = "postgres" /\ pc[t] = "waiting")
  PROVE  /\ queue' \in Seq(Txns) /\ holder' \in Txns \cup {NoTxn}
         /\ pc' \in [Txns -> {"idle", "waiting", "working", "changed", "stored", "settled"}]
         /\ answer' \in [Txns -> Outcomes]
         /\ OneInside' /\ Waits'
<1> USE DEF IInv, StoreTypeOK
<1>1. /\ pc' \in [Txns -> {"idle", "waiting", "working", "changed", "stored", "settled"}]
      /\ pc'[t] = "settled"
      /\ \A u \in Txns \ {t} : pc'[u] = pc[u]
  BY DEF Settles, Goes
<1>2. answer' \in [Txns -> Outcomes] /\ holder' \in Txns \cup {NoTxn}
  BY DEF Settles
<1>3. queue' \in Seq(Txns)
  BY HeadTailProperties DEF Settles, QueueAfter
<1>4. OneInside'
  BY <1>1 DEF OneInside, Inside
<1>5. ASSUME driver = "json"
      PROVE  /\ holder' = NoTxn
             /\ \A u \in Txns : ~Inside(u)'
             /\ \A u \in Txns : pc'[u] = "waiting" => \E i \in 1..Len(queue') : queue'[i] = u
  <2>1. queue # <<>> /\ Head(queue) = t /\ holder = NoTxn
    BY <1>5 DEF Waits, Inside
  <2>2. /\ queue' = Tail(queue) /\ Len(queue) \in Nat
        /\ Len(queue') = Len(queue) - 1
        /\ \A i \in 1..Len(queue') : queue'[i] = queue[i + 1]
    BY <2>1, HeadTailProperties, LenProperties DEF Settles, QueueAfter
  <2>3. \A u \in Txns : ~Inside(u)'
    BY <1>1, <1>5 DEF OneInside, Inside
  <2>4. ASSUME NEW u \in Txns, pc'[u] = "waiting"
        PROVE  \E i \in 1..Len(queue') : queue'[i] = u
    <3>1. u # t /\ pc[u] = "waiting"
      BY <1>1, <2>4
    <3>2. PICK i \in 1..Len(queue) : queue[i] = u
      BY <1>5, <3>1 DEF Waits
    <3>3. i # 1
      BY <2>1, <3>1, <3>2, HeadTailProperties
    <3>4. i - 1 \in 1..Len(queue') /\ i = (i - 1) + 1
      BY <2>2, <3>2, <3>3
    <3>5. queue'[i - 1] = u
      BY <2>2, <3>2, <3>4
    <3> QED
      BY <3>4, <3>5
  <2>5. holder' = NoTxn
    BY <2>1 DEF Settles
  <2> QED
    BY <2>3, <2>4, <2>5
<1>6. ASSUME driver = "postgres"
      PROVE  queue' = <<>> /\ \A u \in Txns : Inside(u)' <=> holder' = u
  <2>1. queue = <<>> /\ \A u \in Txns : Inside(u) <=> holder = u
    BY <1>6 DEF Waits
  <2>2. queue' = <<>>
    BY <2>1 DEF Settles, QueueAfter
  <2>3. \A u \in Txns : Inside(u)' <=> holder' = u
    BY <1>1, <2>1, StoreAssumption DEF Settles, Inside
  <2> QED
    BY <2>2, <2>3
<1>7. Waits'
  <2>1. CASE driver = "json"
    BY <1>5, <2>1 DEF Waits
  <2>2. CASE driver = "postgres"
    BY <1>6, <2>2 DEF Waits
  <2> QED
    BY <2>1, <2>2
<1> QED
  BY <1>1, <1>2, <1>3, <1>4, <1>7

\* The call inside goes on to another stage, and nobody else moves.
LEMMA Advanced ==
  ASSUME IInv, NEW t \in Txns, Inside(t), NEW to \in {"working", "changed", "stored"},
         Goes(t, to), UNCHANGED <<driver, queue, holder>>
  PROVE  /\ pc' \in [Txns -> {"idle", "waiting", "working", "changed", "stored", "settled"}]
         /\ OneInside' /\ Waits'
         /\ pc'[t] = to /\ \A u \in Txns \ {t} : pc'[u] = pc[u] /\ ~Inside(u)'
<1>1. /\ pc' \in [Txns -> {"idle", "waiting", "working", "changed", "stored", "settled"}]
      /\ pc'[t] = to
      /\ \A u \in Txns \ {t} : pc'[u] = pc[u]
  BY DEF IInv, StoreTypeOK, Goes
<1>2. \A u \in Txns : Inside(u)' <=> Inside(u)
  BY <1>1 DEF Inside
<1>3. OneInside'
  BY <1>2 DEF IInv, OneInside
<1>4. Waits'
  <2>1. \A u \in Txns : pc'[u] = "waiting" => pc[u] = "waiting"
    BY <1>1
  <2> QED
    BY <1>2, <2>1 DEF IInv, Waits
<1>5. \A u \in Txns \ {t} : ~Inside(u)'
  BY <1>2 DEF IInv, OneInside
<1> QED
  BY <1>1, <1>3, <1>4, <1>5

-----------------------------------------------------------------------------
(* The steps                                                               *)

\* A call that begins to wait keeps the invariant.
LEMMA CallKeeps == ASSUME IInv, NEW t \in Txns, Call(t) PROVE IInv'
<1> USE DEF IInv
<1>1. /\ pc' \in [Txns -> {"idle", "waiting", "working", "changed", "stored", "settled"}]
      /\ pc[t] = "idle" /\ pc'[t] = "waiting"
      /\ \A u \in Txns \ {t} : pc'[u] = pc[u]
  BY DEF StoreTypeOK, Call, Goes
<1>2. StoreTypeOK'
  BY <1>1, AppendProperties DEF StoreTypeOK, Call
<1>3. \A u \in Txns : Inside(u)' <=> Inside(u)
  BY <1>1 DEF Inside
<1>4. OneInside'
  BY <1>3 DEF OneInside
<1>5. ASSUME driver = "json" PROVE Waits'
  <2>1. /\ queue' = Append(queue, t) /\ Len(queue) \in Nat /\ Len(queue') = Len(queue) + 1
        /\ \A i \in 1..Len(queue) : queue'[i] = queue[i]
        /\ queue'[Len(queue) + 1] = t /\ queue' # <<>>
    <3>1. queue \in Seq(Txns) /\ queue' = Append(queue, t)
      BY <1>5 DEF Call, StoreTypeOK
    <3> QED
      BY <3>1
  <2>2. ASSUME NEW u \in Txns, Inside(u) PROVE Head(queue') = u
    <3>1. queue # <<>> /\ Head(queue) = u
      BY <1>5, <2>2 DEF Waits
    <3> QED
      BY <2>1, <3>1 DEF StoreTypeOK
  <2>3. ASSUME NEW u \in Txns, pc'[u] = "waiting"
        PROVE  \E i \in 1..Len(queue') : queue'[i] = u
    <3>1. CASE u = t
      BY <2>1, <3>1
    <3>2. CASE u # t
      <4>1. PICK i \in 1..Len(queue) : queue[i] = u
        BY <1>1, <1>5, <2>3, <3>2 DEF Waits
      <4> QED
        BY <2>1, <4>1
    <3> QED
      BY <3>1, <3>2
  <2> QED
    BY <1>3, <1>5, <2>1, <2>2, <2>3 DEF Waits, Call
<1>6. ASSUME driver = "postgres" PROVE Waits'
  BY <1>3, <1>6 DEF Waits, Call
<1>7. Waits'
  BY <1>5, <1>6 DEF StoreTypeOK
<1>8. \A u \in Txns : GoodCopy(u)' /\ Told(u)'
  BY <1>1 DEF GoodCopy, Told, Call
<1> QED
  BY <1>2, <1>4, <1>7, <1>8

\* A call whose turn it is and that reads the document keeps the invariant: nobody
\* else is inside.
LEMMA ReadKeeps == ASSUME IInv, NEW t \in Txns, Read(t) PROVE IInv'
<1> USE DEF IInv
<1>1. /\ pc' \in [Txns -> {"idle", "waiting", "working", "changed", "stored", "settled"}]
      /\ pc[t] = "waiting" /\ pc'[t] = "working"
      /\ \A u \in Txns \ {t} : pc'[u] = pc[u]
      /\ copy' \in [Txns -> Seq(Txns)] /\ copy'[t] = doc
  BY DEF StoreTypeOK, Read, Goes
<1>2. StoreTypeOK'
  BY <1>1 DEF StoreTypeOK, Read
<1>3. \A u \in Txns : ~Inside(u)
  <2>1. CASE driver = "json"
    BY <1>1, <2>1 DEF Waits, Read, MyTurn, Inside
  <2>2. CASE driver = "postgres"
    BY <2>2, StoreAssumption DEF Waits, Read, MyTurn
  <2> QED
    BY <2>1, <2>2 DEF StoreTypeOK
<1>4. \A u \in Txns : Inside(u)' <=> u = t
  BY <1>1, <1>3 DEF Inside
<1>5. Waits'
  <2>1. CASE driver = "json"
    <3>1. \E i \in 1..Len(queue) : queue[i] = t
      BY <1>1, <2>1 DEF Waits
    <3>2. queue # <<>>
      BY <3>1
    <3> QED
      BY <1>1, <1>4, <2>1, <3>2 DEF Waits, Read, MyTurn
  <2>2. CASE driver = "postgres"
    BY <1>4, <2>2 DEF Waits, Read
  <2> QED
    BY <2>1, <2>2 DEF StoreTypeOK
<1>6. OneInside'
  BY <1>4 DEF OneInside
<1>7. \A u \in Txns : GoodCopy(u)'
  BY <1>1, <1>4 DEF GoodCopy, Inside, Read
<1>8. \A u \in Txns : Told(u)'
  BY <1>1 DEF Told, Read
<1> QED
  BY <1>2, <1>5, <1>6, <1>7, <1>8

\* Changing the copy keeps the invariant: the document did not move meanwhile.
LEMMA MutateKeeps == ASSUME IInv, NEW t \in Txns, Mutate(t) PROVE IInv'
<1> USE DEF IInv
<1>1. /\ pc' \in [Txns -> {"idle", "waiting", "working", "changed", "stored", "settled"}]
      /\ OneInside' /\ Waits'
      /\ pc'[t] = "changed" /\ \A u \in Txns \ {t} : pc'[u] = pc[u] /\ ~Inside(u)'
  BY Advanced DEF Mutate, Inside
<1>2. doc \in Seq(Txns) /\ copy[t] = doc
  BY DEF Mutate, GoodCopy, StoreTypeOK
<1>3. copy' \in [Txns -> Seq(Txns)] /\ copy'[t] = Append(doc, t)
  BY <1>2, Appended DEF Mutate, StoreTypeOK
<1>4. StoreTypeOK'
  BY <1>1, <1>3 DEF StoreTypeOK, Mutate
<1>5. \A u \in Txns : GoodCopy(u)'
  BY <1>1, <1>3 DEF GoodCopy, Inside, Mutate
<1>6. \A u \in Txns : Told(u)'
  BY <1>1 DEF Told, Mutate
<1> QED
  BY <1>1, <1>4, <1>5, <1>6

\* Writing the temporary file, or the row, keeps the invariant.
LEMMA StoreKeeps == ASSUME IInv, NEW t \in Txns, Store(t) PROVE IInv'
<1> USE DEF IInv
<1>1. /\ pc' \in [Txns -> {"idle", "waiting", "working", "changed", "stored", "settled"}]
      /\ OneInside' /\ Waits'
      /\ pc'[t] = "stored" /\ \A u \in Txns \ {t} : pc'[u] = pc[u] /\ ~Inside(u)'
  BY Advanced DEF Store, Inside
<1>2. copy[t] = Append(doc, t) /\ t \notin ToSet(doc)
  BY DEF Store, GoodCopy, Told
<1>3. StoreTypeOK'
  BY <1>1 DEF StoreTypeOK, Store
<1>4. \A u \in Txns : GoodCopy(u)'
  BY <1>1, <1>2 DEF GoodCopy, Inside, Store
<1>5. \A u \in Txns : Told(u)'
  BY <1>1, <1>2 DEF Told, Store
<1> QED
  BY <1>1, <1>3, <1>4, <1>5

\* The rename applies the call to the document, and keeps the invariant.
LEMMA RenameKeeps == ASSUME IInv, NEW t \in Txns, Rename(t) PROVE IInv' /\ Promise!Apply(t)
<1> USE DEF IInv
<1>1. doc' = Append(doc, t) /\ t \notin ToSet(doc) /\ tmp = Append(doc, t)
  BY DEF Rename, GoodCopy
<1>2. doc' \in Seq(Txns) /\ ToSet(doc') = ToSet(doc) \cup {t}
  BY <1>1, Appended DEF StoreTypeOK
<1>3. StoreTypeOK'
  BY <1>2 DEF StoreTypeOK, Rename
<1>4. OneInside' /\ Waits'
  BY DEF OneInside, Waits, Inside, Rename
<1>5. \A u \in Txns \ {t} : ~Inside(u)
  BY DEF OneInside, Inside, Rename
<1>6. \A u \in Txns : GoodCopy(u)'
  BY <1>1, <1>2, <1>5 DEF GoodCopy, Inside, Rename
<1>7. \A u \in Txns : Told(u)'
  BY <1>2 DEF Told, Rename
<1>8. Promise!Apply(t)
  BY <1>1 DEF Promise!Apply, Promise!ToSet, ToSet, Rename, Told
<1> QED
  BY <1>3, <1>4, <1>6, <1>7, <1>8

\* A call that settles and leaves the document alone.
LEMMA AnswersOnly ==
  ASSUME IInv, NEW t \in Txns, NEW a \in {"ok", "refused", "failed"}, Settles(t, a),
         Inside(t) \/ (driver = "postgres" /\ pc[t] = "waiting"),
         UNCHANGED <<driver, doc, tmp, copy>>,
         a = "ok" => t \in ToSet(doc), a = "refused" => t \notin ToSet(doc)
  PROVE  IInv' /\ Promise!Answer({t}, a)
<1> USE DEF IInv
<1>1. /\ queue' \in Seq(Txns) /\ holder' \in Txns \cup {NoTxn}
      /\ pc' \in [Txns -> {"idle", "waiting", "working", "changed", "stored", "settled"}]
      /\ answer' \in [Txns -> Outcomes]
      /\ OneInside' /\ Waits'
  BY Settled DEF Outcomes
<1>2. /\ pc'[t] = "settled" /\ \A u \in Txns \ {t} : pc'[u] = pc[u] /\ answer'[u] = answer[u]
      /\ answer[t] = "none" /\ answer' = [u \in Txns |-> IF u \in {t} THEN a ELSE answer[u]]
  BY DEF Settles, Goes, StoreTypeOK, Told, Inside
<1>3. StoreTypeOK'
  BY <1>1 DEF StoreTypeOK
<1>4. \A u \in Txns : GoodCopy(u)' /\ Told(u)'
  BY <1>2 DEF GoodCopy, Told
<1>5. Promise!Answer({t}, a)
  BY <1>2 DEF Promise!Answer, Promise!ToSet, ToSet
<1> QED
  BY <1>1, <1>3, <1>4, <1>5

\* The COMMIT applies the call to the document, whatever its caller learns of it,
\* and keeps the invariant.
LEMMA CommitRowKeeps ==
  ASSUME IInv, NEW t \in Txns, NEW a \in {"ok", "failed"}, CommitRow(t, a)
  PROVE  IInv' /\ Promise!ApplyAndAnswer(t, a)
<1> USE DEF IInv
<1>1. /\ queue' \in Seq(Txns) /\ holder' \in Txns \cup {NoTxn}
      /\ pc' \in [Txns -> {"idle", "waiting", "working", "changed", "stored", "settled"}]
      /\ answer' \in [Txns -> Outcomes]
      /\ OneInside' /\ Waits'
  BY Settled DEF Outcomes, CommitRow, Inside
<1>2. /\ pc'[t] = "settled" /\ \A u \in Txns \ {t} : pc'[u] = pc[u] /\ answer'[u] = answer[u]
      /\ answer[t] = "none"
  BY DEF CommitRow, Settles, Goes, StoreTypeOK, Told
<1>3. doc' = Append(doc, t) /\ t \notin ToSet(doc)
  BY DEF CommitRow, GoodCopy, Told
<1>4. doc' \in Seq(Txns) /\ ToSet(doc') = ToSet(doc) \cup {t}
  BY <1>3, Appended DEF StoreTypeOK
<1>5. StoreTypeOK'
  BY <1>1, <1>4 DEF StoreTypeOK, CommitRow
<1>6. \A u \in Txns \ {t} : ~Inside(u)
  BY DEF OneInside, Inside, CommitRow
<1>7. \A u \in Txns : GoodCopy(u)'
  BY <1>2, <1>6 DEF GoodCopy, Inside
<1>8. \A u \in Txns : Told(u)'
  BY <1>2, <1>4 DEF Told, CommitRow
<1>9. Promise!ApplyAndAnswer(t, a)
  BY <1>2, <1>3 DEF Promise!ApplyAndAnswer, Promise!ToSet, ToSet, CommitRow, Settles
<1> QED
  BY <1>1, <1>5, <1>7, <1>8, <1>9

\* A crash fails the calls it interrupts, and keeps the invariant.
LEMMA CrashKeeps == ASSUME IInv, Crash PROVE IInv' /\ \E T \in SUBSET Txns : Promise!Answer(T, "failed")
<1> USE DEF IInv
<1> DEFINE lost == {t \in Txns : pc[t] \notin {"idle", "settled"}}
<1>1. /\ pc' = [t \in Txns |-> IF t \in lost THEN "settled" ELSE pc[t]]
      /\ answer' = [t \in Txns |-> IF t \in lost THEN "failed" ELSE answer[t]]
      /\ queue' = <<>> /\ holder' = NoTxn /\ UNCHANGED <<driver, doc, tmp, copy>>
  BY DEF Crash
<1>2. \A t \in Txns : pc'[t] = "settled" \/ (pc'[t] = "idle" /\ pc[t] = "idle" /\ answer'[t] = answer[t])
  BY <1>1 DEF StoreTypeOK
<1>3. StoreTypeOK'
  BY <1>1 DEF StoreTypeOK, Outcomes
<1>4. OneInside' /\ Waits'
  BY <1>1, <1>2, StoreAssumption DEF OneInside, Waits, Inside
<1>5. \A t \in Txns : GoodCopy(t)' /\ Told(t)'
  BY <1>1, <1>2 DEF GoodCopy, Told
<1>6. Promise!Answer(lost, "failed")
  BY <1>1 DEF Promise!Answer, Promise!ToSet, ToSet, Told
<1> QED
  BY <1>3, <1>4, <1>5, <1>6

\* Every step of either driver keeps the invariant and is a step of the atomic
\* document, or none.
THEOREM StepKeepsPromise ==
  ASSUME IInv, [StoreNext]_storeVars
  PROVE  IInv' /\ [Promise!PromiseNext]_<<doc, answer>>
<1>1. ASSUME NEW t \in Txns, Call(t) PROVE IInv' /\ UNCHANGED <<doc, answer>>
  BY <1>1, CallKeeps DEF Call
<1>2. ASSUME NEW t \in Txns, Read(t) PROVE IInv' /\ UNCHANGED <<doc, answer>>
  BY <1>2, ReadKeeps DEF Read
<1>3. ASSUME NEW t \in Txns, Mutate(t) PROVE IInv' /\ UNCHANGED <<doc, answer>>
  BY <1>3, MutateKeeps DEF Mutate
<1>4. ASSUME NEW t \in Txns, Store(t) PROVE IInv' /\ UNCHANGED <<doc, answer>>
  BY <1>4, StoreKeeps DEF Store
<1>5. ASSUME NEW t \in Txns, Rename(t) PROVE IInv' /\ Promise!PromiseNext
  BY <1>5, RenameKeeps DEF Promise!PromiseNext
<1>6. ASSUME NEW t \in Txns, NEW a \in {"ok", "failed"}, CommitRow(t, a)
      PROVE  IInv' /\ Promise!PromiseNext
  BY <1>6, CommitRowKeeps DEF Promise!PromiseNext
<1>7. ASSUME NEW t \in Txns, Return(t) PROVE IInv' /\ Promise!PromiseNext
  <2>1. t \in ToSet(doc)
    <3>1. doc \in Seq(Txns) /\ tmp # Append(doc, t)
      BY <1>7, Appended DEF IInv, StoreTypeOK, Return
    <3> QED
      BY <1>7, <3>1 DEF IInv, GoodCopy, Return
  <2>2. IInv' /\ Promise!Answer({t}, "ok")
    BY <1>7, <2>1, AnswersOnly DEF Return, Inside
  <2> QED
    BY <2>2 DEF Promise!PromiseNext
<1>8. ASSUME NEW t \in Txns, Throw(t) PROVE IInv' /\ Promise!PromiseNext
  <2>1. IInv' /\ Promise!Answer({t}, "refused")
    BY <1>8, AnswersOnly DEF Throw, Inside, IInv, Told
  <2> QED
    BY <2>1 DEF Promise!PromiseNext
<1>9. ASSUME NEW t \in Txns, CallFails(t) PROVE IInv' /\ Promise!PromiseNext
  <2>1. IInv' /\ Promise!Answer({t}, "failed")
    BY <1>9, AnswersOnly DEF CallFails, Inside
  <2> QED
    BY <2>1 DEF Promise!PromiseNext
<1>10. ASSUME Crash PROVE IInv' /\ Promise!PromiseNext
  BY <1>10, CrashKeeps DEF Promise!PromiseNext
<1>11. ASSUME UNCHANGED storeVars PROVE IInv' /\ UNCHANGED <<doc, answer>>
  BY <1>11 DEF storeVars, IInv, StoreTypeOK, OneInside, Waits, Inside, GoodCopy, Told
<1> QED
  BY <1>1, <1>2, <1>3, <1>4, <1>5, <1>6, <1>7, <1>8, <1>9, <1>10, <1>11
  DEF StoreNext, Proceed

-----------------------------------------------------------------------------

\* transact keeps what it promises, in both drivers: one atomic document, whose
\* callers are told of a success only when it is stored.
THEOREM DocumentKept == StoreSpec => DocumentPromised
<1>1. IInv => StoreTypeOK
  BY DEF IInv
<1>2. StoreInit => Promise!PromiseInit
  BY DEF StoreInit, Promise!PromiseInit
<1>3. IInv /\ [StoreNext]_storeVars => IInv' /\ [Promise!PromiseNext]_(Promise!promiseVars)
  BY StepKeepsPromise DEF Promise!promiseVars
<1> QED
  BY Initially, <1>1, <1>2, <1>3, PTL DEF StoreSpec, DocumentPromised, Promise!PromiseSpec

=============================================================================
