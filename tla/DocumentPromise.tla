----------------------------- MODULE DocumentPromise -----------------------------
(***************************************************************************)
(* What transact of src/storage.js promises to its callers: the document   *)
(* is the sequence of the mutators that took effect, each of them seeing   *)
(* all the ones before it; an answer of success means the mutator took     *)
(* effect, a refusal by the mutator means it did not and never will.  A    *)
(* caller told of a failure, or told nothing, does not know.               *)
(***************************************************************************)
EXTENDS Sequences, SequencesExt

CONSTANT Txns

VARIABLES doc, answer

promiseVars == <<doc, answer>>

PromiseInit == doc = <<>> /\ answer = [t \in Txns |-> "none"]

Apply(t) ==
  /\ answer[t] = "none"
  /\ t \notin ToSet(doc)
  /\ doc' = Append(doc, t)
  /\ UNCHANGED answer

Answer(T, a) ==
  /\ \A t \in T : answer[t] = "none"
  /\ a = "ok" => T \subseteq ToSet(doc)
  /\ a = "refused" => T \cap ToSet(doc) = {}
  /\ answer' = [t \in Txns |-> IF t \in T THEN a ELSE answer[t]]
  /\ UNCHANGED doc

\* PostgreSQL answers the COMMIT that takes effect, or the answer is lost.
ApplyAndAnswer(t, a) ==
  /\ answer[t] = "none"
  /\ t \notin ToSet(doc)
  /\ doc' = Append(doc, t)
  /\ answer' = [answer EXCEPT ![t] = a]

PromiseNext ==
  \/ \E t \in Txns : Apply(t)
  \/ \E T \in SUBSET Txns, a \in {"ok", "refused", "failed"} : Answer(T, a)
  \/ \E t \in Txns, a \in {"ok", "failed"} : ApplyAndAnswer(t, a)

PromiseSpec == PromiseInit /\ [][PromiseNext]_promiseVars

=============================================================================
