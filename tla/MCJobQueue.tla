------------------------------ MODULE MCJobQueue ------------------------------
(* JobQueue for TLC: workers, enqueuers and keys are interchangeable.      *)
EXTENDS JobQueue, TLC

QueueSymmetry == Permutations(Workers) \cup Permutations(Enqueuers) \cup Permutations(Keys)

=============================================================================
