--------------------------- MODULE MCCircuitBreaker ---------------------------
(* CircuitBreaker for TLC: a reading the scorer refuses and two beyond    *)
(* the threshold; a trigger without a reading stays below it.            *)
EXTENDS CircuitBreaker, TLC

RequestSymmetry == Permutations(Requests)

SampleReadings == {-1, 2, 3}

=============================================================================
