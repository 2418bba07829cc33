------------------------ MODULE MCExperimentRegistry ------------------------
(***************************************************************************)
(* ExperimentRegistry for TLC.                                             *)
(***************************************************************************)
EXTENDS ExperimentRegistry, TLC

\* Requests are interchangeable.
RequestSymmetry == Permutations(Requests)

=============================================================================
