------------------------ MODULE MCCircuitApplication ------------------------
(* Model values and bounds for CircuitApplication. *)
EXTENDS CircuitApplication, TLC

\* Sessions are only compared with each other, and no fairness is assumed in the run that uses it.
Symmetry == Permutations(Sessions)
=============================================================================
