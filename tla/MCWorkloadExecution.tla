------------------------ MODULE MCWorkloadExecution ------------------------
(* A small instance of WorkloadExecution for TLC. *)
EXTENDS WorkloadExecution

CONSTANTS g1, g2

\* The first grant expires before the worker's identity does.
TwoGrants == [g \in {g1, g2} |-> IF g = g1 THEN 2 ELSE 3]

Symmetry == Permutations(Calls)
=============================================================================
