-------------------------- MODULE MCTimeReference --------------------------
(* Model checking of TimeReference: interchangeable sessions and workers.  *)
EXTENDS TimeReference, TLC

Symmetry == Permutations(Operators) \cup Permutations(Workers)
=============================================================================
