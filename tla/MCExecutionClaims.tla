--------------------------- MODULE MCExecutionClaims ---------------------------
(* Instances of ExecutionClaims for TLC. *)
EXTENDS ExecutionClaims, TLC

\* Owners are interchangeable, and so are effects.
Symmetry == Permutations(Owners) \cup Permutations(Effects)
===============================================================================
