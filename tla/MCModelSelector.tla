--------------------------- MODULE MCModelSelector ---------------------------
(* Instances of ModelSelector for TLC. *)
EXTENDS ModelSelector, TLC

\* Sound for the runs without a liveness property.
Symmetry == Permutations(Callers) \cup Permutations(Models)

=============================================================================
