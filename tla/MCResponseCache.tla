--------------------------- MODULE MCResponseCache ---------------------------
(* Instances of ResponseCache for TLC. *)
EXTENDS ResponseCache, TLC

\* Keys are interchangeable, and so are answers.
Symmetry == Permutations(Keys) \cup Permutations(Answers)

=============================================================================
