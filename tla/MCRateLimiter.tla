---------------------------- MODULE MCRateLimiter ----------------------------
(* Instances of RateLimiter for TLC. *)
EXTENDS RateLimiter, TLC

\* Sound: no liveness property is checked.
Symmetry == Permutations(Clients)

=============================================================================
