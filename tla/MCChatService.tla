---------------------------- MODULE MCChatService ----------------------------
(* Instances of ChatService for TLC. *)
EXTENDS ChatService, TLC

\* Requests are interchangeable: sound for the runs without a liveness property.
Symmetry == Permutations(Requests)

=============================================================================
