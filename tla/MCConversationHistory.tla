------------------------ MODULE MCConversationHistory ------------------------
(* Instances of ConversationHistory for TLC. *)
EXTENDS ConversationHistory, TLC

\* Rows are interchangeable: no property of the run is a liveness property.
Symmetry == Permutations(Rows)

=============================================================================
