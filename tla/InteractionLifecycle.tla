------------------------- MODULE InteractionLifecycle -------------------------
(***************************************************************************)
(* What the chat service promises about one interaction, without saying    *)
(* how: its prompt is stored before the LLM sees it, the stored row is     *)
(* settled at most once, the client is only told an outcome the row        *)
(* already has, and once the client has been told anything the row is      *)
(* frozen.  It does not promise that an outcome is ever told or settled.   *)
(***************************************************************************)
CONSTANT Requests

VARIABLES
    row,    \* the stored status of each interaction
    sent,   \* the prompt has been given to the LLM
    told    \* what the client has been told

lifecycleVars == <<row, sent, told>>

Settled == {"completed", "failed", "blocked"}

LifecycleInit ==
    /\ row = [r \in Requests |-> "absent"]
    /\ sent = [r \in Requests |-> FALSE]
    /\ told = [r \in Requests |-> "nothing"]

Store(r) ==
    /\ row[r] = "absent" /\ told[r] = "nothing"
    /\ row' = [row EXCEPT ![r] = "pending"]
    /\ UNCHANGED <<sent, told>>

Send(r) ==
    /\ row[r] = "pending" /\ told[r] = "nothing"
    /\ sent' = [sent EXCEPT ![r] = TRUE]
    /\ UNCHANGED <<row, told>>

\* Only what was sent can fail; an answer may also come from the cache.
Settle(r, status) ==
    /\ row[r] = "pending" /\ told[r] = "nothing"
    /\ status = "failed" => sent[r]
    /\ row' = [row EXCEPT ![r] = status]
    /\ UNCHANGED <<sent, told>>

Tell(r) ==
    /\ row[r] \in Settled /\ told[r] = "nothing"
    /\ told' = [told EXCEPT ![r] = row[r]]
    /\ UNCHANGED <<row, sent>>

\* A refusal, an internal error or a lost connection: no outcome is claimed.
GiveUp(S) ==
    /\ \A r \in S : told[r] = "nothing"
    /\ told' = [r \in Requests |-> IF r \in S THEN "no outcome" ELSE told[r]]
    /\ UNCHANGED <<row, sent>>

LifecycleNext ==
    \/ \E r \in Requests : Store(r) \/ Send(r) \/ Tell(r)
    \/ \E r \in Requests, status \in Settled : Settle(r, status)
    \/ \E S \in SUBSET Requests : GiveUp(S)

LifecycleSpec == LifecycleInit /\ [][LifecycleNext]_lifecycleVars

=============================================================================
