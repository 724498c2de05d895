---------------------------- MODULE SlidingWindow ----------------------------
(***************************************************************************)
(* What the rate limiter promises ("fixed sliding-window per key",         *)
(* core/ratelimit.py): a client is admitted while fewer than limit of its  *)
(* admissions are younger than the window, and turned away only when that  *)
(* many are.  The promise is kept since the last time everything was       *)
(* forgotten, which only the arrival of one client too many may cause.     *)
(***************************************************************************)
EXTENDS Integers, Sequences, FiniteSets

CONSTANTS Clients, Window, MaxTracked

VARIABLES now, limit, log, verdict

window == <<now, limit, log, verdict>>

Recent(c) == {i \in DOMAIN log[c] : log[c][i] > now - Window}

Forgotten == [c \in Clients |-> <<>>]

\* A newcomer that finds as many clients remembered as can be.
OneTooMany(c) ==
    /\ log[c] = <<>>
    /\ Cardinality({k \in Clients : log[k] # <<>>}) >= MaxTracked

Admit(c) ==
    /\ Cardinality(Recent(c)) < limit
    /\ \/ log' = [log EXCEPT ![c] = Append(@, now)]
       \/ /\ OneTooMany(c)
          /\ log' = [Forgotten EXCEPT ![c] = <<now>>]
    /\ verdict' = [verdict EXCEPT ![c] = "admitted"]
    /\ UNCHANGED <<now, limit>>

TurnAway(c) ==
    /\ Cardinality(Recent(c)) >= limit
    /\ verdict' = [verdict EXCEPT ![c] = IF limit > 0 THEN "rejected" ELSE "raised"]
    /\ UNCHANGED <<now, limit, log>>

Init ==
    /\ now = 0
    /\ limit \in Nat
    /\ log = Forgotten
    /\ verdict = [c \in Clients |-> "none"]

Next ==
    \/ now' = now + 1 /\ UNCHANGED <<limit, log, verdict>>
    \/ \E c \in Clients : Admit(c) \/ TurnAway(c)

Spec == Init /\ [][Next]_window

=============================================================================
