--------------------------- MODULE CircuitBreaker ---------------------------
(***************************************************************************)
(* The per-provider circuit breaker of app/services/resilience.py, as      *)
(* operators on one breaker: a count of consecutive failures and the time  *)
(* at which it last opened.  The state is never stored, it is derived from *)
(* the clock on every reading, so time alone turns "open" to "half-open".  *)
(***************************************************************************)
EXTENDS Integers

CONSTANTS
    FailureThreshold,   \* llm_breaker_failure_threshold
    Cooldown            \* llm_breaker_cooldown_seconds, in clock ticks

\* Settings puts no bound on either of them: any integer configures a breaker.
ASSUME BreakerAssumption ==
    /\ FailureThreshold \in Int
    /\ Cooldown \in Int

NotOpened == -1

Breaker == [failures : Nat, openedAt : Nat \cup {NotOpened}]

NewBreaker == [failures |-> 0, openedAt |-> NotOpened]

State(b, time) ==
    IF b.openedAt = NotOpened THEN "closed"
    ELSE IF time - b.openedAt >= Cooldown THEN "half-open"
    ELSE "open"

\* Mutant of Allow: the wrong state is compared, an open circuit lets calls in.
AllowUnlessHalfOpen(b, time) == State(b, time) # "half-open"

Allow(b, time) == State(b, time) # "open"

\* Both fields are reset, whatever they were.
RecordSuccess(b) == NewBreaker

\* Mutant of RecordFailure: > for >=.
TripOneFailureLate(b, time) ==
    [failures |-> b.failures + 1,
     openedAt |-> IF b.failures + 1 > FailureThreshold THEN time ELSE b.openedAt]

\* Mutant of RecordFailure: an opening time is stamped only once.
StampOpeningOnce(b, time) ==
    [failures |-> b.failures + 1,
     openedAt |-> IF b.failures + 1 >= FailureThreshold /\ b.openedAt = NotOpened
                    THEN time ELSE b.openedAt]

RecordFailure(b, time) ==
    [failures |-> b.failures + 1,
     openedAt |-> IF b.failures + 1 >= FailureThreshold THEN time ELSE b.openedAt]

=============================================================================
