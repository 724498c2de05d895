--------------------------- MODULE ResilientClient ---------------------------
(***************************************************************************)
(* ResilientLLMClient.generate of app/services/resilience.py: concurrent   *)
(* requests walk the same ordered chain of providers, retrying transient   *)
(* errors, recording failures in the breakers they share and skipping the  *)
(* providers whose circuit is open.                                        *)
(*                                                                         *)
(* The code runs on one event loop: what it does between two awaits is one *)
(* step here.  An await is a call in flight ("calling") or the sleep       *)
(* between two attempts ("backoff"); requests interleave only there, and   *)
(* the clock moves only there.                                             *)
(***************************************************************************)
EXTENDS CircuitBreaker, FiniteSets

CONSTANTS
    Requests,       \* calls of generate(), each made once
    NumProviders,   \* length of the chain (1 or 2 in build_llm_client)
    MaxRetries,     \* llm_max_retries
    MaxTime         \* bound on the clock, for model checking only

ASSUME ChainAssumption ==
    /\ NumProviders \in Nat \ {0}
    /\ MaxRetries \in Int
    /\ MaxTime \in Nat

VARIABLES
    now,          \* time.monotonic()
    breaker,      \* self.breakers, by place in the chain
    gauge,        \* circuit_breaker_state as /metrics last saw it set
    pc,           \* where each request is
    at,           \* the provider a request has reached
    attempt,      \* the attempt it is on at that provider
    admittedAt,   \* history: when that provider's breaker let it in
    outcome       \* llm_requests_total{provider, outcome}, per request

vars == <<now, breaker, gauge, pc, at, attempt, admittedAt, outcome>>

Providers == 1..NumProviders
MaxAttempts == MaxRetries + 1

InCall == {"calling", "backoff"}
Ended == {"answered", "unavailable", "raised"}
Outcomes == {"none", "skipped_open_circuit", "permanent_error",
             "transient_error", "success"}
NoOutcome == [p \in Providers |-> "none"]

Init ==
    /\ now = 0
    /\ breaker = [p \in Providers |-> NewBreaker]
    /\ gauge = [p \in Providers |-> "closed"]
    /\ pc = [r \in Requests |-> "idle"]
    /\ at = [r \in Requests |-> 0]
    /\ attempt = [r \in Requests |-> 0]
    /\ admittedAt = [r \in Requests |-> 0]
    /\ outcome = [r \in Requests |-> NoOutcome]

-----------------------------------------------------------------------------
(***************************************************************************)
(* The loop over the chain from one await to the next: r leaves provider i *)
(* with the breakers br, its outcomes out and the gauge g, skips every     *)
(* provider whose circuit is open, and either calls the first that admits  *)
(* it or runs off the end of the chain (LLMUnavailableError).              *)
(***************************************************************************)
WalkOn(r, i, br, out, g) ==
    \E stop \in (i+1)..(NumProviders+1) :
        LET Skips(q) == i < q /\ q < stop IN
        /\ \A q \in Providers : Skips(q) => ~Allow(br[q], now)
        /\ stop \in Providers => Allow(br[stop], now)
        /\ pc' = [pc EXCEPT ![r] = IF stop \in Providers THEN "calling"
                                                         ELSE "unavailable"]
        /\ at' = [at EXCEPT ![r] = stop]
        /\ attempt' = [attempt EXCEPT ![r] = IF stop \in Providers THEN 1 ELSE 0]
        /\ admittedAt' = [admittedAt EXCEPT ![r] = IF stop \in Providers THEN now ELSE 0]
        /\ outcome' = [outcome EXCEPT ![r] =
              [q \in Providers |-> IF Skips(q) THEN "skipped_open_circuit" ELSE out[q]]]
        /\ gauge' = [q \in Providers |-> IF Skips(q) THEN State(br[q], now) ELSE g[q]]
        /\ breaker' = br
        /\ now' = now

\* generate() is called: the walk starts before the first provider.
Generate(r) ==
    /\ pc[r] = "idle"
    /\ WalkOn(r, 0, breaker, outcome[r], gauge)

\* attempt and admittedAt are kept of calls in flight only.
LeaveCall(r) ==
    /\ attempt' = [attempt EXCEPT ![r] = 0]
    /\ admittedAt' = [admittedAt EXCEPT ![r] = 0]

\* Mutant of CallSucceeds: the breaker closes and the gauge is not told.
SucceedSilently(r) ==
    /\ pc[r] = "calling"
    /\ pc' = [pc EXCEPT ![r] = "answered"]
    /\ breaker' = [breaker EXCEPT ![at[r]] = RecordSuccess(@)]
    /\ outcome' = [outcome EXCEPT ![r][at[r]] = "success"]
    /\ LeaveCall(r)
    /\ UNCHANGED <<now, at, gauge>>

\* The provider answers: the breaker closes whatever its state was.
CallSucceeds(r) ==
    LET p == at[r] IN
    /\ pc[r] = "calling"
    /\ pc' = [pc EXCEPT ![r] = "answered"]
    /\ breaker' = [breaker EXCEPT ![p] = RecordSuccess(@)]
    /\ gauge' = [gauge EXCEPT ![p] = State(breaker'[p], now)]
    /\ outcome' = [outcome EXCEPT ![r][p] = "success"]
    /\ LeaveCall(r)
    /\ UNCHANGED <<now, at>>

\* except LLMProviderError: one failure per walk, however many attempts it took.
ProviderFails(r) ==
    LET p == at[r]
        br == [breaker EXCEPT ![p] = RecordFailure(@, now)]
    IN  WalkOn(r, p, br, [outcome[r] EXCEPT ![p] = "transient_error"],
               [gauge EXCEPT ![p] = State(br[p], now)])

\* A timeout, a transport error or a 5xx with attempts left: sleep, then retry.
CallTimesOut(r) ==
    /\ pc[r] = "calling"
    /\ attempt[r] < MaxAttempts
    /\ pc' = [pc EXCEPT ![r] = "backoff"]
    /\ UNCHANGED <<now, breaker, gauge, at, attempt, admittedAt, outcome>>

\* Mutant of Retry: the attempt is not counted.
RetryUncounted(r) ==
    /\ pc[r] = "backoff"
    /\ pc' = [pc EXCEPT ![r] = "calling"]
    /\ UNCHANGED <<now, breaker, gauge, at, attempt, admittedAt, outcome>>

\* The sleep is over.  The breaker is not consulted again.
Retry(r) ==
    /\ pc[r] = "backoff"
    /\ pc' = [pc EXCEPT ![r] = "calling"]
    /\ attempt' = [attempt EXCEPT ![r] = @ + 1]
    /\ UNCHANGED <<now, breaker, gauge, at, admittedAt, outcome>>

\* The same errors on the last attempt: tenacity re-raises.
CallExhausted(r) ==
    /\ pc[r] = "calling"
    /\ attempt[r] >= MaxAttempts
    /\ ProviderFails(r)

\* Mutant of CallRateLimited: the error is raised where the loop should continue.
RateLimitedGivesUp(r) ==
    /\ pc[r] = "calling"
    /\ pc' = [pc EXCEPT ![r] = "unavailable"]
    /\ LeaveCall(r)
    /\ UNCHANGED <<now, breaker, gauge, at, outcome>>

\* A 429 is a transient error that is never retried.
CallRateLimited(r) ==
    /\ pc[r] = "calling"
    /\ ProviderFails(r)

\* Mutant of CallRejected: a permanent error counts against the provider.
RejectionTrips(r) ==
    /\ pc[r] = "calling"
    /\ WalkOn(r, at[r], [breaker EXCEPT ![at[r]] = RecordFailure(@, now)],
              [outcome[r] EXCEPT ![at[r]] = "permanent_error"], gauge)

\* A 4xx or an unusable body says nothing of the provider's health.
CallRejected(r) ==
    /\ pc[r] = "calling"
    /\ WalkOn(r, at[r], breaker, [outcome[r] EXCEPT ![at[r]] = "permanent_error"], gauge)

\* Any other exception leaves generate() as it is: no record, no next provider.
CallRaises(r) ==
    /\ pc[r] = "calling"
    /\ pc' = [pc EXCEPT ![r] = "raised"]
    /\ LeaveCall(r)
    /\ UNCHANGED <<now, breaker, gauge, at, outcome>>

Tick ==
    /\ now < MaxTime
    /\ now' = now + 1
    /\ UNCHANGED <<breaker, gauge, pc, at, attempt, admittedAt, outcome>>

\* What ends an attempt: the HTTP client's timeout sees to it that one of them does.
CallEnds(r) ==
    \/ CallSucceeds(r)
    \/ CallTimesOut(r)
    \/ CallExhausted(r)
    \/ CallRateLimited(r)
    \/ CallRejected(r)
    \/ CallRaises(r)

Next ==
    \/ Tick
    \/ \E r \in Requests : Generate(r) \/ CallEnds(r) \/ Retry(r)

Fairness == \A r \in Requests : WF_vars(CallEnds(r)) /\ WF_vars(Retry(r))

Spec == Init /\ [][Next]_vars /\ Fairness

-----------------------------------------------------------------------------
(* Properties *)

TypeOK ==
    /\ now \in Nat
    /\ breaker \in [Providers -> Breaker]
    /\ gauge \in [Providers -> {"closed", "half-open", "open"}]
    /\ pc \in [Requests -> {"idle"} \cup InCall \cup Ended]
    /\ at \in [Requests -> 0..(NumProviders+1)]
    /\ attempt \in [Requests -> Nat]
    /\ admittedAt \in [Requests -> Nat]
    /\ outcome \in [Requests -> [Providers -> Outcomes]]

\* The requests with a call in flight (or a retry pending) at provider p.
CallsAt(p) == {r \in Requests : pc[r] \in InCall /\ at[r] = p}

\* The breaker has been tripped and no success has closed it since.
Tripped(p) == breaker[p].openedAt # NotOpened

\* "Opens after N consecutive failures" (resilience.py:7), whatever mix of late
\* answers, skips, permanent errors and probes comes in between: a breaker is
\* tripped exactly while its count of failures since the last success has
\* reached the threshold.  Neither field is ever updated without the other.
TrippedAtThreshold ==
    \A p \in Providers :
        Tripped(p) <=> /\ breaker[p].failures > 0
                       /\ breaker[p].failures >= FailureThreshold

\* An open circuit sends nothing to the provider: whatever is in flight there
\* was let in before the breaker (last) opened or after its cooldown.  Retries
\* and late failures that move the opening time are the hard part.
NoCallAdmittedWhileOpen ==
    \A p \in Providers : \A r \in CallsAt(p) :
        Tripped(p) => \/ admittedAt[r] <= breaker[p].openedAt
                      \/ admittedAt[r] >= breaker[p].openedAt + Cooldown

\* The evidence behind an open circuit: that many different requests really
\* lost that provider to a transient error.  The attempts of one request count
\* once, and permanent errors (resilience.py:162) and skips not at all.
OpenOnEvidence ==
    \A p \in Providers :
        breaker[p].failures <= Cardinality({r \in Requests :
                                              outcome[r][p] = "transient_error"})

\* What /metrics shows of a breaker is "closed" exactly while it is not tripped:
\* every path that trips or closes a breaker also sets the gauge.
GaugeShowsTrips ==
    \A p \in Providers : (gauge[p] = "closed") <=> ~Tripped(p)

\* Fallback is exhaustive and ordered: a request has an outcome for every
\* provider before the one it is at and for none after, a 503 is given only
\* after the whole chain, and only the provider that answered has "success".
WalkInOrder ==
    \A r \in Requests : \A p \in Providers :
        /\ p < at[r] => outcome[r][p] \in {"skipped_open_circuit",
                                          "permanent_error", "transient_error"}
        /\ p > at[r] => outcome[r][p] = "none"
        /\ p = at[r] => outcome[r][p] = IF pc[r] = "answered" THEN "success" ELSE "none"
        /\ pc[r] = "unavailable" => p < at[r]

\* A failed probe re-opens the circuit for a whole new cooldown: no failure
\* recorded on a tripped breaker leaves its opening time where it was.
ProbeFailureReopens ==
    [][\A p \in Providers :
         Tripped(p) /\ breaker'[p].failures > breaker[p].failures
            => breaker'[p].openedAt = now]_vars

\* generate() always returns or raises: retries and skips are bounded, no
\* provider is visited twice, whatever the breakers do meanwhile.
EveryRequestEnds ==
    \A r \in Requests : (pc[r] \in InCall) ~> (pc[r] \in Ended)

=============================================================================
