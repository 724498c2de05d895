----------------------- MODULE ResilientClient_proofs -----------------------
(***************************************************************************)
(* Proofs about ResilientClient, for every number of requests, length of   *)
(* the chain, number of retries, threshold and cooldown.                   *)
(***************************************************************************)
EXTENDS ResilientClient, FiniteSetTheorems, TLAPS

\* A breaker as the invariant wants it: typed, not opened in the future, and
\* tripped exactly when its failures have reached the threshold.
Sound(b, time) ==
    /\ b \in Breaker
    /\ b.openedAt <= time
    /\ b.openedAt # NotOpened <=> /\ b.failures > 0
                                  /\ b.failures >= FailureThreshold

\* A call let in at time t respects breaker b: it came before the opening or
\* after the cooldown.
Respects(t, b) ==
    b.openedAt # NotOpened => \/ t <= b.openedAt
                              \/ t >= b.openedAt + Cooldown

\* Where a request is agrees with the place it has in the chain.
PlaceOK(r) ==
    /\ pc[r] = "idle" => at[r] = 0
    /\ pc[r] \in InCall \cup {"answered", "raised"} => at[r] \in Providers
    /\ pc[r] = "unavailable" => at[r] = NumProviders + 1

\* The inductive invariant.
IInv ==
    /\ TypeOK
    /\ \A p \in Providers : Sound(breaker[p], now)
    /\ GaugeShowsTrips
    /\ WalkInOrder
    /\ \A r \in Requests : PlaceOK(r) /\ admittedAt[r] <= now
    /\ NoCallAdmittedWhileOpen

\* Both ways of recording an outcome keep a breaker sound.
LEMMA RecordingIsSound ==
    ASSUME NEW b, NEW time \in Nat, Sound(b, time)
    PROVE  /\ Sound(RecordSuccess(b), time)
           /\ Sound(RecordFailure(b, time), time)
           /\ RecordSuccess(b).openedAt = NotOpened
           /\ RecordFailure(b, time).openedAt \in {b.openedAt, time}
           /\ b.openedAt # NotOpened => RecordFailure(b, time).openedAt = time
<1> USE DEF Sound, Breaker, NotOpened
<1>1. /\ RecordSuccess(b).openedAt = NotOpened
      /\ Sound(RecordSuccess(b), time)
  BY BreakerAssumption DEF RecordSuccess, NewBreaker
<1>2. /\ RecordFailure(b, time) \in Breaker
      /\ RecordFailure(b, time).failures = b.failures + 1
      /\ RecordFailure(b, time).openedAt =
            IF b.failures + 1 >= FailureThreshold THEN time ELSE b.openedAt
  BY DEF RecordFailure
<1>3. Sound(RecordFailure(b, time), time)
  BY <1>2, BreakerAssumption
<1>4. b.openedAt # NotOpened => RecordFailure(b, time).openedAt = time
  BY <1>2, BreakerAssumption
<1> QED BY <1>1, <1>2, <1>3, <1>4

\* A reading of a breaker is one of the three states, and a tripped breaker
\* never reads "closed".
LEMMA StateOfBreaker ==
    ASSUME NEW b, NEW time
    PROVE  /\ State(b, time) \in {"closed", "half-open", "open"}
           /\ State(b, time) = "closed" <=> b.openedAt = NotOpened
BY DEF State

\* Outcomes of a walk that has left provider i behind.
LeftBehind(out, i) ==
    /\ out \in [Providers -> Outcomes]
    /\ \A p \in Providers :
          IF p <= i THEN out[p] \in {"skipped_open_circuit", "permanent_error",
                                    "transient_error"}
                    ELSE out[p] = "none"

\* A gauge that agrees with the breakers br.
Shows(g, br) ==
    /\ g \in [Providers -> {"closed", "half-open", "open"}]
    /\ \A p \in Providers : g[p] = "closed" <=> br[p].openedAt = NotOpened

\* Breakers that are sound and respected by the calls in flight other than r's.
Fit(br, r) ==
    /\ br \in [Providers -> Breaker]
    /\ \A p \in Providers : Sound(br[p], now)
    /\ \A p \in Providers : \A q \in CallsAt(p) \ {r} : Respects(admittedAt[q], br[p])

\* A step of the walk keeps the invariant: whoever leaves provider i with sound
\* breakers br, a gauge g that agrees with them, outcomes out for the providers
\* up to i, and the calls in flight respecting br.
LEMMA WalkOnKeepsIInv ==
    ASSUME IInv,
           NEW r \in Requests, pc[r] \in {"idle", "calling"},
           NEW i \in 0..NumProviders,
           NEW br, Fit(br, r),
           NEW out, LeftBehind(out, i),
           NEW g, Shows(g, br),
           WalkOn(r, i, br, out, g)
    PROVE  IInv'
<1> USE ChainAssumption DEF Providers, Fit, LeftBehind, Shows
<1>1. TypeOK /\ WalkInOrder /\ \A q \in Requests : PlaceOK(q) /\ admittedAt[q] <= now
  BY DEF IInv
<1>2. PICK stop \in (i+1)..(NumProviders+1) :
        /\ \A q \in Providers : i < q /\ q < stop => ~Allow(br[q], now)
        /\ stop \in Providers => Allow(br[stop], now)
        /\ pc' = [pc EXCEPT ![r] = IF stop \in Providers THEN "calling"
                                                         ELSE "unavailable"]
        /\ at' = [at EXCEPT ![r] = stop]
        /\ attempt' = [attempt EXCEPT ![r] = IF stop \in Providers THEN 1 ELSE 0]
        /\ admittedAt' = [admittedAt EXCEPT ![r] = IF stop \in Providers THEN now ELSE 0]
        /\ outcome' = [outcome EXCEPT ![r] =
              [q \in Providers |-> IF i < q /\ q < stop THEN "skipped_open_circuit"
                                                       ELSE out[q]]]
        /\ gauge' = [q \in Providers |-> IF i < q /\ q < stop THEN State(br[q], now)
                                                           ELSE g[q]]
        /\ breaker' = br
        /\ now' = now
  BY DEF WalkOn
<1>3. TypeOK'
  BY <1>1, <1>2, StateOfBreaker DEF TypeOK, Outcomes, InCall, Ended
<1>4. \A p \in Providers : Sound(breaker'[p], now')
  BY <1>2
<1>5. GaugeShowsTrips'
  BY <1>2, StateOfBreaker DEF GaugeShowsTrips, Tripped
<1>6. WalkInOrder'
  BY <1>1, <1>2 DEF WalkInOrder, TypeOK, Outcomes, InCall, Ended
<1>7. \A q \in Requests : (PlaceOK(q) /\ admittedAt[q] <= now)'
  BY <1>1, <1>2 DEF PlaceOK, TypeOK, InCall
<1>8. NoCallAdmittedWhileOpen'
  <2> SUFFICES ASSUME NEW p \in Providers, NEW q \in CallsAt(p)'
               PROVE  Respects(admittedAt'[q], breaker'[p])
    BY DEF NoCallAdmittedWhileOpen, Tripped, Respects
  <2>1. CASE q = r
    <3>1. p = stop /\ admittedAt'[r] = now /\ Allow(br[p], now)
      BY <1>1, <1>2, <2>1 DEF CallsAt, TypeOK, InCall
    <3>2. now \in Nat /\ (br[p].openedAt # NotOpened => br[p].openedAt \in Nat)
      BY <1>1 DEF TypeOK, Breaker
    <3> QED BY <1>2, <2>1, <3>1, <3>2, BreakerAssumption DEF Respects, Allow, State
  <2>2. CASE q # r
    BY <1>1, <1>2, <2>2 DEF CallsAt, TypeOK
  <2> QED BY <2>1, <2>2
<1> QED BY <1>3, <1>4, <1>5, <1>6, <1>7, <1>8 DEF IInv

\* The initial state satisfies the invariant.
LEMMA InitIInv == Init => IInv
BY ChainAssumption, BreakerAssumption
   DEF Init, IInv, TypeOK, Sound, Breaker, NewBreaker, NotOpened, GaugeShowsTrips, Tripped,
       WalkInOrder, PlaceOK, NoCallAdmittedWhileOpen, CallsAt, NoOutcome, Outcomes,
       Providers, InCall, Ended

\* Every step of the client, the clock's included, keeps the invariant.
LEMMA NextIInv == IInv /\ [Next]_vars => IInv'
<1> SUFFICES ASSUME IInv, [Next]_vars
             PROVE  IInv'
  OBVIOUS
<1> USE ChainAssumption DEF Providers
<1>1. /\ TypeOK
      /\ WalkInOrder
      /\ GaugeShowsTrips
      /\ \A p \in Providers : Sound(breaker[p], now)
      /\ \A r \in Requests : PlaceOK(r) /\ admittedAt[r] <= now
      /\ \A p \in Providers : \A q \in CallsAt(p) : Respects(admittedAt[q], breaker[p])
  BY DEF IInv, NoCallAdmittedWhileOpen, Tripped, Respects
<1>2. ASSUME NEW r \in Requests, Generate(r)
      PROVE  IInv'
  <2>1. pc[r] = "idle" /\ WalkOn(r, 0, breaker, outcome[r], gauge)
    BY <1>2 DEF Generate
  <2>2. LeftBehind(outcome[r], 0)
    BY <1>1, <2>1 DEF WalkInOrder, PlaceOK, TypeOK, LeftBehind
  <2>3. Fit(breaker, r) /\ Shows(gauge, breaker)
    BY <1>1 DEF TypeOK, GaugeShowsTrips, Tripped, Fit, Shows
  <2> QED BY <2>1, <2>2, <2>3, WalkOnKeepsIInv
<1>3. ASSUME NEW r \in Requests, pc[r] = "calling", ProviderFails(r)
      PROVE  IInv'
  <2> DEFINE p == at[r]
             br == [breaker EXCEPT ![p] = RecordFailure(@, now)]
             out == [outcome[r] EXCEPT ![p] = "transient_error"]
             g == [gauge EXCEPT ![p] = State(br[p], now)]
  <2>1. p \in Providers /\ now \in Nat /\ breaker \in [Providers -> Breaker]
    BY <1>1, <1>3 DEF PlaceOK, InCall, TypeOK
  <2>2. \A q \in Providers : /\ Sound(br[q], now)
                            /\ br[q].openedAt \in {breaker[q].openedAt, now}
    BY <1>1, <2>1, RecordingIsSound
  <2>3. br \in [Providers -> Breaker]
    BY <2>1, <2>2 DEF Sound
  <2>4. \A q \in Providers : \A s \in CallsAt(q) \ {r} : Respects(admittedAt[s], br[q])
    BY <1>1, <2>2 DEF Respects, CallsAt, TypeOK
  <2>5. Fit(br, r)
    BY <2>2, <2>3, <2>4 DEF Fit
  <2>6. Shows(g, br)
    BY <1>1, <2>1, StateOfBreaker DEF TypeOK, GaugeShowsTrips, Tripped, Shows
  <2>7. LeftBehind(out, p)
    BY <1>1, <1>3, <2>1 DEF TypeOK, WalkInOrder, Outcomes, LeftBehind
  <2>8. p \in 0..NumProviders /\ WalkOn(r, p, br, out, g)
    BY <1>3, <2>1 DEF ProviderFails
  <2> HIDE DEF p, br, out, g
  <2> QED BY <1>3, <2>5, <2>6, <2>7, <2>8, WalkOnKeepsIInv
<1>4. ASSUME NEW r \in Requests, CallRejected(r)
      PROVE  IInv'
  <2> DEFINE p == at[r]
             out == [outcome[r] EXCEPT ![p] = "permanent_error"]
  <2>1. pc[r] = "calling" /\ WalkOn(r, p, breaker, out, gauge)
    BY <1>4 DEF CallRejected
  <2>2. p \in Providers /\ p \in 0..NumProviders
    BY <1>1, <2>1 DEF PlaceOK, InCall
  <2>3. Fit(breaker, r) /\ Shows(gauge, breaker)
    BY <1>1 DEF TypeOK, GaugeShowsTrips, Tripped, Fit, Shows
  <2>4. LeftBehind(out, p)
    BY <1>1, <2>1, <2>2 DEF TypeOK, WalkInOrder, Outcomes, LeftBehind
  <2> HIDE DEF p, out
  <2> QED BY <2>1, <2>2, <2>3, <2>4, WalkOnKeepsIInv
<1>5. ASSUME NEW r \in Requests, CallSucceeds(r)
      PROVE  IInv'
  <2> DEFINE p == at[r]
  <2>1. p \in Providers /\ now \in Nat /\ breaker \in [Providers -> Breaker]
    BY <1>1, <1>5 DEF CallSucceeds, PlaceOK, InCall, TypeOK
  <2>2. \A q \in Providers : /\ Sound(breaker'[q], now)
                            /\ breaker'[q].openedAt \in {breaker[q].openedAt, NotOpened}
    BY <1>1, <1>5, <2>1, RecordingIsSound DEF CallSucceeds
  <2>3. breaker' \in [Providers -> Breaker]
    BY <1>5, <2>1, <2>2 DEF CallSucceeds, Sound
  <2>4. TypeOK'
    BY <1>1, <1>5, <2>1, <2>3, StateOfBreaker
       DEF CallSucceeds, LeaveCall, TypeOK, InCall, Ended, Outcomes
  <2>5. GaugeShowsTrips'
    BY <1>1, <1>5, <2>1, StateOfBreaker DEF CallSucceeds, TypeOK, GaugeShowsTrips, Tripped
  <2>6. WalkInOrder'
    BY <1>1, <1>5, <2>1 DEF CallSucceeds, WalkInOrder, TypeOK
  <2>7. \A q \in Requests : (PlaceOK(q) /\ admittedAt[q] <= now)'
    BY <1>1, <1>5 DEF CallSucceeds, LeaveCall, PlaceOK, TypeOK, InCall
  <2>8. \A q \in Providers : \A s \in CallsAt(q)' :
            /\ s \in CallsAt(q)
            /\ admittedAt'[s] = admittedAt[s]
    BY <1>1, <1>5 DEF CallSucceeds, LeaveCall, CallsAt, TypeOK, InCall
  <2>9. NoCallAdmittedWhileOpen'
    BY <1>1, <2>2, <2>8 DEF NoCallAdmittedWhileOpen, Tripped, Respects
  <2> QED BY <1>5, <2>2, <2>4, <2>5, <2>6, <2>7, <2>9 DEF IInv, CallSucceeds
<1>6. ASSUME NEW r \in Requests, CallTimesOut(r) \/ Retry(r) \/ CallRaises(r)
      PROVE  IInv'
  <2> USE <1>6 DEF CallTimesOut, Retry, CallRaises, LeaveCall
  <2>1. UNCHANGED <<now, breaker, gauge, at, outcome>>
    OBVIOUS
  <2>2. TypeOK'
    <3>1. pc' \in [Requests -> {"idle"} \cup InCall \cup Ended]
      BY <1>1 DEF TypeOK, InCall, Ended
    <3>2. attempt' \in [Requests -> Nat] /\ admittedAt' \in [Requests -> Nat]
      BY <1>1 DEF TypeOK
    <3> QED BY <1>1, <2>1, <3>1, <3>2 DEF TypeOK
  <2>5. WalkInOrder'
    BY <1>1 DEF TypeOK, WalkInOrder, InCall, Ended
  <2>6. \A q \in Requests : (PlaceOK(q) /\ admittedAt[q] <= now)'
    BY <1>1 DEF TypeOK, PlaceOK, InCall, Ended
  <2>3. \A q \in Providers : \A s \in CallsAt(q)' :
            /\ s \in CallsAt(q)
            /\ admittedAt'[s] = admittedAt[s]
    BY <1>1 DEF CallsAt, TypeOK, InCall
  <2>4. NoCallAdmittedWhileOpen'
    BY <1>1, <2>1, <2>3 DEF NoCallAdmittedWhileOpen, Tripped, Respects
  <2> QED BY <1>1, <2>1, <2>2, <2>4, <2>5, <2>6 DEF IInv, GaugeShowsTrips, Tripped
<1>7. ASSUME Tick PROVE IInv'
  <2>1. /\ UNCHANGED <<breaker, gauge, pc, at, attempt, admittedAt, outcome>>
        /\ now \in Nat /\ now' = now + 1
    BY <1>1, <1>7 DEF Tick, TypeOK
  <2>2. /\ \A p \in Providers : Sound(breaker'[p], now')
        /\ \A q \in Requests : (PlaceOK(q) /\ admittedAt[q] <= now)'
    BY <1>1, <2>1 DEF Sound, Breaker, NotOpened, PlaceOK, TypeOK
  <2> QED BY <1>1, <2>1, <2>2 DEF IInv, TypeOK, WalkInOrder, GaugeShowsTrips, Tripped,
             NoCallAdmittedWhileOpen, CallsAt, Respects
<1>8. CASE UNCHANGED vars
  BY <1>8, <1>1 DEF vars, IInv, TypeOK, WalkInOrder, GaugeShowsTrips, Tripped, PlaceOK,
     NoCallAdmittedWhileOpen, CallsAt, Respects
<1> QED
  BY <1>2, <1>3, <1>4, <1>5, <1>6, <1>7, <1>8
     DEF Next, CallEnds, CallExhausted, CallRateLimited

\* The inductive invariant is an invariant of every instance.
LEMMA Invariance == Spec => []IInv
<1>1. Init => IInv
  BY InitIInv
<1>2. IInv /\ [Next]_vars => IInv'
  BY NextIInv
<1> QED BY <1>1, <1>2, PTL DEF Spec

\* Type correctness.
THEOREM TypeCorrect == Spec => []TypeOK
<1>1. IInv => TypeOK
  BY DEF IInv
<1> QED BY <1>1, Invariance, PTL

\* A circuit is tripped exactly while the failures counted since the last success
\* have reached the threshold (resilience.py:79-86).
THEOREM TrippedExactlyAtThreshold == Spec => []TrippedAtThreshold
<1>1. IInv => TrippedAtThreshold
  BY DEF IInv, TrippedAtThreshold, Tripped, Sound
<1> QED BY <1>1, Invariance, PTL

\* No call is ever let in while its provider's circuit is open
\* (resilience.py:68-77, 146-152), however late answers move the opening time.
THEOREM OpenCircuitAdmitsNoCall == Spec => []NoCallAdmittedWhileOpen
<1>1. IInv => NoCallAdmittedWhileOpen
  BY DEF IInv
<1> QED BY <1>1, Invariance, PTL

\* The gauge reads "closed" exactly while the circuit is not tripped.
THEOREM GaugeFollowsTrips == Spec => []GaugeShowsTrips
<1>1. IInv => GaugeShowsTrips
  BY DEF IInv
<1> QED BY <1>1, Invariance, PTL

\* The chain is walked in order and to its end before a request gets a 503.
THEOREM ChainIsWalkedInOrder == Spec => []WalkInOrder
<1>1. IInv => WalkInOrder
  BY DEF IInv
<1> QED BY <1>1, Invariance, PTL

\* A failed probe re-opens the circuit from the present (resilience.py:83-86): the
\* threshold is still reached, so the failure moves the opening time.
THEOREM FailedProbeReopens == Spec => ProbeFailureReopens
<1>1. ASSUME IInv, [Next]_vars, NEW p \in Providers,
             Tripped(p), breaker'[p].failures > breaker[p].failures
      PROVE  breaker'[p].openedAt = now
  <2>1. /\ now \in Nat
        /\ breaker \in [Providers -> Breaker]
        /\ Sound(breaker[p], now)
        /\ breaker[p].failures \in Nat
    BY <1>1 DEF IInv, TypeOK, Breaker
  <2>2. breaker' # breaker
    BY <1>1, <2>1
  <2>3. PICK r \in Requests : CallSucceeds(r) \/ ProviderFails(r)
    BY <1>1, <2>2 DEF Next, vars, Tick, Generate, CallEnds, CallTimesOut, CallExhausted,
       CallRateLimited, CallRejected, CallRaises, Retry, WalkOn
  <2>4. CASE CallSucceeds(r)
    BY <1>1, <2>1, <2>4 DEF CallSucceeds, RecordSuccess, NewBreaker
  <2>5. CASE ProviderFails(r)
    <3>1. breaker' = [breaker EXCEPT ![at[r]] = RecordFailure(@, now)]
      BY <2>5 DEF ProviderFails, WalkOn
    <3>2. at[r] = p /\ breaker'[p] = RecordFailure(breaker[p], now)
      BY <1>1, <2>1, <3>1
    <3> QED BY <1>1, <2>1, <3>2, RecordingIsSound DEF Tripped
  <2> QED BY <2>3, <2>4, <2>5
<1>2. IInv /\ [Next]_vars =>
        \A p \in Providers :
           Tripped(p) /\ breaker'[p].failures > breaker[p].failures
              => breaker'[p].openedAt = now
  BY <1>1
<1> QED BY <1>2, Invariance, PTL DEF Spec, ProbeFailureReopens

-----------------------------------------------------------------------------
(***************************************************************************)
(* The evidence behind an open circuit.  The count of a breaker never      *)
(* exceeds the number of requests that lost its provider, because a        *)
(* failure is recorded together with an outcome of a request that had      *)
(* none there yet (WalkInOrder), and no later step takes that outcome      *)
(* back: a skip is only ever of a provider still ahead.                    *)
(***************************************************************************)

\* The requests that lost provider p to a transient error.
Lost(p) == {r \in Requests : outcome[r][p] = "transient_error"}

\* What is left of them when there may be infinitely many requests.
Evidence ==
    \A p \in Providers :
        IsFiniteSet(Lost(p)) /\ breaker[p].failures <= Cardinality(Lost(p))

\* A walk that leaves provider i behind changes nobody's lost providers but r's, and
\* those to what out says of them.
LEMMA WalkOnLoses ==
    ASSUME IInv,
           NEW r \in Requests,
           NEW i \in 0..NumProviders,
           NEW br,
           NEW out, LeftBehind(out, i),
           NEW g,
           WalkOn(r, i, br, out, g),
           NEW p \in Providers
    PROVE  /\ breaker' = br
           /\ \A q \in Requests :
                 q \in Lost(p)' <=> IF q = r THEN out[p] = "transient_error" ELSE q \in Lost(p)
<1>1. PICK stop \in (i+1)..(NumProviders+1) :
        /\ outcome' = [outcome EXCEPT ![r] =
              [q \in Providers |-> IF i < q /\ q < stop THEN "skipped_open_circuit"
                                                       ELSE out[q]]]
        /\ breaker' = br
  BY DEF WalkOn
<1>2. outcome \in [Requests -> [Providers -> Outcomes]]
  BY DEF IInv, TypeOK
<1>3. i < p => out[p] # "transient_error"
  BY ChainAssumption DEF LeftBehind, Providers
<1>4. \A q \in Requests :
        outcome'[q][p] = "transient_error"
           <=> IF q = r THEN out[p] = "transient_error" ELSE outcome[q][p] = "transient_error"
  BY <1>1, <1>2, <1>3
<1> QED BY <1>1, <1>4 DEF Lost

\* A provider whose evidence stays while its breaker counts no more failures.
LEMMA EvidenceKept ==
    ASSUME NEW p \in Providers, Lost(p)' = Lost(p),
           breaker'[p].failures <= breaker[p].failures,
           breaker[p].failures \in Nat, breaker'[p].failures \in Nat,
           IsFiniteSet(Lost(p)), breaker[p].failures <= Cardinality(Lost(p))
    PROVE  IsFiniteSet(Lost(p)') /\ breaker'[p].failures <= Cardinality(Lost(p)')
BY FS_CardinalityType

LEMMA NextEvidence == IInv /\ IInv' /\ Evidence /\ [Next]_vars => Evidence'
<1> SUFFICES ASSUME IInv, IInv', Evidence, [Next]_vars, NEW p \in Providers
             PROVE  IsFiniteSet(Lost(p)') /\ breaker'[p].failures <= Cardinality(Lost(p)')
  BY DEF Evidence
<1>1. /\ breaker[p].failures \in Nat /\ breaker'[p].failures \in Nat
      /\ IsFiniteSet(Lost(p)) /\ breaker[p].failures <= Cardinality(Lost(p))
  BY DEF IInv, TypeOK, Breaker, Evidence
<1>2. /\ outcome \in [Requests -> [Providers -> Outcomes]]
      /\ breaker \in [Providers -> Breaker]
      /\ WalkInOrder
      /\ \A q \in Requests : PlaceOK(q)
  BY DEF IInv, TypeOK
<1>3. ASSUME NEW r \in Requests, Generate(r)
      PROVE  Lost(p)' = Lost(p) /\ breaker' = breaker
  <2>1. PICK out, br, g :
          /\ out = outcome[r] /\ br = breaker
          /\ out \in [Providers -> Outcomes]
          /\ pc[r] = "idle" /\ WalkOn(r, 0, br, out, g)
    BY <1>2, <1>3 DEF Generate
  <2>2. LeftBehind(out, 0) /\ 0 \in 0..NumProviders
    BY <1>2, <2>1, ChainAssumption DEF WalkInOrder, PlaceOK, LeftBehind, Providers
  <2>3. /\ breaker' = br
        /\ \A q \in Requests :
             q \in Lost(p)' <=> IF q = r THEN out[p] = "transient_error" ELSE q \in Lost(p)
    BY <2>1, <2>2, WalkOnLoses
  <2> QED BY <2>1, <2>3 DEF Lost
<1>4. ASSUME NEW r \in Requests, CallRejected(r)
      PROVE  Lost(p)' = Lost(p) /\ breaker' = breaker
  <2>1. PICK a \in Providers : at[r] = a /\ pc[r] = "calling"
    BY <1>2, <1>4 DEF CallRejected, PlaceOK, InCall
  <2>2. PICK out \in [Providers -> Outcomes] :
          out = [outcome[r] EXCEPT ![a] = "permanent_error"]
    BY <1>2 DEF Outcomes
  <2>3. PICK br, g : br = breaker /\ WalkOn(r, a, br, out, g)
    BY <1>4, <2>1, <2>2 DEF CallRejected
  <2>4. LeftBehind(out, a) /\ a \in 0..NumProviders
    <3>1. \A q \in Providers : out[q] = IF q = a THEN "permanent_error" ELSE outcome[r][q]
      BY <1>2, <2>2
    <3>2. \A q \in Providers : q < a => outcome[r][q] \in {"skipped_open_circuit",
                                          "permanent_error", "transient_error"}
      BY <1>2, <2>1 DEF WalkInOrder
    <3>3. \A q \in Providers : q > a => outcome[r][q] = "none"
      BY <1>2, <2>1 DEF WalkInOrder
    <3> QED BY <2>1, <3>1, <3>2, <3>3, ChainAssumption DEF LeftBehind, Providers
  <2>5. /\ breaker' = br
        /\ \A q \in Requests :
             q \in Lost(p)' <=> IF q = r THEN out[p] = "transient_error" ELSE q \in Lost(p)
    BY <2>3, <2>4, WalkOnLoses
  <2>6. out[p] = "transient_error" <=> outcome[r][p] = "transient_error"
    BY <1>2, <2>1, <2>2 DEF WalkInOrder, Outcomes
  <2> QED BY <2>3, <2>5, <2>6 DEF Lost
<1>5. ASSUME NEW r \in Requests, pc[r] = "calling", ProviderFails(r)
      PROVE  IsFiniteSet(Lost(p)') /\ breaker'[p].failures <= Cardinality(Lost(p)')
  <2>1. PICK a \in Providers : at[r] = a
    BY <1>2, <1>5 DEF PlaceOK, InCall
  <2>2. PICK out \in [Providers -> Outcomes] :
          out = [outcome[r] EXCEPT ![a] = "transient_error"]
    BY <1>2 DEF Outcomes
  <2>3. PICK br, g : /\ br = [breaker EXCEPT ![a] = RecordFailure(@, now)]
                     /\ WalkOn(r, a, br, out, g)
    BY <1>5, <2>1, <2>2 DEF ProviderFails
  <2>4. LeftBehind(out, a) /\ a \in 0..NumProviders
    <3>1. \A q \in Providers : out[q] = IF q = a THEN "transient_error" ELSE outcome[r][q]
      BY <1>2, <2>2
    <3>2. \A q \in Providers : q < a => outcome[r][q] \in {"skipped_open_circuit",
                                          "permanent_error", "transient_error"}
      BY <1>2, <2>1 DEF WalkInOrder
    <3>3. \A q \in Providers : q > a => outcome[r][q] = "none"
      BY <1>2, <2>1 DEF WalkInOrder
    <3> QED BY <2>1, <3>1, <3>2, <3>3, ChainAssumption DEF LeftBehind, Providers
  <2>5. /\ breaker' = br
        /\ \A q \in Requests :
             q \in Lost(p)' <=> IF q = r THEN out[p] = "transient_error" ELSE q \in Lost(p)
    BY <2>3, <2>4, WalkOnLoses
  <2>6. CASE p = a
    <3>1. r \notin Lost(p) /\ out[p] = "transient_error"
      BY <1>2, <1>5, <2>1, <2>2, <2>6 DEF WalkInOrder, Lost
    <3>2. Lost(p)' = Lost(p) \cup {r}
      BY <2>5, <3>1 DEF Lost
    <3>3. /\ IsFiniteSet(Lost(p) \cup {r})
          /\ Cardinality(Lost(p) \cup {r}) = Cardinality(Lost(p)) + 1
          /\ Cardinality(Lost(p)) \in Nat
      BY <1>1, <3>1, FS_AddElement, FS_CardinalityType
    <3>4. breaker'[p].failures = breaker[p].failures + 1
      BY <1>2, <2>3, <2>5, <2>6 DEF RecordFailure
    <3> QED BY <1>1, <3>2, <3>3, <3>4
  <2>7. CASE p # a
    <3>1. Lost(p)' = Lost(p)
      BY <1>2, <2>2, <2>5, <2>7 DEF Lost
    <3>2. breaker'[p] = breaker[p]
      BY <1>2, <2>3, <2>5, <2>7
    <3> QED BY <1>1, <3>1, <3>2
  <2> QED BY <2>6, <2>7
<1>6. ASSUME NEW r \in Requests, CallSucceeds(r)
      PROVE  IsFiniteSet(Lost(p)') /\ breaker'[p].failures <= Cardinality(Lost(p)')
  <2>1. at[r] \in Providers /\ outcome[r][at[r]] = "none"
    BY <1>2, <1>6 DEF CallSucceeds, PlaceOK, InCall, WalkInOrder
  <2>2. Lost(p)' = Lost(p)
    BY <1>2, <1>6, <2>1 DEF CallSucceeds, Lost
  <2>3. breaker'[p].failures \in {0, breaker[p].failures}
    BY <1>2, <1>6, <2>1 DEF CallSucceeds, RecordSuccess, NewBreaker
  <2> QED BY <1>1, <2>2, <2>3, EvidenceKept
<1>7. ASSUME UNCHANGED <<breaker, outcome>>
      PROVE  Lost(p)' = Lost(p) /\ breaker' = breaker
  BY <1>7 DEF Lost
<1>8. ASSUME Lost(p)' = Lost(p) /\ breaker' = breaker
      PROVE  IsFiniteSet(Lost(p)') /\ breaker'[p].failures <= Cardinality(Lost(p)')
  BY <1>1, <1>8
<1> QED
  BY <1>3, <1>4, <1>5, <1>6, <1>7, <1>8
     DEF Next, vars, Tick, CallEnds, CallTimesOut, CallExhausted, CallRateLimited, CallRaises, Retry

\* The evidence behind an open circuit (resilience.py:79-86, 154-168): as many different
\* requests as a breaker counts failures have really lost its provider to a transient
\* error, however many requests there are.
THEOREM CircuitOpensOnEvidence == Spec => []OpenOnEvidence
<1>1. Init => Evidence
  <2> SUFFICES ASSUME Init, NEW p \in Providers
               PROVE  IsFiniteSet(Lost(p)) /\ breaker[p].failures <= Cardinality(Lost(p))
    BY DEF Evidence
  <2>1. Lost(p) = {} /\ breaker[p].failures = 0
    BY DEF Init, Lost, NoOutcome, NewBreaker
  <2> QED BY <2>1, FS_EmptySet
<1>2. Evidence => OpenOnEvidence
  BY DEF Evidence, OpenOnEvidence, Lost
<1> QED BY <1>1, <1>2, NextEvidence, Invariance, PTL DEF Spec

=============================================================================
