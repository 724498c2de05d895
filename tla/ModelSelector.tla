---------------------------- MODULE ModelSelector ----------------------------
(***************************************************************************)
(* The automatic model selection of app/services/model_selector.py: the    *)
(* selection of each provider is refreshed from its catalog when its TTL   *)
(* has passed, by the first request that asks; a model that failed for     *)
(* good is denylisted and a refresh forced.  One asyncio.Lock, shared by   *)
(* all providers, is held across the fetch of a catalog: the only await.   *)
(*                                                                         *)
(* A catalog is reduced to what the selection reads from it: the models    *)
(* that are eligible for each mode.  Which of them the heuristics prefer   *)
(* is left open.                                                           *)
(***************************************************************************)
EXTENDS Integers, Sequences, FiniteSets

CONSTANTS
    Callers,        \* requests in progress, each asking again and again
    Providers, Modes, Models, NoModel,
    RefreshTTL,     \* llm_model_refresh_seconds, in clock ticks
    MaxTime         \* bound on the clock, for model checking only

ASSUME SelectorAssumption ==
    /\ NoModel \notin Models
    /\ RefreshTTL \in Int
    /\ MaxTime \in Nat

VARIABLES
    now,        \* time.monotonic()
    booting,    \* providers the startup refresh has not reached yet
    selection,  \* self._selection
    fetchedAt,  \* self._fetched_at
    denylist,   \* self._denylist
    lock,       \* the holder of self._lock, then its waiters in order
    pc,         \* where each request is
    asks,       \* the provider and mode it asked for
    model,      \* the model it was given
    owed,       \* history: a mark_bad of the provider no fetch has followed yet
    endedAt     \* history: when the last fetch for the provider ended

vars == <<now, booting, selection, fetchedAt, denylist, lock, pc, asks, model, owed, endedAt>>

NotFetched == -1

Init ==
    /\ now = 0
    /\ booting = Providers
    /\ selection = [p \in Providers |-> [m \in Modes |-> NoModel]]
    /\ fetchedAt = [p \in Providers |-> NotFetched]
    /\ denylist = {}
    /\ lock = <<>>
    /\ pc = [c \in Callers |-> "idle"]
    /\ asks = [c \in Callers |-> <<>>]
    /\ model = [c \in Callers |-> NoModel]
    /\ owed = [p \in Providers |-> FALSE]
    /\ endedAt = [p \in Providers |-> NotFetched]

Expired(p) == fetchedAt[p] = NotFetched \/ now - fetchedAt[p] >= RefreshTTL

\* Mutant of Denied: the refresh does not look at the denylist.
DeniedNone(p) == {}

Denied(p) == {id \in Models : <<p, id>> \in denylist}

\* Mutant of Selections: a mode with no eligible model loses its selection.
SelectionsCleared(p, catalog) ==
    {chosen \in [Modes -> Models \cup {NoModel}] : \A m \in Modes :
        LET offered == catalog[m] \ Denied(p) IN
        IF offered = {} THEN chosen[m] = NoModel ELSE chosen[m] \in offered}

\* What _refresh leaves in the selection of a provider: for each mode one of the
\* eligible models that are not denylisted, or the last selection if there is none.
Selections(p, catalog) ==
    {chosen \in [Modes -> Models \cup {NoModel}] : \A m \in Modes :
        LET offered == catalog[m] \ Denied(p) IN
        IF offered = {} THEN chosen[m] = selection[p][m] ELSE chosen[m] \in offered}

Catalogs == [Modes -> SUBSET Models]

\* The end of _refresh: a catalog came, or the fetch failed and all is as it was.
Refreshed(p) ==
    /\ \/ \E catalog \in Catalogs : \E chosen \in Selections(p, catalog) :
             selection' = [selection EXCEPT ![p] = chosen]
       \/ UNCHANGED selection
    /\ fetchedAt' = [fetchedAt EXCEPT ![p] = now]
    /\ endedAt' = [endedAt EXCEPT ![p] = now]

\* refresh_all at startup, before any request is served: one provider at a time.
Boot(p) ==
    /\ p \in booting
    /\ booting' = booting \ {p}
    /\ Refreshed(p)
    /\ UNCHANGED <<now, denylist, lock, pc, asks, model, owed>>

-----------------------------------------------------------------------------
(* get_model, called by c *)

Idle(c) == pc[c] = "idle" /\ booting = {}
ProviderOf(c) == asks[c][1]

\* get_model(p, m) returns what is selected now.
Give(c, p, m) ==
    /\ pc' = [pc EXCEPT ![c] = "using"]
    /\ asks' = [asks EXCEPT ![c] = <<p, m>>]
    /\ model' = [model EXCEPT ![c] = selection'[p][m]]

StartFetch(c, p) ==
    /\ pc' = [pc EXCEPT ![c] = "fetching"]
    /\ owed' = [owed EXCEPT ![p] = FALSE]

AskFresh(c, p, m) ==
    /\ Idle(c) /\ ~Expired(p)
    /\ UNCHANGED selection
    /\ Give(c, p, m)
    /\ UNCHANGED <<now, booting, fetchedAt, denylist, lock, owed, endedAt>>

\* Mutant of AskLocking: the fetch is not behind the lock.
AskUnlocked(c, p, m) ==
    /\ Idle(c) /\ Expired(p)
    /\ lock' = <<c>>
    /\ asks' = [asks EXCEPT ![c] = <<p, m>>]
    /\ StartFetch(c, p)
    /\ UNCHANGED <<now, booting, selection, fetchedAt, denylist, model, endedAt>>

\* The lock is free: it is taken and the check repeated without an await.
AskLocking(c, p, m) ==
    /\ Idle(c) /\ Expired(p)
    /\ lock = <<>>
    /\ lock' = <<c>>
    /\ asks' = [asks EXCEPT ![c] = <<p, m>>]
    /\ StartFetch(c, p)
    /\ UNCHANGED <<now, booting, selection, fetchedAt, denylist, model, endedAt>>

AskWaiting(c, p, m) ==
    /\ Idle(c) /\ Expired(p)
    /\ lock # <<>>
    /\ lock' = Append(lock, c)
    /\ asks' = [asks EXCEPT ![c] = <<p, m>>]
    /\ pc' = [pc EXCEPT ![c] = "waiting"]
    /\ UNCHANGED <<now, booting, selection, fetchedAt, denylist, model, owed, endedAt>>

\* The lock has been passed on to c, which checks again.
WakeFresh(c) ==
    /\ pc[c] = "waiting" /\ Head(lock) = c
    /\ ~Expired(ProviderOf(c))
    /\ lock' = Tail(lock)
    /\ UNCHANGED selection
    /\ Give(c, asks[c][1], asks[c][2])
    /\ UNCHANGED <<now, booting, fetchedAt, denylist, owed, endedAt>>

\* Mutant of WakeFetching: no second check after the wait for the lock.
WakeFetchingAnyway(c) ==
    /\ pc[c] = "waiting" /\ Head(lock) = c
    /\ StartFetch(c, ProviderOf(c))
    /\ UNCHANGED <<now, booting, selection, fetchedAt, denylist, lock, asks, model, endedAt>>

WakeFetching(c) ==
    /\ pc[c] = "waiting" /\ Head(lock) = c
    /\ Expired(ProviderOf(c))
    /\ StartFetch(c, ProviderOf(c))
    /\ UNCHANGED <<now, booting, selection, fetchedAt, denylist, lock, asks, model, endedAt>>

\* Mutant of FetchEnds: the lock is not released.
FetchEndsLocked(c) ==
    /\ pc[c] = "fetching"
    /\ Refreshed(ProviderOf(c))
    /\ Give(c, asks[c][1], asks[c][2])
    /\ UNCHANGED <<now, booting, denylist, owed, lock>>

\* The fetch ends, in a catalog, an HTTP error or its timeout.
FetchEnds(c) ==
    /\ pc[c] = "fetching"
    /\ Refreshed(ProviderOf(c))
    /\ lock' = Tail(lock)
    /\ Give(c, asks[c][1], asks[c][2])
    /\ UNCHANGED <<now, booting, denylist, owed>>

-----------------------------------------------------------------------------
(* The provider call the model was for *)

Finish(c) ==
    /\ pc' = [pc EXCEPT ![c] = "idle"]
    /\ asks' = [asks EXCEPT ![c] = <<>>]
    /\ model' = [model EXCEPT ![c] = NoModel]

\* The call ends in anything but a permanent error of a selected model.
Works(c) ==
    /\ pc[c] = "using"
    /\ Finish(c)
    /\ UNCHANGED <<now, booting, selection, fetchedAt, denylist, lock, owed, endedAt>>

\* mark_bad: a model is denylisted once, and its provider's next request refreshes.
MarkBad(c) ==
    LET p == ProviderOf(c) IN
    /\ pc[c] = "using"
    /\ model[c] # NoModel
    /\ IF <<p, model[c]>> \in denylist
         THEN UNCHANGED <<denylist, fetchedAt, owed>>
         ELSE /\ denylist' = denylist \cup {<<p, model[c]>>}
              /\ fetchedAt' = [fetchedAt EXCEPT ![p] = NotFetched]
              /\ owed' = [owed EXCEPT ![p] = TRUE]
    /\ Finish(c)
    /\ UNCHANGED <<now, booting, selection, lock, endedAt>>

Tick ==
    /\ now < MaxTime
    /\ now' = now + 1
    /\ UNCHANGED <<booting, selection, fetchedAt, denylist, lock, pc, asks, model, owed, endedAt>>

Ask(c) ==
    \E p \in Providers, m \in Modes :
        AskFresh(c, p, m) \/ AskLocking(c, p, m) \/ AskWaiting(c, p, m)
Wake(c) == WakeFresh(c) \/ WakeFetching(c)
Use(c) == Works(c) \/ MarkBad(c)

Next ==
    \/ Tick
    \/ \E p \in Providers : Boot(p)
    \/ \E c \in Callers : Ask(c) \/ Wake(c) \/ FetchEnds(c) \/ Use(c)

\* A fetch times out (catalog_timeout_seconds), and the loop runs a woken task.
Fairness == \A c \in Callers : WF_vars(Wake(c)) /\ WF_vars(FetchEnds(c))

Spec == Init /\ [][Next]_vars /\ Fairness

-----------------------------------------------------------------------------
(* Properties *)

TypeOK ==
    /\ now \in Nat
    /\ booting \in SUBSET Providers
    /\ selection \in [Providers -> [Modes -> Models \cup {NoModel}]]
    /\ fetchedAt \in [Providers -> Nat \cup {NotFetched}]
    /\ denylist \in SUBSET (Providers \X Models)
    /\ lock \in Seq(Callers)
    /\ pc \in [Callers -> {"idle", "waiting", "fetching", "using"}]
    /\ asks \in [Callers -> (Providers \X Modes) \cup {<<>>}]
    /\ model \in [Callers -> Models \cup {NoModel}]
    /\ owed \in [Providers -> BOOLEAN]
    /\ endedAt \in [Providers -> Nat \cup {NotFetched}]

\* The lock does its work: whoever fetches holds it, so no two catalogs are fetched
\* at once, and nobody waits for a lock that nobody holds.
LockIsHeld ==
    /\ \A c \in Callers :
          /\ pc[c] = "fetching" => lock # <<>> /\ Head(lock) = c
          /\ pc[c] = "waiting" <=> \E i \in 1..Len(lock) :
                                      lock[i] = c /\ pc[c] # "fetching"
    /\ \A i, j \in 1..Len(lock) : i # j => lock[i] # lock[j]

\* The catalogs are not hammered, down or not: a fetch starts a whole TTL after the
\* last one for that provider ended, or after a mark_bad no fetch has followed yet.
\* However many requests find a selection expired, one of them fetches
\* ("double-check apos esperar o lock", model_selector.py:350, and 309-310).
NoNeedlessFetch ==
    [][\A c \in Callers :
         pc[c] # "fetching" /\ pc'[c] = "fetching" =>
            LET p == asks'[c][1] IN owed[p] \/ now >= endedAt[p] + RefreshTTL]_vars

\* "Ficam fora das proximas selecoes" (model_selector.py:265-266): no refresh changes
\* a selection to a denylisted model, not even to one denylisted while its catalog was
\* on the way.  (One that was selected before, and that a refresh may keep or find
\* again, is not what this is about.)
NoDenylistedPick ==
    [][\A p \in Providers, m \in Modes :
         selection'[p][m] # selection[p][m] => <<p, selection'[p][m]>> \notin denylist]_vars

\* "Devolve a ultima selecao boa" (model_selector.py:236-237, 305): neither a failed
\* fetch nor a catalog with nothing eligible takes a selection away.
SelectionIsKept ==
    [][\A p \in Providers, m \in Modes :
         selection[p][m] # NoModel => selection'[p][m] # NoModel]_vars

\* get_model returns: the lock is released on every path and reaches every waiter.
GetModelReturns ==
    \A c \in Callers : pc[c] \in {"waiting", "fetching"} ~> pc[c] = "using"

-----------------------------------------------------------------------------
(* What the documentation says and the code does not do *)

\* "Forca refresh no proximo request" (model_selector.py:274): a model that has just
\* been denylisted is not what a fresh selection offers; while it is selected, and
\* until a fetch has followed the mark_bad, the selection counts as expired.
MarkBadForcesRefresh ==
    \A p \in Providers, m \in Modes :
        owed[p] /\ <<p, selection[p][m]>> \in denylist => Expired(p)

=============================================================================
