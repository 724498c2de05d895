----------------------------- MODULE RateLimiter -----------------------------
(***************************************************************************)
(* RateLimitMiddleware._check of app/core/ratelimit.py: a deque of time    *)
(* stamps per client, in a table that is emptied when one client too many  *)
(* arrives.  A check has no await, so it is one step.                      *)
(*                                                                         *)
(* Time is counted in ticks, TicksPerSecond to the second, because the     *)
(* answer to a rejected client is rounded to whole seconds.                *)
(***************************************************************************)
EXTENDS Integers, Sequences, FiniteSets

CONSTANTS
    Clients,        \* the hashes _client_key makes of (API key, IP)
    Limits,         \* the values of rate_limit_requests considered
    Window,         \* rate_limit_window_seconds, in ticks
    TicksPerSecond,
    MaxTracked,     \* _MAX_TRACKED_KEYS
    MaxTime         \* bound on the clock, for model checking only

ASSUME LimiterAssumption ==
    /\ Limits \subseteq Nat
    /\ Window \in Nat \ {0}
    /\ TicksPerSecond \in Nat \ {0}
    /\ MaxTracked \in Nat \ {0}
    /\ MaxTime \in Nat

VARIABLES
    now,        \* time.monotonic()
    limit,      \* self.max_requests
    hits,       \* self._hits
    verdict,    \* what the last check of each client returned
    log,        \* history: when each client was admitted since the last clear
    promised    \* history: when a rejected client was told to come back

limiterVars == <<now, limit, hits, verdict, log, promised>>

NoPromise == -1
NoHits == [c \in {} |-> <<>>]

LimiterInit ==
    /\ now = 0
    /\ limit \in Limits
    /\ hits = NoHits
    /\ verdict = [c \in Clients |-> "none"]
    /\ log = [c \in Clients |-> <<>>]
    /\ promised = [c \in Clients |-> NoPromise]

Tracked == DOMAIN hits

\* Mutant of Clears: the table is allowed one client more.
ClearsLate(c) == c \notin Tracked /\ Cardinality(Tracked) > MaxTracked

\* A new client that finds the table full empties it.
Clears(c) == c \notin Tracked /\ Cardinality(Tracked) >= MaxTracked

\* Mutant of Kept: whoever arrives at a full table, old or new, empties it.
KeptByNewcomers(c, of, empty) ==
    IF Cardinality(Tracked) >= MaxTracked THEN [k \in DOMAIN of |-> empty] ELSE of

\* What is remembered about the clients when c has been looked up.
Kept(c, of, empty) == IF Clears(c) THEN [k \in DOMAIN of |-> empty] ELSE of

Bucket(c) == IF c \in Tracked THEN hits[c] ELSE <<>>

\* Mutant of Expires: a stamp is dropped one tick early.
ExpiresEarly(b, n) ==
    /\ \A i \in 1..n : b[i] <= now + 1 - Window
    /\ n < Len(b) => b[n + 1] > now + 1 - Window

\* The first n stamps of the bucket have left the window, and no more.
Expires(b, n) ==
    /\ \A i \in 1..n : b[i] <= now - Window
    /\ n < Len(b) => b[n + 1] > now - Window

\* Mutant of RetryAfter: rounded down.
RetryAfterDown(b) ==
    LET seconds == (b[1] + Window - now) \div TicksPerSecond
    IN  IF seconds > 1 THEN seconds ELSE 1

\* In whole seconds, for the Retry-After header.
RetryAfter(b) ==
    LET seconds == (b[1] + Window - now) \div TicksPerSecond + 1
    IN  IF seconds > 1 THEN seconds ELSE 1

Store(c, b) ==
    hits' = [k \in (IF Clears(c) THEN {c} ELSE Tracked \cup {c}) |->
                IF k = c THEN b ELSE hits[k]]

Answer(c, v) == verdict' = [verdict EXCEPT ![c] = v]

\* Mutant of Allow: the admission is not recorded.
AllowUnrecorded(c, b) ==
    /\ Len(b) < limit
    /\ Store(c, b)
    /\ Answer(c, "admitted")
    /\ log' = [Kept(c, log, <<>>) EXCEPT ![c] = Append(@, now)]
    /\ promised' = [Kept(c, promised, NoPromise) EXCEPT ![c] = NoPromise]

Allow(c, b) ==
    /\ Len(b) < limit
    /\ Store(c, Append(b, now))
    /\ Answer(c, "admitted")
    /\ log' = [Kept(c, log, <<>>) EXCEPT ![c] = Append(@, now)]
    /\ promised' = [Kept(c, promised, NoPromise) EXCEPT ![c] = NoPromise]

\* The client is told when to come back; the first promise stands.
Reject(c, b) ==
    /\ Len(b) >= limit /\ Len(b) > 0
    /\ Store(c, b)
    /\ Answer(c, "rejected")
    /\ log' = Kept(c, log, <<>>)
    /\ promised' = [Kept(c, promised, NoPromise) EXCEPT
                       ![c] = IF @ = NoPromise THEN now + RetryAfter(b) * TicksPerSecond ELSE @]

\* A limit of 0 finds an empty bucket full and bucket[0] raises IndexError.
Raise(c, b) ==
    /\ Len(b) >= limit /\ Len(b) = 0
    /\ Store(c, b)
    /\ Answer(c, "raised")
    /\ log' = Kept(c, log, <<>>)
    /\ promised' = Kept(c, promised, NoPromise)

Check(c) ==
    /\ \E n \in 0..Len(Bucket(c)) :
          /\ Expires(Bucket(c), n)
          /\ LET b == SubSeq(Bucket(c), n + 1, Len(Bucket(c)))
             IN  Allow(c, b) \/ Reject(c, b) \/ Raise(c, b)
    /\ UNCHANGED <<now, limit>>

Tick ==
    /\ now < MaxTime
    /\ now' = now + 1
    /\ UNCHANGED <<limit, hits, verdict, log, promised>>

LimiterNext == Tick \/ \E c \in Clients : Check(c)

LimiterSpec == LimiterInit /\ [][LimiterNext]_limiterVars

-----------------------------------------------------------------------------
(* Properties *)

LimiterTypeOK ==
    /\ now \in Nat
    /\ limit \in Limits
    /\ Tracked \subseteq Clients
    /\ hits \in [Tracked -> Seq(Nat)]
    /\ verdict \in [Clients -> {"none", "admitted", "rejected", "raised"}]
    /\ log \in [Clients -> Seq(Nat)]
    /\ promised \in [Clients -> Nat \cup {NoPromise}]

\* No window holds more than limit admissions of a client (ratelimit.py:3-5): between
\* two table clears, any limit + 1 consecutive ones span at least a whole window,
\* although the deque forgets stamps as it goes and a check only sees its length.
NoBurstBeyondLimit ==
    \A c \in Clients : \A i \in DOMAIN log[c] :
        i + limit \in DOMAIN log[c] => log[c][i + limit] - log[c][i] >= Window

\* "Bound memory under key/IP churn" (ratelimit.py:23): the table never holds more
\* than MaxTracked clients, and no client more stamps than the limit.
MemoryIsBounded ==
    /\ Cardinality(Tracked) <= MaxTracked
    /\ \A c \in Tracked : Len(hits[c]) <= limit

HasRoom(c) ==
    \E n \in 0..Len(Bucket(c)) :
        /\ \A i \in 1..n : Bucket(c)[i] <= now - Window
        /\ Len(Bucket(c)) - n < limit

\* Retry-After is enough (docs/security.md:36-37): a client that was turned away, and
\* comes back no sooner than it was told to, finds room, however the seconds were
\* rounded and however often it has tried again in between.
RetryAfterIsEnough ==
    \A c \in Clients : promised[c] # NoPromise /\ now >= promised[c] => HasRoom(c)

Abstract == INSTANCE SlidingWindow

\* The limiter does what a sliding window promises: its pruned deques decide as the
\* whole history would, and only a newcomer at a full table makes it forget.
ImplementsSlidingWindow == Abstract!Spec

=============================================================================
