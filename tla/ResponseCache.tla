---------------------------- MODULE ResponseCache ----------------------------
(***************************************************************************)
(* The in-memory response cache of app/services/cache.py: a dict of at     *)
(* most MaxEntries answers with an expiry time each.  Nothing in it awaits,*)
(* so every operation is one step.  The order a dict iterates in is that   *)
(* of insertion: assigning to a key that is there leaves it at its place.  *)
(***************************************************************************)
EXTENDS Integers, FiniteSets

CONSTANTS
    Keys, Answers, Nothing,
    MaxEntries,     \* _MAX_ENTRIES
    TTL,            \* llm_cache_ttl_seconds, in clock ticks
    MaxTime,        \* bound on the clock, for model checking only
    MaxPuts         \* bound on the number of puts, for model checking only

ASSUME CacheAssumption ==
    /\ IsFiniteSet(Keys)
    /\ Nothing \notin Answers
    /\ MaxEntries \in Nat \ {0}
    /\ TTL \in Int
    /\ MaxTime \in Nat
    /\ MaxPuts \in Nat

VARIABLES
    now,        \* time.monotonic()
    entry,      \* self._entries: the answer and expiry time under each key
    place,      \* where each key stands in the dict's order
    puts,       \* how many puts there have been
    last,       \* history: the last answer put under each key, and when
    got         \* history: the last get, what it gave and how old that was

vars == <<now, entry, place, puts, last, got>>

NoEntry == [result |-> Nothing, expiresAt |-> 0]
Entries == [result : Answers, expiresAt : Int]

Enabled == TTL > 0
Stored == {k \in Keys : entry[k] # NoEntry}
\* Mutant of Expired: > for >=.
ExpiredLate(k) == now > entry[k].expiresAt

Expired(k) == now >= entry[k].expiresAt

Init ==
    /\ now = 0
    /\ entry = [k \in Keys |-> NoEntry]
    /\ place = [k \in Keys |-> 0]
    /\ puts = 0
    /\ last = [k \in Keys |-> [answer |-> Nothing, at |-> 0]]
    /\ got = <<>>

Gives(k, answer) ==
    /\ got' = <<k, answer, now - last[k].at>>
    /\ UNCHANGED <<now, place, puts, last>>

Hit(k) ==
    /\ k \in Stored /\ ~Expired(k)
    /\ Gives(k, entry[k].result)
    /\ UNCHANGED entry

Miss(k) ==
    /\ k \notin Stored
    /\ Gives(k, Nothing)
    /\ UNCHANGED entry

\* An expired entry is dropped by the get that finds it.
MissExpired(k) ==
    /\ k \in Stored /\ Expired(k)
    /\ Gives(k, Nothing)
    /\ entry' = [entry EXCEPT ![k] = NoEntry]

\* The key next(iter(self._entries)) gives.
IsFirst(k) == k \in Stored /\ \A j \in Stored : place[k] <= place[j]

\* Mutant of Insert: setdefault for an assignment, an old answer is never replaced.
InsertKeeping(k, answer, left) ==
    /\ puts < MaxPuts
    /\ entry' = [left EXCEPT ![k] = [result |-> IF left[k] = NoEntry THEN answer ELSE @.result,
                                     expiresAt |-> now + TTL]]
    /\ place' = [place EXCEPT ![k] = IF left[k] = NoEntry THEN puts ELSE @]
    /\ puts' = puts + 1
    /\ last' = [last EXCEPT ![k] = [answer |-> answer, at |-> now]]
    /\ UNCHANGED <<now, got>>

Insert(k, answer, left) ==
    /\ puts < MaxPuts
    /\ entry' = [left EXCEPT ![k] = [result |-> answer, expiresAt |-> now + TTL]]
    /\ place' = [place EXCEPT ![k] = IF left[k] = NoEntry THEN puts ELSE @]
    /\ puts' = puts + 1
    /\ last' = [last EXCEPT ![k] = [answer |-> answer, at |-> now]]
    /\ UNCHANGED <<now, got>>

\* Mutant of Put: > for >= in the test that the dict is full.
PutOneTooMany(k, answer) ==
    /\ Enabled
    /\ Cardinality(Stored) <= MaxEntries
    /\ Insert(k, answer, entry)

Put(k, answer) ==
    /\ Enabled
    /\ Cardinality(Stored) < MaxEntries
    /\ Insert(k, answer, entry)

\* Mutant of PutEvicting: popitem(), which drops the last key.
PutEvictingLast(k, answer) ==
    /\ Enabled
    /\ Cardinality(Stored) >= MaxEntries
    /\ \E final \in Stored :
          /\ \A j \in Stored : place[j] <= place[final]
          /\ Insert(k, answer, [entry EXCEPT ![final] = NoEntry])

\* A full dict drops its first key, even to renew one it already holds.
PutEvicting(k, answer) ==
    /\ Enabled
    /\ Cardinality(Stored) >= MaxEntries
    /\ \E first \in Stored :
          /\ IsFirst(first)
          /\ Insert(k, answer, [entry EXCEPT ![first] = NoEntry])

Tick ==
    /\ now < MaxTime
    /\ now' = now + 1
    /\ UNCHANGED <<entry, place, puts, last, got>>

Next ==
    \/ Tick
    \/ \E k \in Keys : Hit(k) \/ Miss(k) \/ MissExpired(k)
    \/ \E k \in Keys, answer \in Answers : Put(k, answer) \/ PutEvicting(k, answer)

Spec == Init /\ [][Next]_vars

-----------------------------------------------------------------------------
(* Properties *)

TypeOK ==
    /\ now \in Nat
    /\ entry \in [Keys -> Entries \cup {NoEntry}]
    /\ place \in [Keys -> Nat]
    /\ puts \in Nat
    /\ last \in [Keys -> [answer : Answers \cup {Nothing}, at : Nat]]
    /\ got = <<>> \/ got \in Keys \X (Answers \cup {Nothing}) \X Int

\* The dict never holds more than _MAX_ENTRIES answers, whatever is put, renewed
\* or expires: the eviction makes room before the assignment, never after.
WithinCapacity == Cardinality(Stored) <= MaxEntries

\* The TTL is the oldest an answer can be when it is given (docs/architecture/
\* 05_evolucoes.md, "idade maxima aceitavel"): renewing a key makes it new again.
AnswersAreFresh == got # <<>> /\ got[2] # Nothing => got[3] < TTL

\* No answer that could still be given is lost unless the dict is full, and then
\* only the one that was inserted first: renewing or reading a key costs no other.
LostOnlyToEviction ==
    [][\A k \in Stored :
         ~Expired(k) /\ entry'[k] = NoEntry
            => Cardinality(Stored) >= MaxEntries /\ IsFirst(k)]_vars

\* The promise to the handler: a lookup gives the last answer put, or nothing.
Cache == INSTANCE AnswerCache
    WITH held <- [k \in Keys |-> IF k \in Stored /\ ~Expired(k) THEN entry[k].result
                                                               ELSE Nothing],
         latest <- [k \in Keys |-> last[k].answer],
         got <- IF got = <<>> THEN <<>> ELSE <<got[1], got[2]>>

ImplementsAnswerCache == Cache!CacheSpec

=============================================================================
