------------------------ MODULE ResponseCache_proofs ------------------------
(***************************************************************************)
(* Proofs about ResponseCache, for every finite set of keys, every         *)
(* capacity and every TTL, and its refinement of AnswerCache.              *)
(***************************************************************************)
EXTENDS ResponseCache, FiniteSetTheorems, TLAPS

\* What is stored under a key is the last answer put there, and expires a TTL later.
EntryOK(k) ==
    entry[k] # NoEntry => /\ entry[k].result = last[k].answer
                          /\ entry[k].expiresAt = last[k].at + TTL

\* The dict without the keys of S.
Left(S) == [j \in Keys |-> IF j \in S THEN NoEntry ELSE entry[j]]

\* The inductive invariant.
IInv ==
    /\ TypeOK
    /\ WithinCapacity
    /\ AnswersAreFresh
    /\ \A k \in Keys : EntryOK(k)

-----------------------------------------------------------------------------
(* Entries and their number *)

\* An entry is not the absence of one.
LEMMA EntryIsStored == NoEntry \notin Entries
BY CacheAssumption DEF NoEntry, Entries

\* The number of entries is a number.
LEMMA StoredIsFinite == IsFiniteSet(Stored) /\ Cardinality(Stored) \in Nat
<1>1. IsFiniteSet(Stored)
  BY CacheAssumption, FS_Subset DEF Stored
<1> QED BY <1>1, FS_CardinalityType

\* What an assignment under k does to the dict left by an eviction, if any.
LEMMA InsertStores ==
    ASSUME TypeOK, NEW k \in Keys, NEW answer \in Answers, NEW S \in SUBSET Keys,
           Insert(k, answer, Left(S))
    PROVE  /\ entry' \in [Keys -> Entries \cup {NoEntry}]
           /\ entry'[k] = [result |-> answer, expiresAt |-> now + TTL]
           /\ entry'[k] # NoEntry
           /\ \A j \in Keys : j # k => entry'[j] = IF j \in S THEN NoEntry ELSE entry[j]
           /\ Stored' = (Stored \ S) \cup {k}
<1>1. [result |-> answer, expiresAt |-> now + TTL] \in Entries
  BY CacheAssumption DEF TypeOK, Entries
<1>2. /\ entry' \in [Keys -> Entries \cup {NoEntry}]
      /\ entry'[k] = [result |-> answer, expiresAt |-> now + TTL]
      /\ \A j \in Keys : j # k => entry'[j] = IF j \in S THEN NoEntry ELSE entry[j]
  BY <1>1 DEF TypeOK, Insert, Left
<1>3. entry'[k] # NoEntry
  BY <1>1, <1>2, EntryIsStored
<1> QED BY <1>2, <1>3 DEF Stored

\* A put is the assignment, after the eviction of the first key of a full dict.
LEMMA PutInserts ==
    ASSUME TypeOK, NEW k \in Keys, NEW answer \in Answers,
           Put(k, answer) \/ PutEvicting(k, answer)
    PROVE  \E S \in SUBSET Keys :
              /\ Insert(k, answer, Left(S))
              /\ \/ S = {} /\ Cardinality(Stored) < MaxEntries
                 \/ /\ Cardinality(Stored) >= MaxEntries
                    /\ \E first \in Stored : IsFirst(first) /\ S = {first}
<1>1. CASE Put(k, answer)
  <2>1. entry = Left({})
    BY DEF TypeOK, Left
  <2> QED BY <1>1, <2>1 DEF Put
<1>2. CASE PutEvicting(k, answer)
  <2>1. PICK first \in Stored :
           IsFirst(first) /\ Insert(k, answer, [entry EXCEPT ![first] = NoEntry])
    BY <1>2 DEF PutEvicting
  <2>2. [entry EXCEPT ![first] = NoEntry] = Left({first})
    BY DEF TypeOK, Left
  <2>3. {first} \in SUBSET Keys
    BY DEF Stored
  <2>4. Insert(k, answer, Left({first}))
    BY <2>1, <2>2
  <2> QED BY <1>2, <2>1, <2>3, <2>4 DEF PutEvicting
<1> QED BY <1>1, <1>2

-----------------------------------------------------------------------------
(* The invariant *)

\* The cache starts empty.
LEMMA InitIInv == Init => IInv
<1> SUFFICES ASSUME Init PROVE IInv
  OBVIOUS
<1>1. Stored = {}
  BY DEF Init, Stored
<1>2. WithinCapacity
  BY <1>1, FS_EmptySet, CacheAssumption DEF WithinCapacity
<1> QED BY <1>2 DEF Init, IInv, TypeOK, AnswersAreFresh, EntryOK

\* Every step keeps the invariant.
LEMMA NextIInv == IInv /\ [Next]_vars => IInv'
<1> SUFFICES ASSUME IInv, [Next]_vars PROVE IInv'
  OBVIOUS
<1>0. TypeOK /\ WithinCapacity /\ AnswersAreFresh /\ \A k \in Keys : EntryOK(k)
  BY DEF IInv
<1>1. CASE Tick
  <2>1. Stored' = Stored
    BY <1>1 DEF Tick, Stored
  <2> QED BY <1>0, <1>1, <2>1
       DEF IInv, Tick, TypeOK, WithinCapacity, AnswersAreFresh, EntryOK
<1>2. ASSUME NEW k \in Keys, Hit(k) PROVE IInv'
  <2>1. /\ entry[k] \in Entries /\ entry[k].result \in Answers
        /\ entry[k].expiresAt = last[k].at + TTL /\ now < entry[k].expiresAt
    BY <1>0, <1>2 DEF Hit, Stored, TypeOK, Entries, EntryOK, Expired
  <2>2. /\ got' = <<k, entry[k].result, now - last[k].at>>
        /\ now - last[k].at \in Int /\ now - last[k].at < TTL
    BY <1>0, <1>2, <2>1, CacheAssumption DEF Hit, Gives, TypeOK
  <2>3. Stored' = Stored
    BY <1>2 DEF Hit, Stored
  <2>4. TypeOK'
    BY <1>0, <1>2, <2>1, <2>2 DEF Hit, Gives, TypeOK
  <2> QED BY <1>0, <1>2, <2>2, <2>3, <2>4
       DEF IInv, Hit, Gives, WithinCapacity, AnswersAreFresh, EntryOK
<1>3. ASSUME NEW k \in Keys, Miss(k) PROVE IInv'
  <2>1. got' = <<k, Nothing, now - last[k].at>> /\ now - last[k].at \in Int
    BY <1>0, <1>3 DEF Miss, Gives, TypeOK
  <2>2. Stored' = Stored
    BY <1>3 DEF Miss, Stored
  <2>3. TypeOK'
    BY <1>0, <1>3, <2>1 DEF Miss, Gives, TypeOK
  <2> QED BY <1>0, <1>3, <2>1, <2>2, <2>3
       DEF IInv, Miss, Gives, WithinCapacity, AnswersAreFresh, EntryOK
<1>4. ASSUME NEW k \in Keys, MissExpired(k) PROVE IInv'
  <2>1. got' = <<k, Nothing, now - last[k].at>> /\ now - last[k].at \in Int
    BY <1>0, <1>4 DEF MissExpired, Gives, TypeOK
  <2>2. Stored' \subseteq Stored
    BY <1>0, <1>4 DEF MissExpired, Stored, TypeOK
  <2>3. WithinCapacity'
    <3>1. Cardinality(Stored') <= Cardinality(Stored)
      BY <2>2, StoredIsFinite, FS_Subset
    <3>2. Cardinality(Stored') \in Nat
      BY <2>2, StoredIsFinite, FS_Subset, FS_CardinalityType
    <3> QED BY <1>0, <3>1, <3>2, StoredIsFinite, CacheAssumption DEF WithinCapacity
  <2>4. TypeOK'
    BY <1>0, <1>4, <2>1 DEF MissExpired, Gives, TypeOK
  <2>5. \A j \in Keys : EntryOK(j)'
    BY <1>0, <1>4 DEF MissExpired, Gives, TypeOK, EntryOK
  <2> QED BY <2>1, <2>3, <2>4, <2>5 DEF IInv, AnswersAreFresh
<1>5. ASSUME NEW k \in Keys, NEW answer \in Answers, Put(k, answer) \/ PutEvicting(k, answer)
      PROVE  IInv'
  <2>1. PICK S \in SUBSET Keys :
              /\ Insert(k, answer, Left(S))
              /\ \/ S = {} /\ Cardinality(Stored) < MaxEntries
                 \/ /\ Cardinality(Stored) >= MaxEntries
                    /\ \E first \in Stored : IsFirst(first) /\ S = {first}
    BY <1>0, <1>5, PutInserts
  <2>2. /\ entry' \in [Keys -> Entries \cup {NoEntry}]
        /\ entry'[k] = [result |-> answer, expiresAt |-> now + TTL]
        /\ \A j \in Keys : j # k => entry'[j] = IF j \in S THEN NoEntry ELSE entry[j]
        /\ Stored' = (Stored \ S) \cup {k}
    BY <1>0, <2>1, InsertStores
  <2>3. Cardinality(Stored \ S) < MaxEntries /\ IsFiniteSet(Stored \ S)
    <3>1. CASE S = {} /\ Cardinality(Stored) < MaxEntries
      <4>1. Stored \ S = Stored
        BY <3>1
      <4> QED BY <3>1, <4>1, StoredIsFinite
    <3>2. ASSUME NEW first \in Stored, S = {first}
          PROVE  Cardinality(Stored \ S) < MaxEntries /\ IsFiniteSet(Stored \ S)
      <4>1. Cardinality(Stored \ {first}) = Cardinality(Stored) - 1 /\ IsFiniteSet(Stored \ {first})
        BY StoredIsFinite, FS_RemoveElement
      <4> QED BY <1>0, <3>2, <4>1, StoredIsFinite, CacheAssumption DEF WithinCapacity
    <3> QED BY <2>1, <3>1, <3>2
  <2>4. WithinCapacity'
    <3>1. /\ Cardinality((Stored \ S) \cup {k}) = Cardinality(Stored \ S)
          \/ Cardinality((Stored \ S) \cup {k}) = Cardinality(Stored \ S) + 1
      BY <2>3, FS_AddElement
    <3>2. Cardinality(Stored \ S) \in Nat
      BY <2>3, FS_CardinalityType
    <3>3. Cardinality((Stored \ S) \cup {k}) <= MaxEntries
      BY <2>3, <3>1, <3>2, CacheAssumption
    <3>4. Cardinality(Stored') <= MaxEntries
      BY <2>2, <3>3
    <3> QED BY <3>4 DEF WithinCapacity
  <2>5. /\ puts' \in Nat /\ now' = now /\ got' = got
        /\ place' \in [Keys -> Nat]
        /\ last' = [last EXCEPT ![k] = [answer |-> answer, at |-> now]]
    BY <1>0, <2>1 DEF Insert, TypeOK
  <2>6. TypeOK'
    BY <1>0, <2>2, <2>5 DEF TypeOK
  <2>7. \A j \in Keys : EntryOK(j)'
    <3> TAKE j \in Keys
    <3>1. CASE j = k
      BY <1>0, <2>2, <2>5, <3>1 DEF EntryOK, TypeOK
    <3>2. CASE j # k
      BY <1>0, <2>2, <2>5, <3>2 DEF EntryOK, TypeOK
    <3> QED BY <3>1, <3>2
  <2> QED BY <1>0, <2>4, <2>5, <2>6, <2>7 DEF IInv, AnswersAreFresh
<1>6. CASE UNCHANGED vars
  <2>1. Stored' = Stored
    BY <1>6 DEF vars, Stored
  <2> QED BY <1>0, <1>6, <2>1
       DEF IInv, vars, TypeOK, WithinCapacity, AnswersAreFresh, EntryOK
<1> QED BY <1>1, <1>2, <1>3, <1>4, <1>5, <1>6 DEF Next

\* The inductive invariant is an invariant of every instance.
LEMMA Invariance == Spec => []IInv
<1>1. Init => IInv
  BY InitIInv
<1>2. IInv /\ [Next]_vars => IInv'
  BY NextIInv
<1> QED BY <1>1, <1>2, PTL DEF Spec

-----------------------------------------------------------------------------
(* The theorems *)

\* Type correctness.
THEOREM TypeCorrect == Spec => []TypeOK
<1>1. IInv => TypeOK
  BY DEF IInv
<1> QED BY <1>1, Invariance, PTL

\* The dict never holds more than _MAX_ENTRIES answers (cache.py:55-60).
THEOREM CapacityIsKept == Spec => []WithinCapacity
<1>1. IInv => WithinCapacity
  BY DEF IInv
<1> QED BY <1>1, Invariance, PTL

\* No answer is given that is as old as the TTL or older (cache.py:47, 58-60).
THEOREM GivenAnswersAreFresh == Spec => []AnswersAreFresh
<1>1. IInv => AnswersAreFresh
  BY DEF IInv
<1> QED BY <1>1, Invariance, PTL

\* An answer that could still be given goes only when a put finds the dict full, and
\* then it is the one inserted first (cache.py:55-57).
THEOREM OnlyTheFirstIsEvicted == Spec => LostOnlyToEviction
<1>1. ASSUME IInv, [Next]_vars, NEW j \in Stored, ~Expired(j), entry'[j] = NoEntry
      PROVE  Cardinality(Stored) >= MaxEntries /\ IsFirst(j)
  <2>0. TypeOK /\ j \in Keys /\ entry[j] # NoEntry
    BY <1>1 DEF IInv, Stored
  <2>1. ASSUME NEW k \in Keys, NEW answer \in Answers, Put(k, answer) \/ PutEvicting(k, answer)
        PROVE  Cardinality(Stored) >= MaxEntries /\ IsFirst(j)
    <3>1. PICK S \in SUBSET Keys :
              /\ Insert(k, answer, Left(S))
              /\ \/ S = {} /\ Cardinality(Stored) < MaxEntries
                 \/ /\ Cardinality(Stored) >= MaxEntries
                    /\ \E first \in Stored : IsFirst(first) /\ S = {first}
      BY <2>0, <2>1, PutInserts
    <3>2. /\ entry'[k] # NoEntry
          /\ \A i \in Keys : i # k => entry'[i] = IF i \in S THEN NoEntry ELSE entry[i]
      BY <2>0, <3>1, InsertStores
    <3>3. j \in S
      BY <1>1, <2>0, <3>2
    <3> QED BY <3>1, <3>3
  <2>2. ASSUME NEW k \in Keys, MissExpired(k)
        PROVE  FALSE
    BY <1>1, <2>0, <2>2 DEF MissExpired, TypeOK
  <2> QED BY <1>1, <2>0, <2>1, <2>2 DEF Next, vars, Tick, Hit, Miss
<1> DEFINE Step == \A k \in Stored : ~Expired(k) /\ entry'[k] = NoEntry
                                        => Cardinality(Stored) >= MaxEntries /\ IsFirst(k)
<1>2. IInv /\ [Next]_vars => [Step]_vars
  BY <1>1
<1> HIDE DEF Step
<1>3. Spec => [][Step]_vars
  BY <1>2, Invariance, PTL DEF Spec
<1> QED BY <1>3 DEF LostOnlyToEviction, Step

-----------------------------------------------------------------------------
(* The dict with expiry times implements the cache that may forget. *)

\* The answer a key would give now, the last one put, and the last lookup.
held == [k \in Keys |-> IF k \in Stored /\ ~Expired(k) THEN entry[k].result ELSE Nothing]
latest == [k \in Keys |-> last[k].answer]
lookup == IF got = <<>> THEN <<>> ELSE <<got[1], got[2]>>

\* Every step of the dict is a step of the abstract cache, or leaves it as it is.
LEMMA StepImplements == IInv /\ [Next]_vars => [Cache!CacheNext]_(Cache!cacheVars)
<1> SUFFICES ASSUME IInv, [Next]_vars
             PROVE  Cache!CacheNext \/ (held' = held /\ latest' = latest /\ lookup' = lookup)
  BY DEF Cache!cacheVars, held, latest, lookup
<1>0. TypeOK /\ \A k \in Keys : EntryOK(k)
  BY DEF IInv
<1>1. CASE Tick
  <2> DEFINE forgotten == {k \in Keys : held'[k] # held[k]}
  <2>1. held' = [k \in Keys |-> IF k \in forgotten THEN Nothing ELSE held[k]]
    <3>1. \A k \in Keys : k \in Stored' <=> k \in Stored
      BY <1>1 DEF Tick, Stored
    <3>2. \A k \in Keys : held'[k] = held[k] \/ held'[k] = Nothing
      BY <1>0, <1>1, <3>1 DEF held, Tick, Expired, TypeOK, Stored, Entries
    <3> QED BY <3>2 DEF held
  <2>2. latest' = latest /\ lookup' = lookup
    BY <1>1 DEF Tick, latest, lookup
  <2>3. PICK gone \in SUBSET Keys : gone = forgotten
    OBVIOUS
  <2>4. Cache!Forget(gone)
    BY <2>1, <2>2, <2>3 DEF Cache!Forget, Cache!Without, held, latest, lookup
  <2> QED BY <2>4 DEF Cache!CacheNext
<1>2. ASSUME NEW k \in Keys, Hit(k) \/ Miss(k) \/ MissExpired(k)
      PROVE  Cache!CacheNext
  <2>1. got' = <<k, held[k], now - last[k].at>>
    BY <1>2 DEF Hit, Miss, MissExpired, Gives, held
  <2>2. lookup' = <<k, held[k]>>
    BY <2>1 DEF lookup
  <2>3. held' = held
    <3>1. CASE Hit(k) \/ Miss(k)
      BY <3>1 DEF Hit, Miss, Gives, held, Stored, Expired
    <3>2. CASE MissExpired(k)
      <4>1. \A j \in Keys : entry'[j] = IF j = k THEN NoEntry ELSE entry[j]
        BY <1>0, <3>2 DEF MissExpired, TypeOK
      <4>2. now' = now /\ Expired(k)
        BY <3>2 DEF MissExpired, Gives
      <4> QED BY <4>1, <4>2 DEF held, Stored, Expired
    <3> QED BY <1>2, <3>1, <3>2
  <2>4. latest' = latest
    BY <1>2 DEF Hit, Miss, MissExpired, Gives, latest
  <2>5. Cache!Lookup(k)
    BY <2>2, <2>3, <2>4 DEF Cache!Lookup, held, latest, lookup
  <2> QED BY <2>5 DEF Cache!CacheNext
<1>3. ASSUME NEW k \in Keys, NEW answer \in Answers, Put(k, answer) \/ PutEvicting(k, answer)
      PROVE  Cache!CacheNext
  <2>1. PICK S \in SUBSET Keys : Insert(k, answer, Left(S))
    BY <1>0, <1>3, PutInserts
  <2>2. /\ entry'[k] = [result |-> answer, expiresAt |-> now + TTL]
        /\ entry'[k] # NoEntry
        /\ \A j \in Keys : j # k => entry'[j] = IF j \in S THEN NoEntry ELSE entry[j]
    BY <1>0, <2>1, InsertStores
  <2>3. now' = now /\ got' = got /\ now \in Nat /\ TTL \in Int /\ TTL > 0
    BY <1>0, <1>3, <2>1, CacheAssumption DEF Insert, Put, PutEvicting, Enabled, TypeOK
  <2>4. held'[k] = answer
    BY <2>2, <2>3 DEF held, Stored, Expired
  <2>5. \A j \in Keys : j # k => held'[j] = IF j \in S THEN Nothing ELSE held[j]
    BY <2>2, <2>3 DEF held, Stored, Expired
  <2>6. held' = [[j \in Keys |-> IF j \in S THEN Nothing ELSE held[j]] EXCEPT ![k] = answer]
    BY <2>4, <2>5 DEF held
  <2>7. latest' = [latest EXCEPT ![k] = answer]
    BY <1>0, <2>1 DEF Insert, latest, TypeOK
  <2>8. lookup' = lookup
    BY <2>3 DEF lookup
  <2>9. Cache!Store(k, answer)
    BY <2>6, <2>7, <2>8 DEF Cache!Store, Cache!Without, held, latest, lookup
  <2> QED BY <2>9 DEF Cache!CacheNext
<1>4. CASE UNCHANGED vars
  BY <1>4 DEF vars, held, latest, lookup, Stored, Expired
<1> QED BY <1>1, <1>2, <1>3, <1>4 DEF Next

\* A lookup gives the last answer put under its key, or nothing (cache.py:41-60).
THEOREM ImplementsCache == Spec => ImplementsAnswerCache
<1>1. Init => Cache!CacheInit
  BY DEF Init, Cache!CacheInit, Stored
<1>2. IInv /\ [Next]_vars => [Cache!CacheNext]_(Cache!cacheVars)
  BY StepImplements
<1>3. Spec => Cache!CacheSpec
  BY <1>1, <1>2, Invariance, PTL DEF Spec, Cache!CacheSpec
<1> QED BY <1>3 DEF ImplementsAnswerCache

=============================================================================
