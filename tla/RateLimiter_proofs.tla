------------------------- MODULE RateLimiter_proofs -------------------------
(***************************************************************************)
(* Proofs about RateLimiter, for any set of clients, window, limits, table *)
(* size and number of ticks to the second.                                 *)
(***************************************************************************)
EXTENDS RateLimiter, FiniteSetTheorems, SequenceTheorems, TLAPS

\* The sequence b is the end of l, and what l had before it is not above x.
EndOf(b, l, x) ==
    /\ b \in Seq(Nat)
    /\ Len(b) <= Len(l)
    /\ \A i \in 1..Len(b) : b[i] = l[Len(l) - Len(b) + i]
    /\ \A i \in 1..(Len(l) - Len(b)) : l[i] <= x

\* No more than n entries of l within less than w of each other.
Spaced(l, n, w) ==
    \A i \in DOMAIN l : i + n \in DOMAIN l => l[i + n] - l[i] >= w

Sorted(l, t) ==
    /\ \A i \in 1..Len(l) : l[i] <= t
    /\ \A i, j \in 1..Len(l) : i <= j => l[i] <= l[j]

\* A deque is the end of the history, and what it has lost is out of the window.
DequeOK(c) == Len(hits[c]) <= limit /\ EndOf(hits[c], log[c], now - Window)

HistoryOK(c) == Spaced(log[c], limit, Window) /\ Sorted(log[c], now)

\* Nothing is remembered of a client the table does not hold, and something of one it
\* does, unless nobody is ever admitted.
StrangerOK(c) ==
    /\ c \notin Tracked => log[c] = <<>> /\ promised[c] = NoPromise
    /\ c \in Tracked /\ limit > 0 => log[c] # <<>>

\* A client that was promised room still has the full deque the promise was made on.
PromiseOK(c) ==
    promised[c] # NoPromise =>
        /\ c \in Tracked
        /\ Len(hits[c]) >= limit /\ Len(hits[c]) > 0
        /\ promised[c] >= hits[c][1] + Window

TableOK == IsFiniteSet(Tracked) /\ Cardinality(Tracked) <= MaxTracked

\* The inductive invariant.
IInv ==
    /\ LimiterTypeOK
    /\ TableOK
    /\ \A c \in Tracked : DequeOK(c)
    /\ \A c \in Clients : HistoryOK(c) /\ StrangerOK(c) /\ PromiseOK(c)

-----------------------------------------------------------------------------
(* Arithmetic and the pruned deque *)

\* Rounding down and adding one never rounds to less.
LEMMA RoundedUp ==
    ASSUME NEW x \in Int, NEW t \in Nat \ {0}
    PROVE  (x \div t + 1) * t >= x
BY SMTT(30)

\* Retry-After is a number of seconds that is long enough.
LEMMA RetryAfterReaches ==
    ASSUME LimiterAssumption, LimiterTypeOK, NEW b \in Seq(Nat), Len(b) > 0
    PROVE  /\ RetryAfter(b) \in Nat
           /\ RetryAfter(b) * TicksPerSecond >= b[1] + Window - now
<1> DEFINE x == b[1] + Window - now
           s == x \div TicksPerSecond + 1
<1>1. x \in Int /\ TicksPerSecond \in Nat \ {0}
  BY DEF LimiterAssumption, LimiterTypeOK
<1> HIDE DEF x
<1>2. s \in Int /\ s * TicksPerSecond >= x
  BY <1>1, RoundedUp
<1>3. s > 1 \/ s * TicksPerSecond <= 1 * TicksPerSecond
  BY <1>1, <1>2
<1>4. RetryAfter(b) = IF s > 1 THEN s ELSE 1
  BY DEF RetryAfter, x
<1>5. RetryAfter(b) \in Nat /\ RetryAfter(b) * TicksPerSecond >= x
  BY <1>1, <1>2, <1>3, <1>4
<1> QED BY <1>5 DEF x

\* The end of a history is still one without n more entries that are not above x.
LEMMA EndOfEnd ==
    ASSUME NEW l \in Seq(Nat), NEW h, NEW x \in Int, EndOf(h, l, x),
           NEW n \in 0..Len(h), \A i \in 1..n : h[i] <= x
    PROVE  LET b == SubSeq(h, n + 1, Len(h))
           IN  /\ EndOf(b, l, x)
               /\ Len(b) = Len(h) - n
               /\ \A i \in 1..Len(b) : b[i] = h[n + i]
<1> DEFINE b == SubSeq(h, n + 1, Len(h))
<1>a. /\ h \in Seq(Nat)
      /\ Len(h) <= Len(l)
      /\ \A i \in 1..Len(h) : h[i] = l[Len(l) - Len(h) + i]
      /\ \A i \in 1..(Len(l) - Len(h)) : l[i] <= x
  BY DEF EndOf
<1>0. /\ Len(l) \in Nat /\ Len(h) \in Nat /\ n \in Nat /\ n <= Len(h)
      /\ \A i \in 1..Len(h) : h[i] \in Nat
  BY <1>a, SMTT(60)
<1>1. /\ b \in Seq(Nat)
      /\ Len(b) = Len(h) - n
      /\ \A i \in 1..Len(b) : b[i] = h[n + i]
  <2>1. n + 1 \in Int /\ Len(h) \in Int /\ \A i \in (n + 1)..Len(h) : h[i] \in Nat
    BY <1>0
  <2>2. /\ b \in Seq(Nat)
        /\ Len(b) = IF n + 1 <= Len(h) THEN Len(h) - (n + 1) + 1 ELSE 0
        /\ \A i \in 1..(Len(h) - (n + 1) + 1) : b[i] = h[(n + 1) + i - 1]
    BY <2>1, SubSeqProperties
  <2> HIDE DEF b
  <2>3. Len(b) = Len(h) - n
    BY <1>0, <2>2
  <2>4. ASSUME NEW i \in 1..Len(b)
        PROVE  b[i] = h[n + i]
    <3>1. i \in 1..(Len(h) - (n + 1) + 1) /\ (n + 1) + i - 1 = n + i
      BY <1>0, <2>3
    <3> QED BY <2>2, <3>1
  <2> QED BY <2>2, <2>3, <2>4
<1> HIDE DEF b
<1> DEFINE p == Len(l)
           q == Len(h)
           r == Len(b)
<1>5. p \in Nat /\ q \in Nat /\ r \in Nat /\ n \in Nat /\ q <= p /\ n <= q /\ r = q - n
  BY <1>0, <1>1, <1>a
<1> HIDE DEF p, q, r
<1>2. ASSUME NEW i \in 1..r
      PROVE  b[i] = l[p - r + i]
  <2>1. n + i \in 1..q /\ p - q + (n + i) = p - r + i
    BY <1>5
  <2>2. h[n + i] = l[p - q + (n + i)]
    BY <1>a, <2>1 DEF p, q
  <2>3. b[i] = h[n + i]
    BY <1>1 DEF r
  <2> QED BY <2>1, <2>2, <2>3
<1>3. ASSUME NEW i \in 1..(p - r)
      PROVE  l[i] <= x
  <2>1. CASE i <= p - q
    <3>1. i \in 1..(p - q)
      BY <1>5, <2>1
    <3> QED BY <1>a, <3>1 DEF p, q
  <2>2. CASE i > p - q
    <3>1. PICK j \in 1..n : p - q + j = i
      <4>1. i - (p - q) \in 1..n /\ p - q + (i - (p - q)) = i
        BY <1>5, <2>2
      <4> QED BY <4>1
    <3>2. j \in 1..q
      BY <1>5
    <3>3. h[j] <= x /\ h[j] = l[p - q + j]
      BY <1>a, <3>2 DEF p, q
    <3> QED BY <3>1, <3>3
  <2> QED BY <1>5, <2>1, <2>2
<1>4. r <= p
  BY <1>5
<1> QED BY <1>1, <1>2, <1>3, <1>4 DEF p, r, b, EndOf

\* Appending keeps the end of a history the end of the history.
LEMMA EndOfAppend ==
    ASSUME NEW l \in Seq(Nat), NEW b, NEW x \in Int, EndOf(b, l, x), NEW t \in Nat
    PROVE  EndOf(Append(b, t), Append(l, t), x) /\ Len(Append(b, t)) = Len(b) + 1
<1> DEFINE m == Append(l, t)
           d == Append(b, t)
<1>1. /\ b \in Seq(Nat) /\ Len(b) <= Len(l) /\ Len(b) \in Nat /\ Len(l) \in Nat
      /\ \A i \in 1..Len(b) : b[i] = l[Len(l) - Len(b) + i]
      /\ \A i \in 1..(Len(l) - Len(b)) : l[i] <= x
  BY DEF EndOf
<1>2. /\ m \in Seq(Nat) /\ Len(m) = Len(l) + 1 /\ m[Len(l) + 1] = t
      /\ \A i \in 1..Len(l) : m[i] = l[i]
  BY AppendProperties
<1>3. /\ d \in Seq(Nat) /\ Len(d) = Len(b) + 1 /\ d[Len(b) + 1] = t
      /\ \A i \in 1..Len(b) : d[i] = b[i]
  BY <1>1, AppendProperties
<1> HIDE DEF m, d
<1>4. ASSUME NEW i \in 1..Len(d)
      PROVE  d[i] = m[Len(m) - Len(d) + i]
  <2>1. CASE i = Len(b) + 1
    BY <1>1, <1>2, <1>3, <2>1
  <2>2. CASE i # Len(b) + 1
    <3>1. i \in 1..Len(b) /\ Len(l) - Len(b) + i \in 1..Len(l)
      BY <1>1, <1>3, <2>2
    <3>2. Len(m) - Len(d) + i = Len(l) - Len(b) + i
      BY <1>1, <1>2, <1>3
    <3> QED BY <1>1, <1>2, <1>3, <3>1, <3>2
  <2> QED BY <2>1, <2>2
<1>5. ASSUME NEW i \in 1..(Len(m) - Len(d))
      PROVE  m[i] <= x
  <2>1. Len(m) - Len(d) = Len(l) - Len(b) /\ Len(l) - Len(b) <= Len(l)
    BY <1>1, <1>2, <1>3
  <2>2. i \in 1..(Len(l) - Len(b)) /\ i \in 1..Len(l)
    BY <1>1, <2>1
  <2> QED BY <1>1, <1>2, <2>2
<1>6. Len(d) <= Len(m)
  BY <1>1, <1>2, <1>3
<1>7. EndOf(d, m, x)
  BY <1>3, <1>4, <1>5, <1>6 DEF EndOf
<1> QED BY <1>3, <1>7 DEF d, m

\* An entry may follow when all but fewer than n of the entries are w old.
LEMMA AppendSpaced ==
    ASSUME NEW l \in Seq(Nat), NEW n \in Nat, NEW w \in Nat, NEW t \in Nat, NEW b,
           EndOf(b, l, t - w), Len(b) < n, Spaced(l, n, w), Sorted(l, t)
    PROVE  Append(l, t) \in Seq(Nat) /\ Spaced(Append(l, t), n, w) /\ Sorted(Append(l, t), t)
<1> DEFINE m == Append(l, t)
           p == Len(l)
           q == Len(b)
<1>1. /\ m \in Seq(Nat) /\ Len(m) = p + 1 /\ m[p + 1] = t
      /\ \A i \in 1..p : m[i] = l[i] /\ l[i] \in Nat
  BY AppendProperties
<1>2. /\ p \in Nat /\ q \in Nat /\ q <= p
      /\ \A i \in 1..(p - q) : l[i] <= t - w
      /\ DOMAIN l = 1..p /\ DOMAIN m = 1..(p + 1)
  BY <1>1 DEF EndOf
<1>3. q < n
  OBVIOUS
<1>4. \A i \in 1..p : i + n \in 1..p => l[i + n] - l[i] >= w
  BY <1>2 DEF Spaced
<1>5. /\ \A i \in 1..p : l[i] <= t
      /\ \A i, j \in 1..p : i <= j => l[i] <= l[j]
  BY DEF Sorted
<1> HIDE DEF m, p, q
<1>6. ASSUME NEW i \in 1..(p + 1), i + n \in 1..(p + 1)
      PROVE  m[i + n] - m[i] >= w
  <2>1. i \in 1..p /\ i \in Nat
    BY <1>2, <1>3, <1>6
  <2>2. m[i] = l[i] /\ l[i] \in Nat
    BY <1>1, <2>1
  <2>3. CASE i + n = p + 1
    <3>1. i \in 1..(p - q)
      BY <1>2, <1>3, <2>1, <2>3
    <3>2. l[i] <= t - w
      BY <1>2, <3>1
    <3> QED BY <1>1, <2>2, <2>3, <3>2, SMTT(60)
  <2>4. CASE i + n # p + 1
    <3>1. i + n \in 1..p
      BY <1>2, <1>6, <2>4
    <3>2. m[i + n] = l[i + n]
      BY <1>1, <3>1
    <3> QED BY <1>4, <2>1, <2>2, <3>1, <3>2
  <2> QED BY <2>3, <2>4
<1>7. Spaced(m, n, w)
  BY <1>2, <1>6 DEF Spaced
<1>8. \A i \in 1..(p + 1) : i \in 1..p \/ i = p + 1
  BY <1>2
<1>9. ASSUME NEW i \in 1..(p + 1)
      PROVE  m[i] <= t
  <2>1. CASE i \in 1..p
    <3>1. m[i] = l[i] /\ l[i] <= t
      BY <1>1, <1>5, <2>1
    <3> QED BY <3>1
  <2>2. CASE i = p + 1
    BY <1>1, <2>2
  <2> QED BY <1>8, <2>1, <2>2
<1>10. ASSUME NEW i \in 1..(p + 1), NEW j \in 1..(p + 1), i <= j
       PROVE  m[i] <= m[j]
  <2>1. CASE j = p + 1
    BY <1>1, <1>9, <2>1
  <2>2. CASE j # p + 1
    <3>1. i \in 1..p /\ j \in 1..p
      BY <1>2, <1>10, <2>2
    <3> QED BY <1>1, <1>5, <1>10, <3>1
  <2> QED BY <2>1, <2>2
<1>11. Sorted(m, t)
  BY <1>1, <1>9, <1>10 DEF Sorted
<1> QED BY <1>1, <1>7, <1>11 DEF m

\* What a check of client c knows of the deque b it has pruned.
LiveDeque(c, b) ==
    /\ EndOf(b, log[c], now - Window)
    /\ Len(b) <= limit
    /\ Len(b) > 0 => b[1] > now - Window
    /\ Len(b) = limit /\ Len(b) > 0 => c \in Tracked /\ b = hits[c]
    /\ c \notin Tracked => b = <<>>

\* What a check works on: the deque without its expired prefix.
LEMMA Pruned ==
    ASSUME LimiterAssumption, IInv, NEW c \in Clients, NEW n \in 0..Len(Bucket(c)),
           Expires(Bucket(c), n), NEW b, b = SubSeq(Bucket(c), n + 1, Len(Bucket(c)))
    PROVE  LiveDeque(c, b)
<1>0. SUFFICES ASSUME NEW h, NEW l, NEW x, h = Bucket(c), l = log[c], x = now - Window
             PROVE  /\ EndOf(b, l, x)
                    /\ Len(b) <= limit
                    /\ Len(b) > 0 => b[1] > x
                    /\ Len(b) = limit /\ Len(b) > 0 => c \in Tracked /\ b = hits[c]
                    /\ c \notin Tracked => b = <<>>
  BY DEF LiveDeque
<1>1. l \in Seq(Nat) /\ limit \in Nat /\ x \in Int
  BY <1>0 DEF IInv, LimiterTypeOK, LimiterAssumption
<1>2. /\ Len(h) <= limit /\ EndOf(h, l, x)
      /\ c \in Tracked => h = hits[c]
      /\ c \notin Tracked => h = <<>>
  <2>1. CASE c \in Tracked
    BY <1>0, <2>1 DEF Bucket, IInv, DequeOK
  <2>2. CASE c \notin Tracked
    <3>1. h = <<>> /\ l = <<>>
      BY <1>0, <2>2 DEF Bucket, IInv, StrangerOK
    <3>2. EndOf(<<>>, <<>>, x)
      BY DEF EndOf
    <3> QED BY <1>1, <2>2, <3>1, <3>2
  <2> QED BY <2>1, <2>2
<1>3. /\ \A i \in 1..n : h[i] <= x
      /\ n < Len(h) => h[n + 1] > x
  BY <1>0 DEF Expires
<1>4. n \in 0..Len(h) /\ b = SubSeq(h, n + 1, Len(h))
  BY <1>0
<1>5. /\ EndOf(b, l, x)
      /\ Len(b) = Len(h) - n
      /\ \A i \in 1..Len(b) : b[i] = h[n + i]
  <2>1. l \in Seq(Nat) /\ x \in Int
    BY <1>1
  <2>2. EndOf(h, l, x)
    BY <1>2
  <2>3. n \in 0..Len(h) /\ \A i \in 1..n : h[i] <= x
    BY <1>3, <1>4
  <2>4. LET e == SubSeq(h, n + 1, Len(h))
        IN  EndOf(e, l, x) /\ Len(e) = Len(h) - n /\ \A i \in 1..Len(e) : e[i] = h[n + i]
    BY <2>1, <2>2, <2>3, EndOfEnd, ZenonT(60)
  <2> QED BY <1>4, <2>4, Zenon
<1>6. h \in Seq(Nat) /\ b \in Seq(Nat)
  BY <1>2, <1>5 DEF EndOf
<1>7. Len(b) > 0 => b[1] > x
  BY <1>3, <1>4, <1>5, <1>6
<1>8. Len(b) <= limit /\ (Len(b) = limit => n = 0)
  BY <1>1, <1>2, <1>4, <1>5, <1>6
<1>9. n = 0 => b = h
  BY <1>4, <1>6, SubSeqFull
<1>10. c \notin Tracked => b = <<>>
  BY <1>2, <1>4, <1>5, <1>6
<1>11. Len(b) = limit /\ Len(b) > 0 => c \in Tracked /\ b = hits[c]
  <2>1. c \notin Tracked => Len(b) = 0
    BY <1>10
  <2> QED BY <1>2, <1>8, <1>9, <2>1
<1> QED BY <1>5, <1>7, <1>8, <1>10, <1>11

\* What looking a client up leaves of the others, and of its own past.
LEMMA Looked ==
    ASSUME IInv, NEW c \in Clients
    PROVE  /\ Kept(c, log, <<>>) \in [Clients -> Seq(Nat)]
           /\ Kept(c, promised, NoPromise) \in [Clients -> Nat \cup {NoPromise}]
           /\ Kept(c, log, <<>>)[c] = log[c]
           /\ Kept(c, promised, NoPromise)[c] = promised[c]
           /\ \A k \in Clients : Kept(c, log, <<>>)[k] = IF Clears(c) THEN <<>> ELSE log[k]
           /\ \A k \in Clients : Kept(c, promised, NoPromise)[k] =
                                    IF Clears(c) THEN NoPromise ELSE promised[k]
<1>1. log \in [Clients -> Seq(Nat)] /\ promised \in [Clients -> Nat \cup {NoPromise}]
  BY DEF IInv, LimiterTypeOK
<1>2. Clears(c) => log[c] = <<>> /\ promised[c] = NoPromise
  BY DEF IInv, StrangerOK, Clears
<1> QED BY <1>1, <1>2 DEF Kept

\* Storing a deque keeps the table within its bound and the other deques as they are.
LEMMA Stored ==
    ASSUME LimiterAssumption, IInv, NEW c \in Clients, NEW b \in Seq(Nat), Store(c, b)
    PROVE  /\ Tracked' = IF Clears(c) THEN {c} ELSE Tracked \cup {c}
           /\ Tracked' \subseteq Clients
           /\ hits' \in [Tracked' -> Seq(Nat)]
           /\ hits'[c] = b
           /\ \A k \in Tracked' : k # c => ~Clears(c) /\ k \in Tracked /\ hits'[k] = hits[k]
           /\ TableOK'
<1>1. Tracked' = IF Clears(c) THEN {c} ELSE Tracked \cup {c}
  BY DEF Store, Tracked
<1>2. /\ hits' \in [Tracked' -> Seq(Nat)]
      /\ hits'[c] = b
      /\ \A k \in Tracked' : k # c => ~Clears(c) /\ k \in Tracked /\ hits'[k] = hits[k]
  BY <1>1 DEF Store, IInv, LimiterTypeOK
<1>3. IsFiniteSet(Tracked) /\ Cardinality(Tracked) <= MaxTracked /\ Cardinality(Tracked) \in Nat
  BY FS_CardinalityType DEF IInv, TableOK
<1>4. TableOK'
  <2>1. CASE Clears(c)
    <3>1. IsFiniteSet({c}) /\ Cardinality({c}) = 1
      BY FS_Singleton
    <3> QED BY <1>1, <2>1, <3>1 DEF TableOK, LimiterAssumption
  <2>2. CASE ~Clears(c)
    <3>1. c \in Tracked \/ Cardinality(Tracked) < MaxTracked
      BY <1>3, <2>2 DEF Clears, LimiterAssumption
    <3>2. /\ IsFiniteSet(Tracked \cup {c})
          /\ Cardinality(Tracked \cup {c}) =
               IF c \in Tracked THEN Cardinality(Tracked) ELSE Cardinality(Tracked) + 1
      BY <1>3, FS_AddElement
    <3> QED BY <1>1, <1>3, <2>2, <3>1, <3>2 DEF TableOK, LimiterAssumption
  <2> QED BY <2>1, <2>2
<1> QED BY <1>1, <1>2, <1>4 DEF IInv, LimiterTypeOK

-----------------------------------------------------------------------------
(* The invariant *)

\* The empty history is in order.
LEMMA EmptyHistory ==
    ASSUME NEW n \in Nat, NEW w \in Nat, NEW t \in Nat
    PROVE  Spaced(<<>>, n, w) /\ Sorted(<<>>, t)
BY DEF Spaced, Sorted

\* A step that leaves every client's part in order keeps the invariant.
LEMMA KeptForEach ==
    ASSUME LimiterTypeOK', TableOK',
           \A k \in Tracked' : DequeOK(k)',
           \A k \in Clients : HistoryOK(k)' /\ StrangerOK(k)' /\ PromiseOK(k)'
    PROVE  IInv'
BY DEF IInv

\* What a check leaves of every other client is in order.
LEMMA OthersKept ==
    ASSUME LimiterAssumption, IInv, NEW c \in Clients, NEW d \in Seq(Nat), Store(c, d),
           UNCHANGED <<now, limit>>,
           NEW k \in Clients, k # c,
           log'[k] = Kept(c, log, <<>>)[k],
           promised'[k] = Kept(c, promised, NoPromise)[k]
    PROVE  /\ k \in Tracked' => DequeOK(k)'
           /\ HistoryOK(k)' /\ StrangerOK(k)' /\ PromiseOK(k)'
<1>1. /\ Tracked' = IF Clears(c) THEN {c} ELSE Tracked \cup {c}
      /\ k \in Tracked' => ~Clears(c) /\ k \in Tracked /\ hits'[k] = hits[k]
  BY Stored
<1>2. /\ log'[k] = IF Clears(c) THEN <<>> ELSE log[k]
      /\ promised'[k] = IF Clears(c) THEN NoPromise ELSE promised[k]
  BY Looked
<1>3. CASE Clears(c)
  <2>1. k \notin Tracked' /\ log'[k] = <<>> /\ promised'[k] = NoPromise
    BY <1>1, <1>2, <1>3
  <2>2. HistoryOK(k)'
    BY <2>1, EmptyHistory DEF HistoryOK, IInv, LimiterTypeOK, LimiterAssumption
  <2> QED BY <2>1, <2>2 DEF StrangerOK, PromiseOK
<1>4. CASE ~Clears(c)
  <2>1. log'[k] = log[k] /\ promised'[k] = promised[k] /\ (k \in Tracked' <=> k \in Tracked)
    BY <1>1, <1>2, <1>4
  <2>2. k \in Tracked' => DequeOK(k)'
    BY <1>1, <2>1 DEF IInv, DequeOK, EndOf
  <2>3. HistoryOK(k)' /\ StrangerOK(k)'
    BY <2>1 DEF IInv, HistoryOK, StrangerOK, Spaced, Sorted
  <2>4. PromiseOK(k)'
    BY <1>1, <2>1 DEF IInv, PromiseOK
  <2> QED BY <2>2, <2>3, <2>4
<1> QED BY <1>3, <1>4

LEMMA AllowKeeps ==
    ASSUME LimiterAssumption, IInv, NEW c \in Clients, NEW b, LiveDeque(c, b),
           Allow(c, b), UNCHANGED <<now, limit>>
    PROVE  IInv'
<1>1. /\ now \in Nat /\ limit \in Nat /\ Window \in Nat /\ log[c] \in Seq(Nat) /\ limit' \in Limits
      /\ verdict' \in [Clients -> {"none", "admitted", "rejected", "raised"}]
  BY DEF IInv, LimiterTypeOK, LimiterAssumption, Allow, Answer
<1>2. b \in Seq(Nat) /\ Append(b, now) \in Seq(Nat) /\ Len(b) < limit
  BY <1>1 DEF LiveDeque, EndOf, Allow
<1>3. Store(c, Append(b, now))
  BY DEF Allow
<1>4. /\ log' \in [Clients -> Seq(Nat)]
      /\ log'[c] = Append(log[c], now)
      /\ \A k \in Clients : k # c => log'[k] = Kept(c, log, <<>>)[k]
  BY <1>1, Looked DEF Allow
<1>5. /\ promised' \in [Clients -> Nat \cup {NoPromise}]
      /\ promised'[c] = NoPromise
      /\ \A k \in Clients : k # c => promised'[k] = Kept(c, promised, NoPromise)[k]
  BY Looked DEF Allow
<1>6. /\ Tracked' = IF Clears(c) THEN {c} ELSE Tracked \cup {c}
      /\ Tracked' \subseteq Clients
      /\ hits' \in [Tracked' -> Seq(Nat)]
      /\ hits'[c] = Append(b, now)
      /\ TableOK'
  BY <1>2, <1>3, Stored
<1>7. LimiterTypeOK'
  BY <1>1, <1>4, <1>5, <1>6 DEF LimiterTypeOK, IInv
<1>8. DequeOK(c)'
  <2>1. PICK l \in Seq(Nat), x \in Int : l = log[c] /\ x = now - Window
    BY <1>1
  <2>2. EndOf(Append(b, now), Append(l, now), x) /\ Len(Append(b, now)) = Len(b) + 1
    <3>1. PICK t \in Nat : t = now
      BY <1>1
    <3>2. EndOf(b, l, x)
      BY <2>1 DEF LiveDeque
    <3> QED BY <3>1, <3>2, EndOfAppend
  <2>3. Len(hits'[c]) <= limit'
    BY <1>1, <1>2, <1>6, <2>2
  <2> QED BY <1>4, <1>6, <2>1, <2>2, <2>3 DEF DequeOK
<1>9. HistoryOK(c)'
  <2>1. PICK l \in Seq(Nat), n \in Nat, w \in Nat, t \in Nat :
           l = log[c] /\ n = limit /\ w = Window /\ t = now
    BY <1>1
  <2>2. EndOf(b, l, t - w) /\ Len(b) < n /\ Spaced(l, n, w) /\ Sorted(l, t)
    BY <1>2, <2>1 DEF LiveDeque, IInv, HistoryOK
  <2>3. Spaced(Append(l, t), n, w) /\ Sorted(Append(l, t), t)
    BY <2>2, AppendSpaced
  <2> QED BY <1>4, <2>1, <2>3 DEF HistoryOK
<1>10. StrangerOK(c)' /\ PromiseOK(c)'
  <2>1. log'[c] # <<>>
    BY <1>1, <1>4, AppendProperties
  <2> QED BY <1>5, <1>6, <2>1 DEF StrangerOK, PromiseOK
<1>11. \A k \in Clients : k # c => /\ k \in Tracked' => DequeOK(k)'
                                   /\ HistoryOK(k)' /\ StrangerOK(k)' /\ PromiseOK(k)'
  BY <1>2, <1>3, <1>4, <1>5, OthersKept
<1>12. \A k \in Tracked' : DequeOK(k)'
  BY <1>6, <1>8, <1>11
<1>13. \A k \in Clients : HistoryOK(k)' /\ StrangerOK(k)' /\ PromiseOK(k)'
  BY <1>9, <1>10, <1>11
<1> QED BY <1>6, <1>7, <1>12, <1>13, KeptForEach

LEMMA RejectKeeps ==
    ASSUME LimiterAssumption, IInv, NEW c \in Clients, NEW b, LiveDeque(c, b),
           Reject(c, b), UNCHANGED <<now, limit>>
    PROVE  IInv'
<1>1. /\ now \in Nat /\ limit \in Nat /\ Window \in Nat /\ log[c] \in Seq(Nat) /\ limit' \in Limits
      /\ TicksPerSecond \in Nat
      /\ verdict' \in [Clients -> {"none", "admitted", "rejected", "raised"}]
  BY DEF IInv, LimiterTypeOK, LimiterAssumption, Reject, Answer
<1>2. b \in Seq(Nat) /\ Len(b) = limit /\ Len(b) > 0 /\ c \in Tracked /\ b = hits[c]
  BY <1>1 DEF LiveDeque, EndOf, Reject
<1>3. Store(c, b) /\ ~Clears(c)
  BY <1>2 DEF Reject, Clears
<1>4. log' = log /\ \A k \in Clients : log'[k] = Kept(c, log, <<>>)[k]
  BY <1>3 DEF Reject, Kept
<1> DEFINE back == now + RetryAfter(b) * TicksPerSecond
<1>5. back \in Nat /\ back >= b[1] + Window
  <2>1. /\ RetryAfter(b) \in Nat
        /\ RetryAfter(b) * TicksPerSecond >= b[1] + Window - now
    BY <1>2, RetryAfterReaches DEF IInv
  <2>2. RetryAfter(b) * TicksPerSecond \in Nat
    BY <1>1, <2>1
  <2>3. b[1] \in Nat
    BY <1>2
  <2> QED BY <1>1, <2>1, <2>2, <2>3, SMTT(60)
<1>6. /\ promised' \in [Clients -> Nat \cup {NoPromise}]
      /\ promised'[c] = IF promised[c] = NoPromise THEN back ELSE promised[c]
      /\ \A k \in Clients : k # c => promised'[k] = Kept(c, promised, NoPromise)[k]
  <2>1. promised' = [promised EXCEPT ![c] = IF @ = NoPromise THEN back ELSE @]
    BY <1>3 DEF Reject, Kept
  <2>2. promised \in [Clients -> Nat \cup {NoPromise}]
    BY DEF IInv, LimiterTypeOK
  <2> HIDE DEF back
  <2> QED BY <1>3, <1>5, <2>1, <2>2 DEF Kept
<1> HIDE DEF back
<1>7. /\ Tracked' = Tracked
      /\ Tracked' \subseteq Clients
      /\ hits' \in [Tracked' -> Seq(Nat)]
      /\ hits'[c] = b
      /\ TableOK'
  <2>1. b \in Seq(Nat)
    BY <1>2
  <2>2. /\ Tracked' = IF Clears(c) THEN {c} ELSE Tracked \cup {c}
        /\ Tracked' \subseteq Clients
        /\ hits' \in [Tracked' -> Seq(Nat)]
        /\ hits'[c] = b
        /\ TableOK'
    BY <1>3, <2>1, Stored
  <2>3. Tracked \cup {c} = Tracked
    BY <1>2
  <2> QED BY <1>3, <2>2, <2>3
<1>8. LimiterTypeOK'
  BY <1>1, <1>4, <1>6, <1>7 DEF LimiterTypeOK, IInv
<1>9. DequeOK(c)' /\ HistoryOK(c)' /\ StrangerOK(c)'
  BY <1>2, <1>4, <1>7 DEF DequeOK, HistoryOK, StrangerOK, LiveDeque, IInv
<1>10. PromiseOK(c)'
  <2>1. PromiseOK(c)
    BY DEF IInv
  <2> QED BY <1>1, <1>2, <1>5, <1>6, <1>7, <2>1 DEF PromiseOK
<1>11. \A k \in Clients : k # c => /\ k \in Tracked' => DequeOK(k)'
                                   /\ HistoryOK(k)' /\ StrangerOK(k)' /\ PromiseOK(k)'
  BY <1>2, <1>3, <1>4, <1>6, OthersKept
<1>12. \A k \in Tracked' : DequeOK(k)'
  BY <1>7, <1>9, <1>11
<1>13. \A k \in Clients : HistoryOK(k)' /\ StrangerOK(k)' /\ PromiseOK(k)'
  BY <1>9, <1>10, <1>11
<1> QED BY <1>7, <1>8, <1>12, <1>13, KeptForEach

LEMMA RaiseKeeps ==
    ASSUME LimiterAssumption, IInv, NEW c \in Clients, NEW b, LiveDeque(c, b),
           Raise(c, b), UNCHANGED <<now, limit>>
    PROVE  IInv'
<1>1. /\ now \in Nat /\ limit \in Nat /\ Window \in Nat /\ log[c] \in Seq(Nat) /\ limit' \in Limits
      /\ verdict' \in [Clients -> {"none", "admitted", "rejected", "raised"}]
  BY DEF IInv, LimiterTypeOK, LimiterAssumption, Raise, Answer
<1>2. b \in Seq(Nat) /\ limit = 0 /\ Len(b) = 0
  BY <1>1 DEF LiveDeque, EndOf, Raise
<1>3. Store(c, b)
  BY DEF Raise
<1>4. /\ log' \in [Clients -> Seq(Nat)] /\ log'[c] = log[c]
      /\ \A k \in Clients : log'[k] = Kept(c, log, <<>>)[k]
  BY Looked DEF Raise
<1>5. /\ promised' \in [Clients -> Nat \cup {NoPromise}] /\ promised'[c] = promised[c]
      /\ \A k \in Clients : promised'[k] = Kept(c, promised, NoPromise)[k]
  BY Looked DEF Raise
<1>6. /\ c \in Tracked'
      /\ Tracked' \subseteq Clients
      /\ hits' \in [Tracked' -> Seq(Nat)]
      /\ hits'[c] = b
      /\ TableOK'
  BY <1>2, <1>3, Stored
<1>7. LimiterTypeOK'
  BY <1>1, <1>4, <1>5, <1>6 DEF LimiterTypeOK, IInv
<1>8. DequeOK(c)' /\ HistoryOK(c)' /\ StrangerOK(c)'
  BY <1>1, <1>2, <1>4, <1>6 DEF DequeOK, HistoryOK, StrangerOK, LiveDeque, IInv
<1>9. PromiseOK(c)'
  <2>1. promised[c] = NoPromise
    <3>1. PromiseOK(c) /\ (c \in Tracked => DequeOK(c))
      BY DEF IInv
    <3>2. c \in Tracked => hits[c] \in Seq(Nat) /\ Len(hits[c]) <= 0
      BY <1>2, <3>1 DEF DequeOK, EndOf
    <3> QED BY <3>1, <3>2 DEF PromiseOK
  <2> QED BY <1>5, <2>1 DEF PromiseOK
<1>10. \A k \in Clients : k # c => /\ k \in Tracked' => DequeOK(k)'
                                   /\ HistoryOK(k)' /\ StrangerOK(k)' /\ PromiseOK(k)'
  BY <1>2, <1>3, <1>4, <1>5, OthersKept
<1>11. \A k \in Tracked' : DequeOK(k)'
  BY <1>6, <1>8, <1>10
<1>12. \A k \in Clients : HistoryOK(k)' /\ StrangerOK(k)' /\ PromiseOK(k)'
  BY <1>8, <1>9, <1>10
<1> QED BY <1>6, <1>7, <1>11, <1>12, KeptForEach

\* The clock only makes stamps older.
LEMMA TickKeeps ==
    ASSUME LimiterAssumption, IInv, Tick
    PROVE  IInv'
<1>1. /\ now \in Nat /\ now' = now + 1 /\ limit' = limit /\ hits' = hits /\ verdict' = verdict
      /\ log' = log /\ promised' = promised /\ Tracked' = Tracked /\ Window \in Nat
  BY DEF Tick, IInv, LimiterTypeOK, LimiterAssumption, Tracked
<1>2. LimiterTypeOK' /\ TableOK'
  BY <1>1 DEF IInv, LimiterTypeOK, TableOK
<1>3. ASSUME NEW k \in Tracked
      PROVE  DequeOK(k)'
  <2>1. PICK l \in Seq(Nat), h \in Seq(Nat), x \in Int :
           l = log[k] /\ h = hits[k] /\ x = now - Window
    BY <1>1 DEF IInv, LimiterTypeOK
  <2>2. EndOf(h, l, x) /\ Len(h) <= limit
    BY <2>1 DEF IInv, DequeOK
  <2>3. EndOf(h, l, x + 1)
    <3>1. Len(h) <= Len(l) /\ Len(h) \in Nat /\ Len(l) \in Nat
      BY <2>2 DEF EndOf
    <3>2. ASSUME NEW i \in 1..(Len(l) - Len(h))
          PROVE  l[i] <= x + 1
      <4>1. l[i] <= x
        BY <2>2 DEF EndOf
      <4>2. l[i] \in Nat
        <5>1. i \in 1..Len(l)
          BY <3>1
        <5> QED BY <5>1
      <4> QED BY <4>1, <4>2
    <3> QED BY <2>2, <3>2 DEF EndOf
  <2>4. now' - Window = x + 1
    BY <1>1, <2>1
  <2> QED BY <1>1, <2>1, <2>2, <2>3, <2>4 DEF DequeOK
<1>4. ASSUME NEW k \in Clients
      PROVE  HistoryOK(k)' /\ StrangerOK(k)' /\ PromiseOK(k)'
  <2>1. log[k] \in Seq(Nat)
    BY DEF IInv, LimiterTypeOK
  <2>2. HistoryOK(k)'
    BY <1>1, <2>1 DEF IInv, HistoryOK, Spaced, Sorted
  <2> QED BY <1>1, <2>2 DEF IInv, StrangerOK, PromiseOK
<1> QED BY <1>1, <1>2, <1>3, <1>4, KeptForEach

LEMMA CheckDecides ==
    ASSUME LimiterAssumption, IInv, NEW c \in Clients, Check(c)
    PROVE  \E b : LiveDeque(c, b) /\ (Allow(c, b) \/ Reject(c, b) \/ Raise(c, b))
<1>1. PICK n \in 0..Len(Bucket(c)) :
        /\ Expires(Bucket(c), n)
        /\ LET b == SubSeq(Bucket(c), n + 1, Len(Bucket(c)))
           IN  Allow(c, b) \/ Reject(c, b) \/ Raise(c, b)
  BY DEF Check
<1>2. PICK b : b = SubSeq(Bucket(c), n + 1, Len(Bucket(c)))
  OBVIOUS
<1>3. LiveDeque(c, b)
  BY <1>1, <1>2, Pruned
<1>4. Allow(c, b) \/ Reject(c, b) \/ Raise(c, b)
  BY <1>1, <1>2
<1> QED BY <1>3, <1>4

LEMMA CheckKeeps ==
    ASSUME LimiterAssumption, IInv, NEW c \in Clients, Check(c)
    PROVE  IInv'
<1>1. PICK b : LiveDeque(c, b) /\ (Allow(c, b) \/ Reject(c, b) \/ Raise(c, b))
  BY CheckDecides
<1>2. UNCHANGED <<now, limit>>
  BY DEF Check
<1> QED BY <1>1, <1>2, AllowKeeps, RejectKeeps, RaiseKeeps

LEMMA InitHolds ==
    ASSUME LimiterAssumption, LimiterInit
    PROVE  IInv
<1>1. Tracked = {} /\ hits = NoHits
  BY DEF LimiterInit, NoHits, Tracked
<1>2. LimiterTypeOK
  BY <1>1 DEF LimiterInit, LimiterTypeOK, LimiterAssumption, NoHits
<1>3. TableOK
  BY <1>1, FS_EmptySet DEF TableOK, LimiterAssumption
<1>4. \A k \in Clients : HistoryOK(k) /\ StrangerOK(k) /\ PromiseOK(k)
  BY <1>1, <1>2, EmptyHistory
     DEF LimiterInit, LimiterTypeOK, LimiterAssumption, HistoryOK, StrangerOK, PromiseOK
<1> QED BY <1>1, <1>2, <1>3, <1>4 DEF IInv

LEMMA StutterKeeps ==
    ASSUME IInv, UNCHANGED limiterVars
    PROVE  IInv'
BY DEF limiterVars, IInv, LimiterTypeOK, TableOK, DequeOK, HistoryOK, StrangerOK, PromiseOK,
       EndOf, Spaced, Sorted, Tracked

\* The inductive invariant holds in every reachable state.
THEOREM Invariance == LimiterSpec => []IInv
<1>1. LimiterInit => IInv
  BY InitHolds, LimiterAssumption
<1>2. IInv /\ [LimiterNext]_limiterVars => IInv'
  BY CheckKeeps, TickKeeps, StutterKeeps, LimiterAssumption DEF LimiterNext
<1> QED BY <1>1, <1>2, PTL DEF LimiterSpec

-----------------------------------------------------------------------------
(* The properties the runs check *)

\* Type correctness, for the core/ratelimit.py state.
THEOREM TypeCorrect == LimiterSpec => []LimiterTypeOK
<1>1. IInv => LimiterTypeOK
  BY DEF IInv
<1> QED BY <1>1, Invariance, PTL

\* No window of ratelimit.py:55-60 ever holds more admissions of a client than the limit.
THEOREM NoBurst == LimiterSpec => []NoBurstBeyondLimit
<1>1. IInv => NoBurstBeyondLimit
  BY DEF IInv, HistoryOK, Spaced, NoBurstBeyondLimit
<1> QED BY <1>1, Invariance, PTL

\* The table of ratelimit.py:23 and its deques stay within their bounds.
THEOREM BoundedMemory == LimiterSpec => []MemoryIsBounded
<1>1. IInv => MemoryIsBounded
  BY DEF IInv, TableOK, DequeOK, MemoryIsBounded
<1> QED BY <1>1, Invariance, PTL

\* Who waits as long as ratelimit.py:58 says is admitted.
THEOREM RetryAfterSuffices == LimiterSpec => []RetryAfterIsEnough
<1>1. IInv => RetryAfterIsEnough
  <2> SUFFICES ASSUME IInv, NEW c \in Clients, promised[c] # NoPromise, now >= promised[c]
               PROVE  HasRoom(c)
    BY DEF RetryAfterIsEnough
  <2>1. /\ c \in Tracked /\ Len(hits[c]) > 0
        /\ promised[c] >= hits[c][1] + Window /\ Len(hits[c]) <= limit
    BY DEF IInv, PromiseOK, DequeOK
  <2>2. /\ Bucket(c) = hits[c] /\ hits[c] \in Seq(Nat)
        /\ now \in Nat /\ limit \in Nat /\ promised[c] \in Int /\ Window \in Nat
    BY <2>1, LimiterAssumption DEF Bucket, IInv, LimiterTypeOK, NoPromise
  <2>3. 1 \in 0..Len(hits[c]) /\ Len(hits[c]) - 1 < limit /\ hits[c][1] <= now - Window
    <3>1. hits[c][1] \in Nat /\ Len(hits[c]) \in Nat
      BY <2>1, <2>2
    <3> QED BY <2>1, <2>2, <3>1, SMTT(60)
  <2> QED BY <2>2, <2>3 DEF HasRoom
<1> QED BY <1>1, Invariance, PTL

-----------------------------------------------------------------------------
(* The refinement of SlidingWindow *)

\* The abstract module counts as this one does.
LEMMA SameCardinality ==
    ASSUME NEW S
    PROVE  Abstract!Cardinality(S) = Cardinality(S)
BY DEF Abstract!Cardinality, Cardinality, Abstract!IsFiniteSet, IsFiniteSet

\* The pruned deque is as long as the number of admissions in the window.
LEMMA RecentCounted ==
    ASSUME LimiterAssumption, IInv, NEW c \in Clients, NEW b, LiveDeque(c, b)
    PROVE  Abstract!Cardinality(Abstract!Recent(c)) = Len(b)
<1>1. PICK l \in Seq(Nat), x \in Int, p \in Nat : l = log[c] /\ x = now - Window /\ p = Len(l)
  BY DEF IInv, LimiterTypeOK, LimiterAssumption
<1>2. PICK q \in Nat : q = Len(b)
  BY DEF LiveDeque, EndOf
<1>3. /\ q <= p
      /\ \A i \in 1..q : b[i] = l[p - q + i]
      /\ \A i \in 1..(p - q) : l[i] <= x
      /\ q > 0 => b[1] > x
      /\ b \in Seq(Nat)
  BY <1>1, <1>2 DEF LiveDeque, EndOf
<1>4. \A i, j \in 1..p : i <= j => l[i] <= l[j]
  BY <1>1 DEF IInv, HistoryOK, Sorted
<1>5. Abstract!Recent(c) = {i \in 1..p : l[i] > x}
  BY <1>1 DEF Abstract!Recent
<1>6. \A i \in 1..p : l[i] \in Nat
  BY <1>1
<1>7. ASSUME NEW i \in 1..p
      PROVE  l[i] > x <=> i \in (p - q + 1)..p
  <2>1. CASE i <= p - q
    <3>1. i \in 1..(p - q) /\ i \notin (p - q + 1)..p
      BY <1>3, <2>1
    <3> QED BY <1>3, <1>6, <3>1
  <2>2. CASE i > p - q
    <3>1. q > 0 /\ 1 \in 1..q /\ p - q + 1 \in 1..p /\ p - q + 1 <= i
      BY <1>3, <2>2
    <3>2. l[p - q + 1] > x
      BY <1>3, <3>1
    <3>3. l[p - q + 1] <= l[i] /\ l[i] \in Nat /\ l[p - q + 1] \in Nat
      BY <1>4, <1>6, <3>1
    <3>4. i \in (p - q + 1)..p
      BY <3>1
    <3> QED BY <3>2, <3>3, <3>4
  <2> QED BY <2>1, <2>2, <1>3
<1>8. Abstract!Recent(c) = (p - q + 1)..p
  <2>1. (p - q + 1)..p \subseteq 1..p
    BY <1>3
  <2> QED BY <1>5, <1>7, <2>1
<1>9. Cardinality((p - q + 1)..p) = q
  <2>1. Cardinality((p - q + 1)..p) = IF p - q + 1 > p THEN 0 ELSE p - (p - q + 1) + 1
    BY <1>3, FS_Interval
  <2> QED BY <1>3, <2>1
<1> QED BY <1>2, <1>8, <1>9, SameCardinality

\* An admission is one of the abstract window, and what it forgets may be forgotten.
LEMMA AllowAdmits ==
    ASSUME LimiterAssumption, IInv, NEW c \in Clients, NEW b, LiveDeque(c, b),
           Allow(c, b), UNCHANGED <<now, limit>>
    PROVE  Abstract!Admit(c)
<1>1. Abstract!Cardinality(Abstract!Recent(c)) < limit /\ limit > 0
  <2>1. Len(b) < limit /\ Len(b) \in Nat /\ limit \in Nat
    BY DEF Allow, LiveDeque, EndOf, IInv, LimiterTypeOK, LimiterAssumption
  <2> QED BY <2>1, RecentCounted
<1>2. verdict' = [verdict EXCEPT ![c] = "admitted"]
  BY DEF Allow, Answer
<1>3. log \in [Clients -> Seq(Nat)] /\ now \in Nat
  BY DEF IInv, LimiterTypeOK
<1>4. CASE Clears(c)
  <2>1. Tracked = {k \in Clients : log[k] # <<>>}
    BY <1>1 DEF IInv, StrangerOK, LimiterTypeOK
  <2>2. log[c] = <<>>
    BY <1>4 DEF IInv, StrangerOK, Clears
  <2>3. Abstract!OneTooMany(c)
    BY <1>4, <2>1, <2>2, SameCardinality DEF Abstract!OneTooMany, Clears
  <2>4. log' = [[k \in Clients |-> <<>>] EXCEPT ![c] = Append(<<>>, now)]
    BY <1>3, <1>4 DEF Allow, Kept
  <2>5. Append(<<>>, now) = <<now>>
    OBVIOUS
  <2> QED BY <1>1, <1>2, <2>3, <2>4, <2>5 DEF Abstract!Admit, Abstract!Forgotten
<1>5. CASE ~Clears(c)
  <2>1. log' = [log EXCEPT ![c] = Append(@, now)]
    BY <1>5 DEF Allow, Kept
  <2> QED BY <1>1, <1>2, <2>1 DEF Abstract!Admit
<1> QED BY <1>4, <1>5

\* A client is turned away only by a full window of its own.
LEMMA RefusalTurnsAway ==
    ASSUME LimiterAssumption, IInv, NEW c \in Clients, NEW b, LiveDeque(c, b),
           Reject(c, b) \/ Raise(c, b), UNCHANGED <<now, limit>>
    PROVE  Abstract!TurnAway(c)
<1>1. /\ Abstract!Cardinality(Abstract!Recent(c)) = Len(b)
      /\ Len(b) >= limit /\ Len(b) <= limit /\ Len(b) \in Nat /\ limit \in Nat
  <2>1. Abstract!Cardinality(Abstract!Recent(c)) = Len(b)
    BY RecentCounted
  <2>2. Len(b) >= limit /\ Len(b) <= limit
    BY DEF Reject, Raise, LiveDeque
  <2> QED BY <2>1, <2>2 DEF LiveDeque, EndOf, IInv, LimiterTypeOK, LimiterAssumption
<1>2. CASE Reject(c, b)
  <2>1. limit > 0 /\ c \in Tracked
    BY <1>1, <1>2 DEF Reject, LiveDeque
  <2>2. log' = log
    BY <1>2, <2>1 DEF Reject, Kept, Clears
  <2>3. verdict' = [verdict EXCEPT ![c] = IF limit > 0 THEN "rejected" ELSE "raised"]
    BY <1>2, <2>1 DEF Reject, Answer
  <2> QED BY <1>1, <2>2, <2>3 DEF Abstract!TurnAway
<1>3. CASE Raise(c, b)
  <2>1. limit = 0
    BY <1>1, <1>3 DEF Raise
  <2>2. \A k \in Clients : log[k] = <<>>
    <3> SUFFICES ASSUME NEW k \in Clients, log[k] # <<>>
                 PROVE  FALSE
      OBVIOUS
    <3>1. log[k] \in Seq(Nat) /\ Spaced(log[k], 0, Window) /\ Window > 0
      BY <2>1 DEF IInv, HistoryOK, LimiterTypeOK, LimiterAssumption
    <3>2. 1 \in DOMAIN log[k] /\ 1 + 0 \in DOMAIN log[k] /\ log[k][1] \in Nat
      BY <3>1
    <3>3. log[k][1 + 0] - log[k][1] >= Window
      BY <3>1, <3>2 DEF Spaced
    <3> QED BY <3>1, <3>2, <3>3, LimiterAssumption DEF LimiterAssumption
  <2>3. log' = log
    <3>1. log \in [Clients -> Seq(Nat)]
      BY DEF IInv, LimiterTypeOK
    <3> QED BY <1>3, <2>2, <3>1 DEF Raise, Kept
  <2>4. verdict' = [verdict EXCEPT ![c] = IF limit > 0 THEN "rejected" ELSE "raised"]
    BY <1>3, <2>1 DEF Raise, Answer
  <2> QED BY <1>1, <2>3, <2>4 DEF Abstract!TurnAway
<1> QED BY <1>2, <1>3

\* The deques of ratelimit.py decide as the whole history of a sliding window would.
THEOREM Implementation == LimiterSpec => ImplementsSlidingWindow
<1>1. LimiterInit => Abstract!Init
  BY LimiterAssumption DEF LimiterInit, Abstract!Init, Abstract!Forgotten, LimiterAssumption
<1>2. IInv /\ [LimiterNext]_limiterVars => [Abstract!Next]_(Abstract!window)
  <2> SUFFICES ASSUME IInv, [LimiterNext]_limiterVars
               PROVE  [Abstract!Next]_(Abstract!window)
    OBVIOUS
  <2>1. CASE Tick
    BY <2>1 DEF Tick, Abstract!Next
  <2>2. ASSUME NEW c \in Clients, Check(c)
        PROVE  Abstract!Next
    <3>1. PICK b : LiveDeque(c, b) /\ (Allow(c, b) \/ Reject(c, b) \/ Raise(c, b))
      BY <2>2, CheckDecides, LimiterAssumption
    <3>2. UNCHANGED <<now, limit>>
      BY <2>2 DEF Check
    <3> QED BY <3>1, <3>2, AllowAdmits, RefusalTurnsAway, LimiterAssumption DEF Abstract!Next
  <2>3. CASE UNCHANGED limiterVars
    BY <2>3 DEF limiterVars, Abstract!window
  <2> QED BY <2>1, <2>2, <2>3 DEF LimiterNext
<1> QED BY <1>1, <1>2, Invariance, PTL DEF LimiterSpec, ImplementsSlidingWindow, Abstract!Spec

=============================================================================
