--------------------- MODULE ConversationHistory_proofs ---------------------
(***************************************************************************)
(* Proofs about ConversationHistory, for every set of rows (finite or      *)
(* not), every number of clients and every size of a page.                 *)
(***************************************************************************)
EXTENDS ConversationHistory, FiniteSetTheorems, FunctionTheorems, TLAPS

\* The rows whose insertion has begun: there are finitely many of them.
Begun == {r \in Rows : createdAt[r] # NotBegun}

\* What the order of a page rests on: the rows begun are numbered, and only
\* they are listed.
Numbered ==
    /\ IsFiniteSet(Begun)
    /\ \A r \in Begun : createdAt[r] <= Cardinality(Begun)
    /\ \A q, r \in Begun : createdAt[q] = createdAt[r] => q = r
    /\ Listed \subseteq Begun

\* The place of a row in the listing, from 0.
Place(r) == Cardinality(Newer(r))

\* A row that was stored when w began its walk is still ahead of it.
Ahead(w, r) == r \in Listed /\ Place(r) >= offset[w]

\* A walk: nothing stored when it began is behind it unseen, and the count it
\* holds is one the listing has reached.
WalkOK(w) ==
    /\ at[w] \in {"start", "end"} => offset[w] = 0
    /\ at[w] \in {"count", "page"} =>
          \A r \in stored[w] : r \in shown[w] \/ Ahead(w, r)
    /\ at[w] = "end" => stored[w] \subseteq shown[w]
    /\ at[w] = "page" => total[w] <= Cardinality(Listed)

\* The inductive invariant.
HInv ==
    /\ TypeOK
    /\ Numbered
    /\ \A w \in Walkers : WalkOK(w)
    /\ PageAsPromised

-----------------------------------------------------------------------------
(***************************************************************************)
(* The listing.  Rows are placed by how many newer ones there are, and the *)
(* places of n rows are 0..n-1: that is what LIMIT and OFFSET count.       *)
(***************************************************************************)

\* There are finitely many listed rows, and so of any part of them.
LEMMA ListedIsFinite ==
    ASSUME Numbered
    PROVE  /\ IsFiniteSet(Listed) /\ Cardinality(Listed) \in Nat
           /\ \A S \in SUBSET Listed :
                 /\ IsFiniteSet(S) /\ Cardinality(S) \in Nat
                 /\ Cardinality(S) <= Cardinality(Listed)
                 /\ Cardinality(S) = Cardinality(Listed) => S = Listed
<1>1. IsFiniteSet(Listed)
  BY FS_Subset DEF Numbered
<1>2. Cardinality(Listed) \in Nat
  BY <1>1, FS_CardinalityType
<1>3. ASSUME NEW S \in SUBSET Listed
      PROVE  /\ IsFiniteSet(S) /\ Cardinality(S) \in Nat
             /\ Cardinality(S) <= Cardinality(Listed)
             /\ Cardinality(S) = Cardinality(Listed) => S = Listed
  <2>1. /\ IsFiniteSet(S) /\ Cardinality(S) <= Cardinality(Listed)
        /\ Cardinality(S) = Cardinality(Listed) => S = Listed
    BY <1>1, <1>3, FS_Subset
  <2> QED BY <2>1, FS_CardinalityType
<1> QED BY <1>1, <1>2, <1>3

\* The place of a listed row is below their number.
LEMMA PlaceInRange ==
    ASSUME Numbered, TypeOK, NEW r \in Listed
    PROVE  Place(r) \in Nat /\ Place(r) < Cardinality(Listed)
<1>1. Newer(r) \in SUBSET Listed /\ r \notin Newer(r)
  BY DEF Newer, TypeOK, Listed
<1>2. /\ Cardinality(Newer(r)) \in Nat /\ Cardinality(Listed) \in Nat
      /\ Cardinality(Newer(r)) <= Cardinality(Listed)
      /\ Cardinality(Newer(r)) # Cardinality(Listed)
  BY <1>1, ListedIsFinite
<1> QED BY <1>2 DEF Place

\* A newer row comes before an older one.
LEMMA NewerComesFirst ==
    ASSUME Numbered, TypeOK, NEW q \in Listed, NEW r \in Listed, createdAt[q] > createdAt[r]
    PROVE  Place(q) < Place(r)
<1>1. /\ createdAt \in [Rows -> Nat]
      /\ \A s \in Listed : s \in Rows
  BY DEF TypeOK, Listed
<1>2. /\ Newer(q) \in SUBSET Newer(r) /\ Newer(r) \in SUBSET Listed
      /\ q \in Newer(r) /\ q \notin Newer(q)
  BY <1>1 DEF Newer
<1>3. IsFiniteSet(Newer(r)) /\ Cardinality(Newer(r)) \in Nat
  BY <1>2, ListedIsFinite
<1>4. /\ IsFiniteSet(Newer(q)) /\ Cardinality(Newer(q)) <= Cardinality(Newer(r))
      /\ Cardinality(Newer(r)) = Cardinality(Newer(q)) => Newer(r) = Newer(q)
  BY <1>2, <1>3, FS_Subset
<1>5. Cardinality(Newer(q)) \in Nat
  BY <1>4, FS_CardinalityType
<1> QED BY <1>2, <1>3, <1>4, <1>5 DEF Place

\* No two rows have the same place, and no place is empty.
LEMMA PlacesAreABijection ==
    ASSUME Numbered, TypeOK
    PROVE  [r \in Listed |-> Place(r)] \in Bijection(Listed, 0..(Cardinality(Listed) - 1))
<1> DEFINE f == [r \in Listed |-> Place(r)]
           T == 0..(Cardinality(Listed) - 1)
<1>1. IsFiniteSet(Listed) /\ Cardinality(Listed) \in Nat
  BY ListedIsFinite
<1>2. f \in [Listed -> T]
  BY <1>1, PlaceInRange
<1>3. ASSUME NEW q \in Listed, NEW r \in Listed, Place(q) = Place(r)
      PROVE  q = r
  <2>1. /\ createdAt[q] \in Nat /\ createdAt[r] \in Nat
        /\ q \in Begun /\ r \in Begun
    BY DEF TypeOK, Listed, Numbered
  <2>2. Place(q) \in Nat /\ Place(r) \in Nat
    BY PlaceInRange
  <2>3. ~(createdAt[q] > createdAt[r]) /\ ~(createdAt[r] > createdAt[q])
    BY <1>3, <2>2, NewerComesFirst
  <2> QED BY <2>1, <2>3 DEF Numbered
<1>4. f \in Injection(Listed, T)
  BY <1>2, <1>3 DEF Injection, IsInjective
<1>5. IsFiniteSet(T) /\ Cardinality(T) = Cardinality(Listed)
  BY <1>1, FS_Interval
<1>6. f \in Surjection(Listed, T)
  BY <1>4, <1>5, FS_Injection
<1> QED BY <1>4, <1>6 DEF Bijection

\* How long the page at an offset is: as long as it may, or all there is from there on.
LEMMA PageLength ==
    ASSUME Numbered, TypeOK, NEW o \in Nat
    PROVE  Cardinality(PageAt(o)) =
              IF Cardinality(Listed) >= o + Limit THEN Limit
              ELSE IF Cardinality(Listed) >= o THEN Cardinality(Listed) - o
              ELSE 0
<1>1. PICK n \in Nat : n = Cardinality(Listed)
  BY ListedIsFinite
<1>2. PICK top \in Int : top = IF n >= o + Limit THEN o + Limit - 1 ELSE n - 1
  BY <1>1, HistoryAssumption
<1> DEFINE g == [r \in PageAt(o) |-> Place(r)]
<1>3. PageAt(o) = {r \in Listed : Place(r) \in o..top}
  <2>1. \A r \in Listed : Place(r) \in Nat /\ Place(r) < n
    BY <1>1, PlaceInRange
  <2>2. \A r \in Listed : (o <= Place(r) /\ Place(r) < o + Limit) <=> Place(r) \in o..top
    BY <1>2, <2>1, HistoryAssumption
  <2> QED BY <2>2 DEF PageAt, Place
<1>4. \A q, r \in Listed : Place(q) = Place(r) => q = r
  BY PlacesAreABijection DEF Bijection, Injection, IsInjective
<1>5. \A k \in o..top : \E r \in Listed : Place(r) = k
  <2>1. \A k \in 0..(n - 1) : \E r \in Listed : Place(r) = k
    BY <1>1, PlacesAreABijection DEF Bijection, Surjection
  <2>2. \A k \in o..top : k \in 0..(n - 1)
    BY <1>2, HistoryAssumption
  <2> QED BY <2>1, <2>2
<1>6. g \in Injection(PageAt(o), o..top)
  BY <1>3, <1>4 DEF Injection, IsInjective
<1>7. g \in Surjection(PageAt(o), o..top)
  BY <1>3, <1>5 DEF Surjection
<1>8. IsFiniteSet(o..top) /\ Cardinality(o..top) = IF o > top THEN 0 ELSE top - o + 1
  <2>1. o \in Int /\ top \in Int
    BY <1>2
  <2> QED BY <2>1, FS_Interval, Zenon
<1>9. Cardinality(PageAt(o)) = Cardinality(o..top)
  BY <1>6, <1>7, <1>8, FS_Injection
<1> QED BY <1>1, <1>2, <1>8, <1>9, HistoryAssumption

-----------------------------------------------------------------------------
(* What the writers do to the listing *)

\* A step that takes no row from the listing and gives none of its rows another time
\* shortens nothing, and moves every row to later places only.
LEMMA ListingGrows ==
    ASSUME Numbered, Numbered', Listed \subseteq Listed',
           \A r \in Listed : createdAt'[r] = createdAt[r]
    PROVE  /\ Cardinality(Listed) <= Cardinality(Listed')
           /\ \A r \in Listed : /\ Place(r) \in Nat /\ Place(r)' \in Nat
                                /\ Place(r) <= Place(r)'
<1>1. /\ IsFiniteSet(Listed')
      /\ \A S \in SUBSET Listed' : Cardinality(S) <= Cardinality(Listed')
      /\ \A S \in SUBSET Listed' : IsFiniteSet(S) /\ Cardinality(S) \in Nat
  <2>1. IsFiniteSet(Listed')
    BY FS_Subset DEF Numbered
  <2> QED BY <2>1, FS_Subset, FS_CardinalityType
<1>2. ASSUME NEW r \in Listed
      PROVE  /\ Place(r) \in Nat /\ Place(r)' \in Nat
             /\ Place(r) <= Place(r)'
  <2>1. Newer(r) \in SUBSET Newer(r)' /\ Newer(r)' \in SUBSET Listed'
    BY <1>2 DEF Newer
  <2>2. IsFiniteSet(Newer(r)') /\ Cardinality(Newer(r)') \in Nat
    BY <1>1, <2>1
  <2>3. IsFiniteSet(Newer(r)) /\ Cardinality(Newer(r)) <= Cardinality(Newer(r)')
    BY <2>1, <2>2, FS_Subset
  <2>4. Cardinality(Newer(r)) \in Nat
    BY <2>3, FS_CardinalityType
  <2> QED BY <2>2, <2>3, <2>4 DEF Place
<1> QED BY <1>1, <1>2

\* The walks go on as they were while the writers write.
LEMMA WritersKeepWalks ==
    ASSUME HInv, TypeOK', Numbered', Listed \subseteq Listed',
           \A r \in Listed : createdAt'[r] = createdAt[r],
           UNCHANGED walkVars
    PROVE  HInv'
<1>1. /\ Cardinality(Listed) <= Cardinality(Listed') /\ Cardinality(Listed') \in Int
      /\ Cardinality(Listed) \in Int
      /\ \A r \in Listed : /\ Place(r) \in Nat /\ Place(r)' \in Nat
                           /\ Place(r) <= Place(r)'
  <2>1. Cardinality(Listed) \in Nat
    BY ListedIsFinite DEF HInv
  <2>2. IsFiniteSet(Listed')
    BY FS_Subset DEF Numbered
  <2> QED BY <2>1, <2>2, ListingGrows, FS_CardinalityType DEF HInv
<1>2. PageAsPromised'
  BY DEF HInv, PageAsPromised, walkVars
<1>3. ASSUME NEW w \in Walkers
      PROVE  WalkOK(w)'
  <2>1. WalkOK(w) /\ UNCHANGED <<at, offset, total, stored, shown>>
        /\ offset[w] \in Nat /\ total[w] \in Nat
    BY DEF HInv, walkVars, TypeOK
  <2>2. \A r \in Listed : Ahead(w, r) => Ahead(w, r)'
    BY <1>1, <2>1 DEF Ahead
  <2>3. \A r : Ahead(w, r) => Ahead(w, r)'
    BY <2>2 DEF Ahead
  <2>4. at'[w] = "page" => total'[w] <= Cardinality(Listed')
    BY <1>1, <2>1 DEF WalkOK
  <2> QED BY <2>1, <2>3, <2>4 DEF WalkOK
<1> QED BY <1>2, <1>3 DEF HInv

\* Begin, create_pending's commit and the three settlements.
LEMMA BeginKeepsHInv ==
    ASSUME HInv, NEW r \in Rows, Begin(r)
    PROVE  HInv'
<1>1. /\ TypeOK /\ Numbered
      /\ IsFiniteSet(Begun) /\ Cardinality(Begun) \in Nat
  BY FS_CardinalityType DEF HInv, Numbered
<1>2. PICK n \in Nat \ {0} : n = Cardinality(Begun) + 1
  BY <1>1
<1>3. /\ createdAt' = [createdAt EXCEPT ![r] = n]
      /\ createdAt[r] = 0
      /\ status' = status /\ UNCHANGED walkVars
      /\ createdAt \in [Rows -> Nat]
  BY <1>1, <1>2 DEF Begin, Begun, NotBegun, TypeOK
<1>4. Begun' = Begun \cup {r} /\ r \notin Begun
  BY <1>2, <1>3 DEF Begun, NotBegun
<1>5. IsFiniteSet(Begun') /\ Cardinality(Begun') = n
  BY <1>1, <1>2, <1>4, FS_AddElement
<1>6. TypeOK'
  BY <1>1, <1>2, <1>3 DEF TypeOK, walkVars
<1>7. Listed' = Listed /\ r \notin Listed
  BY <1>1, <1>3, <1>4 DEF Listed, Numbered
<1>8. Numbered'
  <2>1. \A q \in Begun : createdAt'[q] = createdAt[q] /\ createdAt[q] \in Nat
                         /\ createdAt[q] < n
    BY <1>1, <1>2, <1>3, <1>4 DEF Numbered, Begun
  <2>2. createdAt'[r] = n
    BY <1>3
  <2>3. \A q \in Begun' : createdAt'[q] <= Cardinality(Begun')
    BY <1>2, <1>4, <1>5, <2>1, <2>2
  <2>4. \A q, s \in Begun' : createdAt'[q] = createdAt'[s] => q = s
    BY <1>1, <1>2, <1>4, <2>1, <2>2 DEF Numbered
  <2>5. Listed' \subseteq Begun'
    BY <1>1, <1>4, <1>7 DEF Numbered
  <2> QED BY <1>5, <2>3, <2>4, <2>5 DEF Numbered
<1>9. \A q \in Listed : createdAt'[q] = createdAt[q]
  BY <1>3, <1>7 DEF Listed
<1> QED BY <1>3, <1>6, <1>7, <1>8, <1>9, WritersKeepWalks

LEMMA CommitKeepsHInv ==
    ASSUME HInv, NEW r \in Rows, CommitPending(r) \/ \E outcome \in Outcomes : CommitOutcome(r, outcome)
    PROVE  HInv'
<1>1. PICK s \in {"pending"} \cup Outcomes :
        /\ createdAt[r] # NotBegun \/ status[r] = "pending"
        /\ status' = [status EXCEPT ![r] = s]
        /\ UNCHANGED <<createdAt, walkVars>>
  BY DEF CommitPending, CommitOutcome
<1>2. TypeOK /\ Numbered
  BY DEF HInv
<1>3. TypeOK'
  <2>1. UNCHANGED <<createdAt, at, offset, total, page, stored, shown>>
    BY <1>1 DEF walkVars
  <2>2. status' \in [Rows -> {"absent", "pending"} \cup Outcomes]
    BY <1>1, <1>2 DEF TypeOK
  <2> QED BY <1>2, <2>1, <2>2 DEF TypeOK
<1>4. r \in Begun
  BY <1>1, <1>2 DEF Numbered, Begun, Listed
<1>5. Listed' = Listed \cup {r}
  BY <1>1, <1>2 DEF Listed, TypeOK, Outcomes
<1>6. Begun' = Begun /\ Listed' \subseteq Begun'
  BY <1>1, <1>2, <1>4, <1>5 DEF Begun, Numbered
<1>7. Numbered'
  BY <1>1, <1>2, <1>6 DEF Numbered
<1> QED BY <1>1, <1>3, <1>5, <1>7, WritersKeepWalks

-----------------------------------------------------------------------------
(* The clients *)

\* What a client's step leaves alone.
LEMMA ClientsKeepTheTable ==
    ASSUME UNCHANGED <<status, createdAt>>
    PROVE  /\ Listed' = Listed /\ Begun' = Begun
           /\ Numbered => Numbered'
           /\ \A r : Place(r)' = Place(r)
BY DEF Listed, Begun, Numbered, Place, Newer

\* A walk that a step of another client leaves as it was.
LEMMA OtherWalksKept ==
    ASSUME UNCHANGED <<status, createdAt>>, NEW w \in Walkers, WalkOK(w),
           /\ at'[w] = at[w] /\ offset'[w] = offset[w] /\ total'[w] = total[w]
           /\ stored'[w] = stored[w] /\ shown'[w] = shown[w]
    PROVE  WalkOK(w)'
<1>1. Listed' = Listed /\ \A r : Place(r)' = Place(r)
  BY ClientsKeepTheTable
<1>2. \A r : Ahead(w, r)' <=> Ahead(w, r)
  BY <1>1 DEF Ahead
<1> QED BY <1>1, <1>2 DEF WalkOK

LEMMA CountKeepsHInv ==
    ASSUME HInv, NEW w \in Walkers, Count(w)
    PROVE  HInv'
<1>1. /\ TypeOK /\ Numbered /\ PageAsPromised /\ \A v \in Walkers : WalkOK(v)
      /\ Listed \subseteq Rows /\ Cardinality(Listed) \in Nat
  BY ListedIsFinite DEF HInv, Listed
<1>2. /\ UNCHANGED <<status, createdAt, offset, page, shown>>
      /\ at' = [at EXCEPT ![w] = "page"]
      /\ total' = [total EXCEPT ![w] = Cardinality(Listed)]
      /\ \A v \in Walkers : stored'[v] = IF v = w /\ at[w] = "start" THEN Listed ELSE stored[v]
      /\ stored' \in [Walkers -> SUBSET Rows]
      /\ at[w] \in {"start", "count"}
  BY <1>1 DEF Count, TypeOK
<1>3. TypeOK'
  BY <1>1, <1>2 DEF TypeOK
<1>4. PageAsPromised'
  BY <1>1, <1>2 DEF PageAsPromised
<1>5. Numbered' /\ Listed' = Listed /\ \A r : Place(r)' = Place(r)
  BY <1>1, <1>2, ClientsKeepTheTable
<1>6. \A v \in Walkers \ {w} : WalkOK(v)'
  BY <1>1, <1>2, OtherWalksKept DEF TypeOK
<1>7. WalkOK(w)'
  <2>1. /\ at'[w] = "page" /\ total'[w] = Cardinality(Listed)
        /\ offset'[w] = offset[w] /\ shown'[w] = shown[w]
    BY <1>1, <1>2 DEF TypeOK
  <2>2. total'[w] <= Cardinality(Listed')
    BY <1>1, <1>5, <2>1
  <2>3. CASE at[w] = "start"
    <3>1. offset[w] = 0 /\ stored'[w] = Listed
      BY <1>1, <1>2, <2>3 DEF WalkOK
    <3>2. \A r \in Listed : Ahead(w, r)'
      BY <1>1, <1>5, <2>1, <3>1, PlaceInRange DEF Ahead
    <3> QED BY <2>1, <2>2, <3>1, <3>2 DEF WalkOK
  <2>4. CASE at[w] = "count"
    <3>1. stored'[w] = stored[w] /\ \A r \in stored[w] : r \in shown[w] \/ Ahead(w, r)
      BY <1>1, <1>2, <2>4 DEF WalkOK
    <3>2. \A r : Ahead(w, r) => Ahead(w, r)'
      BY <1>5, <2>1 DEF Ahead
    <3> QED BY <2>1, <2>2, <3>1, <3>2 DEF WalkOK
  <2> QED BY <1>2, <2>3, <2>4
<1> QED BY <1>3, <1>4, <1>5, <1>6, <1>7 DEF HInv

\* The step the two properties are about.  The page shows the rows whose places it
\* covers; rows still further on are there only if it is full, and then the walk
\* goes on to them.
LEMMA ReadPageKeepsHInv ==
    ASSUME HInv, NEW w \in Walkers, ReadPage(w)
    PROVE  HInv'
<1>1. /\ TypeOK /\ Numbered /\ PageAsPromised /\ \A v \in Walkers : WalkOK(v)
      /\ Cardinality(Listed) \in Nat
      /\ offset[w] \in Nat /\ total[w] \in Nat /\ at[w] = "page"
  BY ListedIsFinite DEF HInv, TypeOK, ReadPage
<1>2. PICK rows \in SUBSET Rows : rows = PageAt(offset[w])
  BY DEF PageAt, Listed
<1>3. Cardinality(rows) =
         IF Cardinality(Listed) >= offset[w] + Limit THEN Limit
         ELSE IF Cardinality(Listed) >= offset[w] THEN Cardinality(Listed) - offset[w]
         ELSE 0
  BY <1>1, <1>2, PageLength
<1>4. /\ UNCHANGED <<status, createdAt, stored>>
      /\ page' = [page EXCEPT ![w] = [rows |-> rows, offset |-> offset[w], total |-> total[w]]]
      /\ shown' = [shown EXCEPT ![w] = @ \cup rows]
      /\ total' = [total EXCEPT ![w] = 0]
      /\ Turn(w, rows)
  BY <1>2 DEF ReadPage
<1>5. /\ \A v \in Walkers \ {w} : at'[v] = at[v] /\ offset'[v] = offset[v]
      /\ at' \in [Walkers -> {"start", "count", "page", "end"}] /\ offset' \in [Walkers -> Nat]
      /\ IF Cardinality(rows) = Limit THEN at'[w] = "count" /\ offset'[w] = offset[w] + Limit
                                      ELSE at'[w] = "end" /\ offset'[w] = 0
  <2>1. PICK x \in {"count", "end"}, y \in Nat :
          /\ at' = [at EXCEPT ![w] = x] /\ offset' = [offset EXCEPT ![w] = y]
          /\ IF Cardinality(rows) = Limit THEN x = "count" /\ y = offset[w] + Limit
                                          ELSE x = "end" /\ y = 0
    BY <1>1, <1>4, HistoryAssumption DEF Turn, TypeOK
  <2> QED BY <1>1, <2>1 DEF TypeOK
<1>6. TypeOK'
  <2>1. [rows |-> rows, offset |-> offset[w], total |-> total[w]] \in
          [rows : SUBSET Rows, offset : Nat, total : Nat]
    BY <1>1, <1>2
  <2>2. page' \in [Walkers -> [rows : SUBSET Rows, offset : Nat, total : Nat]]
    BY <1>1, <1>4, <2>1 DEF TypeOK
  <2>3. total' \in [Walkers -> Nat] /\ shown' \in [Walkers -> SUBSET Rows]
    BY <1>1, <1>4 DEF TypeOK
  <2> QED BY <1>1, <1>4, <1>5, <2>2, <2>3 DEF TypeOK
<1>7. PageAsPromised'
  <2>1. \A v \in Walkers \ {w} : page'[v] = page[v]
    BY <1>4
  <2>2. /\ page'[w].rows = rows /\ page'[w].offset = offset[w] /\ page'[w].total = total[w]
    BY <1>1, <1>4 DEF TypeOK
  <2>3. Cardinality(rows) >= total[w] - offset[w] \/ Cardinality(rows) = Limit
    BY <1>1, <1>3, HistoryAssumption DEF WalkOK
  <2> QED BY <1>1, <2>1, <2>2, <2>3 DEF PageAsPromised
<1>8. Numbered' /\ Listed' = Listed /\ \A r : Place(r)' = Place(r)
  BY <1>1, <1>4, ClientsKeepTheTable
<1>9. \A v \in Walkers \ {w} : WalkOK(v)'
  BY <1>1, <1>4, <1>5, OtherWalksKept DEF TypeOK
<1>10. WalkOK(w)'
  <2>1. /\ stored'[w] = stored[w] /\ shown'[w] = shown[w] \cup rows
        /\ \A r \in stored[w] : r \in shown[w] \/ Ahead(w, r)
    BY <1>1, <1>4 DEF WalkOK, TypeOK
  <2>2. \A r \in stored[w] : \/ r \in shown'[w]
                             \/ r \in Listed /\ Place(r) >= offset[w] + Limit
    <3>1. ASSUME NEW r, Ahead(w, r) PROVE r \in rows \/ Place(r) >= offset[w] + Limit
      BY <1>1, <1>2, <3>1, PlaceInRange, HistoryAssumption DEF Ahead, PageAt, Place
    <3> QED BY <2>1, <3>1 DEF Ahead
  <2>3. CASE Cardinality(rows) = Limit
    BY <1>5, <1>8, <2>1, <2>2, <2>3 DEF WalkOK, Ahead
  <2>4. CASE Cardinality(rows) # Limit
    <3>1. Cardinality(Listed) < offset[w] + Limit
      BY <1>1, <1>3, <2>4, HistoryAssumption
    <3>2. \A r \in Listed : Place(r) < offset[w] + Limit /\ Place(r) \in Nat
      BY <1>1, <3>1, PlaceInRange, HistoryAssumption
    <3>3. stored'[w] \subseteq shown'[w]
      BY <1>1, <2>1, <2>2, <3>2, HistoryAssumption
    <3> QED BY <1>5, <2>4, <3>3 DEF WalkOK
  <2> QED BY <2>3, <2>4
<1> QED BY <1>6, <1>7, <1>8, <1>9, <1>10 DEF HInv

LEMMA EndWalkKeepsHInv ==
    ASSUME HInv, NEW w \in Walkers, EndWalk(w)
    PROVE  HInv'
<1>1. TypeOK /\ Numbered /\ PageAsPromised /\ \A v \in Walkers : WalkOK(v)
  BY DEF HInv
<1>2. /\ UNCHANGED <<status, createdAt, offset, total>> /\ at[w] = "end"
      /\ at' = [at EXCEPT ![w] = "start"]
      /\ page' = [page EXCEPT ![w] = NoPage]
      /\ stored' = [stored EXCEPT ![w] = {}]
      /\ shown' = [shown EXCEPT ![w] = {}]
  BY DEF EndWalk
<1>3. TypeOK'
  <2>1. NoPage \in [rows : SUBSET Rows, offset : Nat, total : Nat]
    BY DEF NoPage
  <2>2. page' \in [Walkers -> [rows : SUBSET Rows, offset : Nat, total : Nat]]
    BY <1>1, <1>2, <2>1 DEF TypeOK
  <2> QED BY <1>1, <1>2, <2>2 DEF TypeOK
<1>4. PageAsPromised'
  <2>1. Cardinality(NoPage.rows) >= NoPage.total - NoPage.offset
    BY FS_EmptySet DEF NoPage
  <2> QED BY <1>1, <1>2, <2>1 DEF PageAsPromised, TypeOK
<1>5. Numbered' /\ Listed' = Listed
  BY <1>1, <1>2, ClientsKeepTheTable
<1>6. \A v \in Walkers \ {w} : WalkOK(v)'
  BY <1>1, <1>2, OtherWalksKept DEF TypeOK
<1>7. WalkOK(w)'
  BY <1>1, <1>2 DEF WalkOK, TypeOK
<1> QED BY <1>3, <1>4, <1>5, <1>6, <1>7 DEF HInv

-----------------------------------------------------------------------------

LEMMA InitHInv == Init => HInv
<1> SUFFICES ASSUME Init PROVE HInv
  OBVIOUS
<1>1. Begun = {} /\ Listed = {}
  BY DEF Init, Begun, Listed
<1>2. Numbered
  BY <1>1, FS_EmptySet DEF Numbered
<1>3. TypeOK
  <2>1. NoPage \in [rows : SUBSET Rows, offset : Nat, total : Nat]
    BY DEF NoPage
  <2> QED BY <2>1 DEF Init, TypeOK, NotBegun
<1>4. \A w \in Walkers : WalkOK(w)
  BY DEF Init, WalkOK
<1>5. PageAsPromised
  <2>1. Cardinality(NoPage.rows) >= NoPage.total - NoPage.offset
    BY FS_EmptySet DEF NoPage
  <2> QED BY <2>1 DEF Init, PageAsPromised
<1> QED BY <1>2, <1>3, <1>4, <1>5 DEF HInv

LEMMA NextHInv == HInv /\ [Next]_vars => HInv'
<1> SUFFICES ASSUME HInv, [Next]_vars PROVE HInv'
  OBVIOUS
<1>1. ASSUME NEW r \in Rows,
             Begin(r) \/ CommitPending(r) \/ \E outcome \in Outcomes : CommitOutcome(r, outcome)
      PROVE  HInv'
  BY <1>1, BeginKeepsHInv, CommitKeepsHInv
<1>2. ASSUME NEW w \in Walkers, Count(w) \/ ReadPage(w) \/ EndWalk(w)
      PROVE  HInv'
  BY <1>2, CountKeepsHInv, ReadPageKeepsHInv, EndWalkKeepsHInv
<1>3. CASE UNCHANGED vars
  <2>1. TypeOK' /\ Numbered' /\ Listed' = Listed /\ UNCHANGED <<createdAt, walkVars>>
    BY <1>3, ClientsKeepTheTable DEF HInv, vars, walkVars, TypeOK
  <2> QED BY <2>1, WritersKeepWalks
<1> QED BY <1>1, <1>2, <1>3 DEF Next

LEMMA HistoryInvariance == Spec => []HInv
BY InitHInv, NextHInv, PTL DEF Spec

\* Type correctness.
THEOREM HistoryTypeCorrect == Spec => []TypeOK
<1>1. HInv => TypeOK
  BY DEF HInv
<1> QED BY <1>1, HistoryInvariance, PTL

\* A page is never shorter than the total it comes with says (postgres.py:120-129), for
\* all that is stored, committed out of order or settled between the two statements.
THEOREM PagesKeepTheirPromise == Spec => []PageAsPromised
<1>1. HInv => PageAsPromised
  BY DEF HInv
<1> QED BY <1>1, HistoryInvariance, PTL

\* A walk that has come to a short page has shown every row stored when it began
\* (postgres.py:116-129), however many rows there are and whatever is stored meanwhile.
THEOREM WalksMissNothing == Spec => []WalkMissesNothing
<1>1. HInv => WalkMissesNothing
  BY DEF HInv, WalkOK, WalkMissesNothing
<1> QED BY <1>1, HistoryInvariance, PTL

=============================================================================
