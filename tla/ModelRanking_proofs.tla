------------------------ MODULE ModelRanking_proofs -------------------------
(***************************************************************************)
(* Proofs about ModelRanking, for every catalog and every number of        *)
(* models.                                                                 *)
(***************************************************************************)
EXTENDS ModelRanking, FiniteSetTheorems, WellFoundedInduction, TLAPS

-----------------------------------------------------------------------------
(* Finite sets have extreme elements *)

\* Something in a finite set is below nothing else of it.
LEMMA Maximal ==
    ASSUME NEW P, IsFiniteSet(P), P # {}, NEW R,
           \A x \in P : <<x, x>> \notin R,
           \A x, y, z \in P : <<x, y>> \in R /\ <<y, z>> \in R => <<x, z>> \in R
    PROVE  \E x \in P : \A y \in P : <<x, y>> \notin R
<1> DEFINE Up(x) == {y \in P : <<x, y>> \in R}
           Ups == {Up(x) : x \in P}
<1>1. IsWellFoundedOn(StrictSubsetOrdering(P), SUBSET P)
  BY FS_StrictSubsetOrderingWellFounded, FS_FiniteSubsetsOfFinite
<1>2. Ups \subseteq SUBSET P
  OBVIOUS
<1>. Ups # {}
  <2> HIDE DEF Up
  <2> QED OBVIOUS
<1>3. PICK U \in Ups : \A V \in Ups : ~(<<V, U>> \in StrictSubsetOrdering(P))
  <2> HIDE DEF Ups
  <2> QED BY <1>1, <1>2, WFMin
<1>4. PICK x \in P : U = Up(x)
  OBVIOUS
<1>5. ASSUME NEW y \in P, <<x, y>> \in R PROVE FALSE
  <2>1. Up(y) \subseteq Up(x) /\ y \in Up(x) /\ y \notin Up(y)
    BY <1>5
  <2>2. <<Up(y), Up(x)>> \in StrictSubsetOrdering(P)
    BY <2>1 DEF StrictSubsetOrdering
  <2> QED BY <1>3, <1>4, <2>2
<1> QED BY <1>5

\* A catalog lists finitely many models.
LEMMA ElementsAreFinite ==
    ASSUME NEW s \in Seq(Model)
    PROVE  /\ IsFiniteSet(Elements(s)) /\ Elements(s) \subseteq Model
           /\ \A m \in Elements(s) : \E i \in 1..Len(s) : s[i] = m
<1>1. Len(s) \in Nat /\ s \in [1..Len(s) -> Model] /\ Elements(s) \subseteq Model
  BY DEF Elements
<1>2. s \in Surjection(1..Len(s), Elements(s))
  BY <1>1 DEF Surjection, Elements
<1>3. IsFiniteSet(1..Len(s))
  BY <1>1, FS_Interval
<1> QED BY <1>1, <1>2, <1>3, FS_Surjection DEF Elements

\* If some model of a catalog is among the best, one of those is listed first.
LEMMA FirstIsOneOfThem ==
    ASSUME NEW s \in Seq(Model), NEW best, best \cap Elements(s) # {}
    PROVE  \E i \in 1..Len(s) : s[i] \in best /\ \A j \in 1..(i-1) : s[j] \notin best
<1> DEFINE Positions == 1..Len(s)
           places == {i \in Positions : s[i] \in best}
           Later == {r \in Positions \X Positions : r[2] < r[1]}
<1>1. Len(s) \in Nat /\ Positions \subseteq Nat /\ IsFiniteSet(Positions)
  BY FS_Interval
<1>. places # {}
  BY DEF Elements
<1>. places \subseteq Positions
  OBVIOUS
<1>2. IsFiniteSet(places)
  BY <1>1, FS_Subset
<1>3. \A i, j \in places : <<i, j>> \in Later <=> j < i
  BY <1>1
<1>4. PICK i \in places : \A j \in places : <<i, j>> \notin Later
  <2>1. \A x \in places : <<x, x>> \notin Later
    BY <1>1, <1>3
  <2>2. \A x, y, z \in places :
            <<x, y>> \in Later /\ <<y, z>> \in Later => <<x, z>> \in Later
    BY <1>1, <1>3
  <2> HIDE DEF places, Later
  <2> QED BY <1>1, <1>2, <2>1, <2>2, Maximal
<1>5. ASSUME NEW j \in 1..(i-1) PROVE s[j] \notin best
  <2>1. j \in Positions /\ j < i
    BY <1>1
  <2>2. j \notin places
    <3> HIDE DEF places, Later, Positions
    <3> QED BY <2>1, <1>3, <1>4
  <2> QED BY <2>1, <2>2
<1> QED BY <1>5

-----------------------------------------------------------------------------
(* The orders the heuristics rank by *)

Size(m) == IF m.param = NoParam THEN 0 ELSE m.param

\* The key of max in select_openrouter_model: size, version, name.
LEMMA CapabilityOrder ==
    ASSUME NEW m \in Model, NEW n \in Model
    PROVE  Below(Capability(m), Capability(n)) <=>
             \/ Size(m) < Size(n)
             \/ Size(m) = Size(n) /\ m.version < n.version
             \/ Size(m) = Size(n) /\ m.version = n.version /\ m.id < n.id
<1> DEFINE a == Capability(m)
           b == Capability(n)
<1>1. a = <<Size(m), m.version, m.id>> /\ b = <<Size(n), n.version, n.id>>
  BY DEF Capability, Size
<1> HIDE DEF a, b
<1>2. Below(a, b) <=> \E i \in 1..3 : a[i] < b[i] /\ \A j \in 1..(i-1) : a[j] = b[j]
  BY <1>1 DEF Below
<1>3. Below(a, b) <=>
        \/ a[1] < b[1]
        \/ a[1] = b[1] /\ a[2] < b[2]
        \/ a[1] = b[1] /\ a[2] = b[2] /\ a[3] < b[3]
  BY <1>2
<1> QED BY <1>1, <1>3 DEF a, b

\* The key of max in select_gemini_model: version, name.
LEMMA VersionOrder ==
    ASSUME NEW m \in Model, NEW n \in Model
    PROVE  Below(<<m.version, m.id>>, <<n.version, n.id>>) <=>
             m.version < n.version \/ (m.version = n.version /\ m.id < n.id)
<1> DEFINE a == <<m.version, m.id>>
           b == <<n.version, n.id>>
<1>1. Below(a, b) <=> \E i \in 1..2 : a[i] < b[i] /\ \A j \in 1..(i-1) : a[j] = b[j]
  BY DEF Below
<1>2. Below(a, b) <=> a[1] < b[1] \/ (a[1] = b[1] /\ a[2] < b[2])
  <2> HIDE DEF a, b
  <2> QED BY <1>1
<1> QED BY <1>2

\* The key of min in select_openrouter_model: size, or infinity; then the version.
Worse(m, n) == Smaller(n, m) \/ (~Smaller(m, n) /\ m.version < n.version)

-----------------------------------------------------------------------------
(* Something fits, so something is best *)

LEMMA TierIsNotEmpty ==
    ASSUME NEW P \in SUBSET Model, IsFiniteSet(P), P # {}
    PROVE  Tier(P) # {} /\ Tier(P) \subseteq P
<1> DEFINE R == {r \in P \X P : r[2].price < r[1].price}
<1>1. \A x, y \in P : <<x, y>> \in R <=> y.price < x.price
  OBVIOUS
<1>2. \A x \in P : x.price \in Nat
  BY DEF Model
<1>3. \E x \in P : \A y \in P : <<x, y>> \notin R
  <2>1. \A x \in P : <<x, x>> \notin R
    BY <1>1, <1>2
  <2>2. \A x, y, z \in P : <<x, y>> \in R /\ <<y, z>> \in R => <<x, z>> \in R
    BY <1>1, <1>2
  <2> HIDE DEF R
  <2> QED BY <2>1, <2>2, Maximal
<1>4. \E x \in P : \A y \in P : x.price <= y.price
  <2> HIDE DEF R
  <2>1. PICK x \in P : \A y \in P : <<x, y>> \notin R
    BY <1>3
  <2>2. ASSUME NEW y \in P PROVE x.price <= y.price
    <3>1. x.price \in Nat /\ y.price \in Nat
      BY <1>2
    <3>2. ~(y.price < x.price)
      BY <1>1, <2>1
    <3> QED BY <3>1, <3>2
  <2> QED BY <2>2
<1> QED BY <1>4 DEF Tier, Or

LEMMA MostCapableIsNotEmpty ==
    ASSUME NEW P \in SUBSET Model, IsFiniteSet(P), P # {}
    PROVE  MostCapable(P) # {} /\ MostCapable(P) \subseteq P
<1> DEFINE R == {r \in P \X P : Below(Capability(r[1]), Capability(r[2]))}
<1>1. \A x, y \in P : <<x, y>> \in R <=> Below(Capability(x), Capability(y))
  OBVIOUS
<1>2. \A x \in P : Size(x) \in Nat /\ x.version \in Nat /\ x.id \in Nat
  BY DEF Model, Size, NoParam
<1>3. \A x, y \in P : <<x, y>> \in R <=>
        \/ Size(x) < Size(y)
        \/ Size(x) = Size(y) /\ x.version < y.version
        \/ Size(x) = Size(y) /\ x.version = y.version /\ x.id < y.id
  BY <1>1, CapabilityOrder
<1>4. \E x \in P : \A y \in P : <<x, y>> \notin R
  <2> HIDE DEF R
  <2>1. \A x \in P : <<x, x>> \notin R
    BY <1>2, <1>3
  <2>2. \A x, y, z \in P : <<x, y>> \in R /\ <<y, z>> \in R => <<x, z>> \in R
    BY <1>2, <1>3
  <2> QED BY <2>1, <2>2, Maximal
<1> QED BY <1>1, <1>4 DEF MostCapable

LEMMA SmallestIsNotEmpty ==
    ASSUME NEW P \in SUBSET Model, IsFiniteSet(P), P # {}
    PROVE  Smallest(P) # {} /\ Smallest(P) \subseteq P
<1> DEFINE solid == Or({m \in P : Solid(m)}, P)
           R == {r \in solid \X solid : Worse(r[1], r[2])}
<1>1. solid \subseteq P /\ solid # {}
  BY DEF Or
<1>2. IsFiniteSet(solid)
  BY <1>1, FS_Subset
<1>3. \A x, y \in solid : <<x, y>> \in R <=> Worse(x, y)
  OBVIOUS
<1>4. \A x \in solid : x.version \in Nat /\ x.param \in Int
  BY <1>1 DEF Model, NoParam
<1>5. \E x \in solid : \A y \in solid : <<x, y>> \notin R
  <2> HIDE DEF solid
  <2>1. \A x \in solid : <<x, x>> \notin R
    BY <1>3, <1>4 DEF Worse, Smaller
  <2>2. \A x, y, z \in solid : <<x, y>> \in R /\ <<y, z>> \in R => <<x, z>> \in R
    BY <1>3, <1>4 DEF Worse, Smaller
  <2> HIDE DEF R
  <2> QED BY <1>1, <1>2, <2>1, <2>2, Maximal
<1>6. \A x, y \in solid : ~Worse(x, y) => ~Smaller(y, x) /\ (Smaller(x, y) \/ y.version <= x.version)
  <2> HIDE DEF solid
  <2> QED BY <1>4 DEF Worse
<1> QED BY <1>1, <1>3, <1>5, <1>6 DEF Smallest

LEMMA LatestIsNotEmpty ==
    ASSUME NEW P \in SUBSET Model, IsFiniteSet(P), P # {}
    PROVE  Latest(P) # {} /\ Latest(P) \subseteq P
<1> DEFINE R == {r \in P \X P : Below(<<r[1].version, r[1].id>>, <<r[2].version, r[2].id>>)}
<1>1. \A x, y \in P : <<x, y>> \in R <=> Below(<<x.version, x.id>>, <<y.version, y.id>>)
  OBVIOUS
<1>2. \A x \in P : x.version \in Nat /\ x.id \in Nat
  BY DEF Model
<1>3. \A x, y \in P : <<x, y>> \in R <=>
        x.version < y.version \/ (x.version = y.version /\ x.id < y.id)
  BY <1>1, VersionOrder
<1>4. \E x \in P : \A y \in P : <<x, y>> \notin R
  <2> HIDE DEF R
  <2>1. \A x \in P : <<x, x>> \notin R
    BY <1>2, <1>3
  <2>2. \A x, y, z \in P : <<x, y>> \in R /\ <<y, z>> \in R => <<x, z>> \in R
    BY <1>2, <1>3
  <2> QED BY <2>1, <2>2, Maximal
<1> QED BY <1>1, <1>4 DEF Latest

\* Among models of which some are eligible there are best ones, and those are eligible.
LEMMA BestAreEligible ==
    ASSUME NEW M \in SUBSET Model, IsFiniteSet(M), Eligible(Parsed(M)) # {}
    PROVE  Best(M) # {} /\ Best(M) \subseteq Eligible(Parsed(M))
<1> DEFINE pool == Eligible(Parsed(M))
           family == Or({m \in pool : m.flash}, pool)
           kind == Or({m \in family : m.lite <=> Concise}, family)
<1>1. pool \subseteq M
  BY DEF Eligible, Parsed, Or
<1> HIDE DEF pool
<1>2. pool \in SUBSET Model /\ IsFiniteSet(pool) /\ pool # {}
  BY <1>1, FS_Subset DEF pool
<1>3. OpenRouterBest(pool) # {} /\ OpenRouterBest(pool) \subseteq pool
  <2>1. /\ Tier(pool) # {} /\ Tier(pool) \subseteq pool
        /\ Tier(pool) \in SUBSET Model /\ IsFiniteSet(Tier(pool))
    BY <1>2, TierIsNotEmpty, FS_Subset
  <2> QED BY <2>1, SmallestIsNotEmpty, MostCapableIsNotEmpty DEF OpenRouterBest
<1>4. GeminiBest(pool) # {} /\ GeminiBest(pool) \subseteq pool
  <2>1. family # {} /\ family \subseteq pool
    BY <1>2 DEF Or
  <2> HIDE DEF family
  <2>2. kind # {} /\ kind \subseteq family
    BY <2>1 DEF Or
  <2>3. kind \in SUBSET Model /\ IsFiniteSet(kind)
    BY <1>2, <2>1, <2>2, FS_Subset
  <2> HIDE DEF kind
  <2>4. Latest(kind) # {} /\ Latest(kind) \subseteq kind
    BY <2>2, <2>3, LatestIsNotEmpty
  <2> QED BY <2>1, <2>2, <2>4 DEF GeminiBest, family, kind
<1> QED BY <1>3, <1>4 DEF Best, pool

\* What is first in a catalog among the best of it.
LEMMA FirstIsAt ==
    ASSUME NEW s, NEW best, NEW k \in 1..Len(s), Len(s) \in Nat,
           s[k] \in best, \A j \in 1..(k-1) : s[j] \notin best
    PROVE  First(s, best) = s[k]
<1>1. ASSUME NEW i \in 1..Len(s), s[i] \in best, \A j \in 1..(i-1) : s[j] \notin best
      PROVE  i = k
  <2>1. ~(i < k) /\ ~(k < i)
    BY <1>1
  <2> QED BY <2>1
<1> QED BY <1>1, Zenon DEF First

\* What is chosen: the first of the best, whenever a model fits.
LEMMA ChoiceIsBest ==
    ASSUME NEW s \in Seq(Model)
    PROVE  LET M == Elements(s) IN
           /\ IsFiniteSet(M) /\ M \in SUBSET Model
           /\ ChoiceFrom(s) = {} <=> Eligible(Parsed(M)) = {}
           /\ \A c \in ChoiceFrom(s) :
                 \E k \in 1..Len(s) : /\ c = s[k] /\ s[k] \in Best(M)
                                     /\ \A j \in 1..(k-1) : s[j] \notin Best(M)
<1> DEFINE M == Elements(s)
<1>1. IsFiniteSet(M) /\ M \in SUBSET Model
  BY ElementsAreFinite
<1> HIDE DEF M
<1>2. CASE Eligible(Parsed(M)) = {}
  BY <1>1, <1>2 DEF ChoiceFrom, M
<1>3. CASE Eligible(Parsed(M)) # {}
  <2>1. Best(M) \cap M # {}
    BY <1>1, <1>3, BestAreEligible DEF Eligible, Parsed, Or
  <2>2. PICK k \in 1..Len(s) : s[k] \in Best(M) /\ \A j \in 1..(k-1) : s[j] \notin Best(M)
    BY <2>1, FirstIsOneOfThem DEF M
  <2>3. First(s, Best(M)) = s[k]
    BY <2>2, FirstIsAt
  <2>4. ChoiceFrom(s) = {s[k]}
    BY <1>3, <2>3 DEF ChoiceFrom, M
  <2> QED BY <1>1, <1>3, <2>2, <2>4 DEF M
<1> QED BY <1>2, <1>3

-----------------------------------------------------------------------------
(* Catalogs come and go *)

LEMMA DropKeepsType ==
    ASSUME TypeOK, NEW i \in 1..Len(catalog), Drop(i)
    PROVE  TypeOK'
<1>1. Len(catalog) - 1 \in Nat /\ catalog \in [1..Len(catalog) -> Model]
  BY DEF TypeOK
<1>2. catalog' \in [1..(Len(catalog) - 1) -> Model]
  BY <1>1 DEF Drop
<1> QED BY <1>1, <1>2 DEF TypeOK, Drop

LEMMA SwapKeepsType ==
    ASSUME TypeOK, NEW i \in 1..Len(catalog), Swap(i)
    PROVE  TypeOK'
<1>1. Len(catalog) \in Nat /\ catalog \in [1..Len(catalog) -> Model] /\ i+1 \in 1..Len(catalog)
  BY DEF TypeOK, Swap
<1>2. catalog' \in [1..Len(catalog) -> Model]
  BY <1>1 DEF Swap
<1> QED BY <1>1, <1>2 DEF TypeOK, Swap

\* A catalog stays a sequence of models (model_selector.py:98-160): TypeOK.
THEOREM RankingTypeCorrect == Spec => []TypeOK
<1>1. Init => TypeOK
  BY RankingAssumption DEF Init, TypeOK
<1>2. TypeOK /\ [Next]_vars => TypeOK'
  BY DropKeepsType, SwapKeepsType DEF Next, vars, TypeOK
<1> QED BY <1>1, <1>2, PTL DEF Spec

-----------------------------------------------------------------------------
(* The contract *)

\* The eligible models are the usable ones of one stability.
LEMMA EligibleAreRivals ==
    ASSUME NEW M \in SUBSET Model, NEW c \in Eligible(Parsed(M))
    PROVE  LET usable == {m \in M : m.text /\ Fits(m)} IN
           /\ c \in usable
           /\ c.stable \/ \A m \in usable : ~m.stable
           /\ {m \in usable : m.stable <=> c.stable} = Eligible(Parsed(M))
<1> DEFINE usable == {m \in M : m.text /\ Fits(m)}
<1>1. {m \in Parsed(M) : Fits(m)} = usable
  BY DEF Parsed
<1>2. Eligible(Parsed(M)) = Or({m \in usable : m.stable}, usable)
  BY <1>1 DEF Eligible
<1> HIDE DEF usable
<1>3. CASE {m \in usable : m.stable} = {}
  BY <1>2, <1>3 DEF Or, usable
<1>4. CASE {m \in usable : m.stable} # {}
  BY <1>2, <1>4 DEF Or, usable
<1> QED BY <1>3, <1>4 DEF usable

\* A tier is what costs as little as anything does.
LEMMA TierIsCheapest ==
    ASSUME NEW P \in SUBSET Model, NEW c \in Tier(P)
    PROVE  /\ \A m \in P : c.price <= m.price
           /\ {m \in P : m.price = c.price} = Tier(P)
<1>1. \A m \in P : m.price \in Nat
  BY DEF Model
<1>2. CASE {m \in P : m.price = 0} = {}
  BY <1>1, <1>2 DEF Tier, Or
<1>3. CASE {m \in P : m.price = 0} # {}
  BY <1>1, <1>3 DEF Tier, Or
<1> QED BY <1>2, <1>3

LEMMA SmallestIsSolid ==
    ASSUME NEW P \in SUBSET Model, NEW c \in Smallest(P), NEW m \in P, Solid(m)
    PROVE  /\ Solid(c) /\ ~Smaller(m, c)
           /\ m.param = c.param => m.version <= c.version
<1>1. Or({n \in P : Solid(n)}, P) = {n \in P : Solid(n)}
  BY DEF Or
<1>2. Solid(c) /\ ~Smaller(m, c) /\ (Smaller(c, m) \/ m.version <= c.version)
  BY <1>1 DEF Smallest
<1>3. c.param \in Int /\ m.param \in Int
  BY DEF Model, NoParam, Smallest, Or
<1> QED BY <1>2, <1>3 DEF Smaller

LEMMA MostCapableIsLargest ==
    ASSUME NEW P \in SUBSET Model, NEW c \in MostCapable(P), NEW m \in P
    PROVE  /\ m.param <= c.param
           /\ m.param = c.param => m.version <= c.version
<1>1. c \in Model /\ m \in Model /\ ~Below(Capability(c), Capability(m))
  BY DEF MostCapable
<1>2. ~(Size(c) < Size(m)) /\ ~(Size(c) = Size(m) /\ c.version < m.version)
  BY <1>1, CapabilityOrder
<1>3. /\ c.param \in (Nat \ {0}) \cup {-1} /\ m.param \in (Nat \ {0}) \cup {-1}
      /\ c.version \in Nat /\ m.version \in Nat
  BY <1>1 DEF Model, NoParam
<1> QED BY <1>2, <1>3 DEF Size, NoParam

LEMMA GeminiKeepsPromise ==
    ASSUME NEW P \in SUBSET Model, NEW c \in GeminiBest(P)
    PROVE  GeminiPromise(c, P)
<1> DEFINE family == Or({m \in P : m.flash}, P)
           kind == Or({m \in family : m.lite <=> Concise}, family)
           kin == {m \in P : m.flash <=> c.flash}
<1>1. c \in Latest(kind)
  BY DEF GeminiBest
<1>2. c \in kind /\ kind \subseteq family /\ family \subseteq P
  BY <1>1 DEF Latest, Or
<1>3. (c.flash \/ \A m \in P : ~m.flash) /\ kin = family
  <2>1. c \in family
    BY <1>2
  <2>2. CASE {m \in P : m.flash} = {}
    BY <2>1, <2>2 DEF Or
  <2>3. CASE {m \in P : m.flash} # {}
    BY <2>1, <2>3 DEF Or
  <2> QED BY <2>2, <2>3
<1> HIDE DEF family, kin
<1>4. /\ (c.lite <=> Concise) \/ \A m \in family : ~(m.lite <=> Concise)
      /\ \A m \in family : (m.lite <=> c.lite) => m \in kind
  <2>2. CASE {m \in family : m.lite <=> Concise} = {}
    BY <1>2, <2>2 DEF Or
  <2>3. CASE {m \in family : m.lite <=> Concise} # {}
    BY <1>2, <2>3 DEF Or
  <2> QED BY <2>2, <2>3
<1> HIDE DEF kind
<1>5. ASSUME NEW m \in kind PROVE m.version <= c.version
  <2>1. c \in Model /\ m \in Model /\ ~Below(<<c.version, c.id>>, <<m.version, m.id>>)
    BY <1>1, <1>2, <1>5 DEF Latest
  <2>2. ~(c.version < m.version) /\ c.version \in Nat /\ m.version \in Nat
    BY <2>1, VersionOrder DEF Model
  <2> QED BY <2>2
<1> QED BY <1>3, <1>4, <1>5 DEF kin, GeminiPromise

LEMMA OpenRouterKeepsPromise ==
    ASSUME NEW P \in SUBSET Model, NEW c \in OpenRouterBest(P)
    PROVE  OpenRouterPromise(c, P)
<1>1. Tier(P) \subseteq P
  BY DEF Tier, Or
<1>2. c \in Tier(P)
  BY DEF OpenRouterBest, Smallest, MostCapable, Or
<1>3. (\A m \in P : c.price <= m.price) /\ {m \in P : m.price = c.price} = Tier(P)
  BY <1>2, TierIsCheapest
<1>4. CASE Concise
  <2>1. c \in Smallest(Tier(P))
    BY <1>4 DEF OpenRouterBest
  <2>2. \A m \in Tier(P) : Solid(m) =>
            /\ Solid(c) /\ ~Smaller(m, c)
            /\ m.param = c.param => m.version <= c.version
    BY <1>1, <2>1, SmallestIsSolid
  <2> QED BY <1>3, <1>4, <2>2 DEF OpenRouterPromise
<1>5. CASE ~Concise
  <2>1. c \in MostCapable(Tier(P))
    BY <1>5 DEF OpenRouterBest
  <2>2. \A m \in Tier(P) :
            m.param <= c.param /\ (m.param = c.param => m.version <= c.version)
    BY <1>1, <2>1, MostCapableIsLargest
  <2> QED BY <1>3, <1>5, <2>2 DEF OpenRouterPromise
<1> QED BY <1>4, <1>5

\* Whatever the catalog, the choice is the one the documentation of the heuristics
\* promises (model_selector.py:6-29, 162-230): MeetsContract.
THEOREM ContractIsMet == Spec => []MeetsContract
<1>1. ASSUME TypeOK PROVE MeetsContract
  <2> DEFINE M == Elements(catalog)
             usable == {m \in M : m.text /\ Fits(m)}
             pool == Eligible(Parsed(M))
  <2>1. /\ IsFiniteSet(M) /\ M \in SUBSET Model
        /\ Choice = {} <=> pool = {}
        /\ \A c \in Choice : c \in Best(M)
    BY <1>1, ChoiceIsBest DEF TypeOK, Choice
  <2>2. pool = {} <=> usable = {}
    BY DEF Eligible, Parsed, Or
  <2>3. ASSUME NEW c \in Choice
        PROVE  /\ c \in pool
               /\ provider = "openrouter" => c \in OpenRouterBest(pool)
               /\ provider = "gemini" => c \in GeminiBest(pool)
    BY <2>1, <2>3, BestAreEligible DEF Best
  <2>4. pool \in SUBSET Model
    BY <2>1 DEF Eligible, Parsed, Or
  <2> HIDE DEF M, pool
  <2>5. ASSUME NEW c \in Choice
        PROVE  /\ c \in usable
               /\ c.stable \/ \A m \in usable : ~m.stable
               /\ {m \in usable : m.stable <=> c.stable} = pool
    BY <2>1, <2>3, EligibleAreRivals DEF pool
  <2> HIDE DEF usable
  <2>6. ASSUME NEW c \in Choice
        PROVE  /\ provider = "openrouter" => OpenRouterPromise(c, pool)
               /\ provider = "gemini" => GeminiPromise(c, pool)
    BY <2>3, <2>4, <2>6, OpenRouterKeepsPromise, GeminiKeepsPromise
  <2> QED BY <2>1, <2>2, <2>5, <2>6, Zenon DEF MeetsContract, M, usable
<1> QED BY <1>1, RankingTypeCorrect, PTL

-----------------------------------------------------------------------------
(* What is best of many is best of fewer *)

LEMMA EligibleOfFewer ==
    ASSUME NEW S \in SUBSET Model, NEW T \in SUBSET S,
           NEW c \in Eligible(Parsed(S)), c \in T
    PROVE  c \in Eligible(Parsed(T)) /\ Eligible(Parsed(T)) \subseteq Eligible(Parsed(S))
  BY DEF Eligible, Parsed, Or

LEMMA TierOfFewer ==
    ASSUME NEW S \in SUBSET Model, NEW T \in SUBSET S, NEW c \in Tier(S), c \in T
    PROVE  c \in Tier(T) /\ Tier(T) \subseteq Tier(S)
<1>1. \A m \in S : m.price \in Nat
  BY DEF Model
<1>2. (\A m \in S : c.price <= m.price) /\ {m \in S : m.price = c.price} = Tier(S)
  BY TierIsCheapest
<1>3. {m \in T : m.price = c.price} = Tier(T)
  BY <1>1, <1>2 DEF Tier, Or
<1> QED BY <1>2, <1>3

LEMMA MostCapableOfFewer ==
    ASSUME NEW S \in SUBSET Model, NEW T \in SUBSET S, NEW c \in MostCapable(S), c \in T
    PROVE  c \in MostCapable(T) /\ MostCapable(T) \subseteq MostCapable(S)
<1>1. c \in MostCapable(T)
  BY DEF MostCapable
<1>2. ASSUME NEW d \in MostCapable(T), NEW n \in S, Below(Capability(d), Capability(n))
      PROVE  FALSE
  <2>1. ~Below(Capability(c), Capability(n)) /\ ~Below(Capability(d), Capability(c))
    BY <1>2 DEF MostCapable
  <2>2. \A x \in S : Size(x) \in Nat /\ x.version \in Nat /\ x.id \in Nat
    BY DEF Model, Size, NoParam
  <2>3. c \in Model /\ d \in Model /\ n \in Model /\ c \in S /\ d \in S
    BY DEF MostCapable
  <2> QED BY <1>2, <2>1, <2>2, <2>3, CapabilityOrder
<1> QED BY <1>1, <1>2 DEF MostCapable

LEMMA LatestOfFewer ==
    ASSUME NEW S \in SUBSET Model, NEW T \in SUBSET S, NEW c \in Latest(S), c \in T
    PROVE  c \in Latest(T) /\ Latest(T) \subseteq Latest(S)
<1>1. c \in Latest(T)
  BY DEF Latest
<1>2. ASSUME NEW d \in Latest(T), NEW n \in S,
             Below(<<d.version, d.id>>, <<n.version, n.id>>)
      PROVE  FALSE
  <2>1. /\ ~Below(<<c.version, c.id>>, <<n.version, n.id>>)
        /\ ~Below(<<d.version, d.id>>, <<c.version, c.id>>)
    BY <1>2 DEF Latest
  <2>2. \A x \in S : x.version \in Nat /\ x.id \in Nat
    BY DEF Model
  <2>3. c \in Model /\ d \in Model /\ n \in Model /\ c \in S /\ d \in S
    BY DEF Latest
  <2> QED BY <1>2, <2>1, <2>2, <2>3, VersionOrder
<1> QED BY <1>1, <1>2 DEF Latest

LEMMA SmallestOfFewer ==
    ASSUME NEW S \in SUBSET Model, NEW T \in SUBSET S, NEW c \in Smallest(S), c \in T
    PROVE  c \in Smallest(T) /\ Smallest(T) \subseteq Smallest(S)
<1> DEFINE solidS == Or({m \in S : Solid(m)}, S)
           solidT == Or({m \in T : Solid(m)}, T)
<1>1. c \in solidT /\ solidT \subseteq solidS /\ solidS \subseteq S
  BY DEF Smallest, Or
<1>2. /\ Smallest(S) = {m \in solidS : \A n \in solidS :
                            ~Smaller(n, m) /\ (Smaller(m, n) \/ n.version <= m.version)}
      /\ Smallest(T) = {m \in solidT : \A n \in solidT :
                            ~Smaller(n, m) /\ (Smaller(m, n) \/ n.version <= m.version)}
  BY DEF Smallest
<1> HIDE DEF solidS, solidT
<1>3. c \in Smallest(T)
  BY <1>1, <1>2
<1>4. ASSUME NEW d \in Smallest(T), NEW n \in solidS
      PROVE  ~Smaller(n, d) /\ (Smaller(d, n) \/ n.version <= d.version)
  <2>1. /\ ~Smaller(n, c) /\ (Smaller(c, n) \/ n.version <= c.version)
        /\ ~Smaller(c, d) /\ (Smaller(d, c) \/ c.version <= d.version)
    BY <1>1, <1>2, <1>4
  <2>2. /\ c.param \in Int /\ d.param \in Int /\ n.param \in Int
        /\ c.version \in Nat /\ d.version \in Nat /\ n.version \in Nat
    BY <1>1, <1>2, <1>4 DEF Model, NoParam
  <2> QED BY <2>1, <2>2 DEF Smaller
<1> QED BY <1>1, <1>2, <1>3, <1>4

LEMMA GeminiBestOfFewer ==
    ASSUME NEW S \in SUBSET Model, NEW T \in SUBSET S, NEW c \in GeminiBest(S), c \in T
    PROVE  c \in GeminiBest(T) /\ GeminiBest(T) \subseteq GeminiBest(S)
<1> DEFINE Flash(P) == Or({m \in P : m.flash}, P)
           Kind(P) == Or({m \in P : m.lite <=> Concise}, P)
<1>1. GeminiBest(S) = Latest(Kind(Flash(S))) /\ GeminiBest(T) = Latest(Kind(Flash(T)))
  BY DEF GeminiBest
<1>2. c \in Kind(Flash(S)) /\ c \in Flash(S) /\ Kind(Flash(S)) \subseteq S
  BY <1>1 DEF Latest, Or
<1>3. c \in Flash(T) /\ Flash(T) \subseteq Flash(S)
  BY <1>2 DEF Or
<1>4. c \in Kind(Flash(T)) /\ Kind(Flash(T)) \subseteq Kind(Flash(S))
  <2> HIDE DEF Flash
  <2> QED BY <1>2, <1>3 DEF Or
<1>5. Kind(Flash(S)) \in SUBSET Model /\ c \in Latest(Kind(Flash(S)))
  BY <1>1, <1>2
<1> HIDE DEF Kind, Flash
<1> QED BY <1>1, <1>4, <1>5, LatestOfFewer

\* The heuristics ignore what they would not choose: without other models, what was
\* best is best, and nothing else becomes so.
LEMMA BestOfFewer ==
    ASSUME NEW S \in SUBSET Model, NEW T \in SUBSET S, NEW c \in Best(S), c \in T,
           c \in Eligible(Parsed(S))
    PROVE  c \in Best(T) /\ Best(T) \subseteq Best(S)
<1> DEFINE P == Eligible(Parsed(S))
           Q == Eligible(Parsed(T))
<1>1. P \subseteq Model /\ c \in Q /\ Q \subseteq P
  <2>1. P \subseteq Model
    BY DEF Eligible, Parsed, Or
  <2> QED BY <2>1, EligibleOfFewer
<1> HIDE DEF P, Q
<1>2. ASSUME c \in OpenRouterBest(P)
      PROVE  c \in OpenRouterBest(Q) /\ OpenRouterBest(Q) \subseteq OpenRouterBest(P)
  <2>1. c \in Tier(P) /\ Tier(P) \subseteq Model
    BY <1>1, <1>2 DEF OpenRouterBest, Smallest, MostCapable, Tier, Or
  <2>2. c \in Tier(Q) /\ Tier(Q) \subseteq Tier(P)
    BY <1>1, <2>1, TierOfFewer
  <2> QED BY <1>2, <2>1, <2>2, SmallestOfFewer, MostCapableOfFewer DEF OpenRouterBest
<1>3. ASSUME c \in GeminiBest(P)
      PROVE  c \in GeminiBest(Q) /\ GeminiBest(Q) \subseteq GeminiBest(P)
  BY <1>1, <1>3, GeminiBestOfFewer
<1> QED BY <1>2, <1>3 DEF Best, P, Q

-----------------------------------------------------------------------------
(* A selection is not disturbed by other models *)

\* A catalog lists a name once.
NamesOnce(s) == \A i, j \in 1..Len(s) : s[i].id = s[j].id => i = j

\* Best models that are not the same one are equal in what the heuristic ranks by,
\* and that only happens where the name is not part of the key.
LEMMA EqualsAtTheTop ==
    ASSUME NEW M \in SUBSET Model, \A m, n \in M : m.id = n.id => m = n,
           provider \in {"openrouter", "gemini"},
           NEW c \in Best(M), NEW d \in Best(M)
    PROVE  \/ d = c
           \/ /\ provider = "openrouter" /\ Concise
              /\ <<d.price, d.param, d.version>> = <<c.price, c.param, c.version>>
<1> DEFINE P == Eligible(Parsed(M))
<1>1. P \subseteq M /\ P \in SUBSET Model
  BY DEF Eligible, Parsed, Or
<1>2. \A m, n \in P : m.id = n.id => m = n
  BY <1>1
<1>3. /\ provider = "openrouter" => c \in OpenRouterBest(P) /\ d \in OpenRouterBest(P)
      /\ provider = "gemini" => c \in GeminiBest(P) /\ d \in GeminiBest(P)
  BY DEF Best
<1> HIDE DEF P
<1>4. CASE provider = "openrouter" /\ Concise
  <2>1. c \in Smallest(Tier(P)) /\ d \in Smallest(Tier(P))
    BY <1>3, <1>4 DEF OpenRouterBest
  <2>2. c \in Tier(P) /\ d \in Tier(P) /\ c \in Model /\ d \in Model
    BY <1>1, <2>1 DEF Smallest, Tier, Or
  <2>3. d.price = c.price
    BY <1>1, <2>2, TierIsCheapest
  <2>4. /\ ~Smaller(d, c) /\ (Smaller(c, d) \/ d.version <= c.version)
        /\ ~Smaller(c, d) /\ (Smaller(d, c) \/ c.version <= d.version)
    BY <2>1 DEF Smallest
  <2>5. /\ c.param \in Int /\ d.param \in Int /\ c.version \in Nat /\ d.version \in Nat
    BY <2>2 DEF Model, NoParam
  <2>6. d.param = c.param /\ d.version = c.version
    BY <2>4, <2>5 DEF Smaller
  <2> QED BY <1>4, <2>3, <2>6
<1>5. CASE provider = "openrouter" /\ ~Concise
  <2>1. c \in MostCapable(Tier(P)) /\ d \in MostCapable(Tier(P))
    BY <1>3, <1>5 DEF OpenRouterBest
  <2>2. c \in P /\ d \in P /\ c \in Model /\ d \in Model
    BY <1>1, <2>1 DEF MostCapable, Tier, Or
  <2>3. ~Below(Capability(c), Capability(d)) /\ ~Below(Capability(d), Capability(c))
    BY <2>1 DEF MostCapable
  <2>4. /\ Size(c) \in Nat /\ c.version \in Nat /\ c.id \in Nat
        /\ Size(d) \in Nat /\ d.version \in Nat /\ d.id \in Nat
    BY <2>2 DEF Model, Size, NoParam
  <2>5. c.id = d.id
    BY <2>2, <2>3, <2>4, CapabilityOrder
  <2> QED BY <1>2, <2>2, <2>5
<1>6. CASE provider = "gemini"
  <2>1. PICK kind : kind \subseteq P /\ c \in Latest(kind) /\ d \in Latest(kind)
    BY <1>3, <1>6 DEF GeminiBest, Or
  <2>2. c \in P /\ d \in P /\ c \in Model /\ d \in Model
    BY <1>1, <2>1 DEF Latest
  <2>3. /\ ~Below(<<c.version, c.id>>, <<d.version, d.id>>)
        /\ ~Below(<<d.version, d.id>>, <<c.version, c.id>>)
    BY <2>1 DEF Latest
  <2>4. c.version \in Nat /\ c.id \in Nat /\ d.version \in Nat /\ d.id \in Nat
    BY <2>2 DEF Model
  <2>5. c.id = d.id
    BY <2>2, <2>3, <2>4, VersionOrder
  <2> QED BY <1>2, <2>2, <2>5
<1> QED BY <1>4, <1>5, <1>6

\* s without its i-th model, and s with that one and the next swapped.
Without(s, i) == [j \in 1..(Len(s) - 1) |-> IF j < i THEN s[j] ELSE s[j+1]]
Swapped(s, i) == [s EXCEPT ![i] = s[i+1], ![i+1] = s[i]]

LEMMA DropIsSteady ==
    ASSUME NEW s \in Seq(Model), NamesOnce(s), NEW i \in 1..Len(s),
           NEW c \in ChoiceFrom(s), c \in Elements(Without(s, i)),
           NEW d \in ChoiceFrom(Without(s, i))
    PROVE  d = c
<1>1. PICK n \in Nat : n = Len(s)
  OBVIOUS
<1>2. PICK t : t = Without(s, i)
  OBVIOUS
<1>3. /\ t \in Seq(Model) /\ Len(t) = n - 1 /\ i \in 1..n
      /\ \A j \in 1..(n-1) : t[j] = IF j < i THEN s[j] ELSE s[j+1]
  <2>1. t \in [1..(n-1) -> Model] /\ n - 1 \in Nat
    BY <1>1, <1>2 DEF Without
  <2> QED BY <1>1, <1>2, <2>1 DEF Without
<1>4. PICK S, T : S = Elements(s) /\ T = Elements(t)
  OBVIOUS
<1>5. S \in SUBSET Model /\ T \in SUBSET S /\ c \in T
  <2>1. T \subseteq S
    BY <1>1, <1>3, <1>4 DEF Elements
  <2> QED BY <1>2, <1>4, <2>1, ElementsAreFinite
<1>6. PICK k \in 1..n : /\ c = s[k] /\ s[k] \in Best(S)
                        /\ \A j \in 1..(k-1) : s[j] \notin Best(S)
  BY <1>1, <1>4, ChoiceIsBest
<1>7. c \in Best(T) /\ Best(T) \subseteq Best(S)
  <2>1. Eligible(Parsed(S)) # {} /\ IsFiniteSet(S)
    BY <1>4, ChoiceIsBest
  <2>2. c \in Eligible(Parsed(S))
    BY <1>5, <1>6, <2>1, BestAreEligible
  <2> QED BY <1>5, <1>6, <2>2, BestOfFewer
<1>8. k # i
  <2>1. PICK j \in 1..(n-1) : t[j] = c
    BY <1>3, <1>4, <1>5 DEF Elements
  <2>2. PICK l \in 1..n : s[l] = c /\ l # i
    <3>1. CASE j < i
      <4>1. j \in 1..n /\ j # i /\ s[j] = c
        BY <1>3, <2>1, <3>1
      <4> QED BY <4>1
    <3>2. CASE ~(j < i)
      <4>1. j+1 \in 1..n /\ j+1 # i /\ s[j+1] = c
        BY <1>3, <2>1, <3>2
      <4> QED BY <4>1
    <3> QED BY <3>1, <3>2
  <2> QED BY <1>1, <1>6, <2>2 DEF NamesOnce
<1>9. PICK q \in 1..(n-1) : q = IF k < i THEN k ELSE k - 1
  BY <1>1, <1>3, <1>8
<1>10. t[q] = c /\ \A j \in 1..(q-1) : t[j] \notin Best(T)
  <2>1. t[q] = c
    BY <1>3, <1>6, <1>8, <1>9
  <2>2. ASSUME NEW j \in 1..(q-1) PROVE \E l \in 1..(k-1) : t[j] = s[l]
    <3>1. CASE j < i
      <4>1. j \in 1..(k-1) /\ t[j] = s[j]
        BY <1>3, <1>8, <1>9, <3>1
      <4> QED BY <4>1
    <3>2. CASE ~(j < i)
      <4>1. j+1 \in 1..(k-1) /\ t[j] = s[j+1]
        BY <1>3, <1>8, <1>9, <3>2
      <4> QED BY <4>1
    <3> QED BY <3>1, <3>2
  <2> QED BY <1>6, <1>7, <2>1, <2>2
<1>11. First(t, Best(T)) = c
  <2>1. q \in 1..Len(t) /\ Len(t) \in Nat
    BY <1>3, <1>9
  <2>2. First(t, Best(T)) = t[q]
    BY <1>7, <1>10, <2>1, FirstIsAt
  <2> QED BY <1>10, <2>2
<1> QED BY <1>2, <1>4, <1>11 DEF ChoiceFrom

LEMMA SwapIsSteady ==
    ASSUME NEW s \in Seq(Model), NamesOnce(s), NEW i \in 1..Len(s), i < Len(s),
           provider \in {"openrouter", "gemini"},
           NEW c \in ChoiceFrom(s), NEW d \in ChoiceFrom(Swapped(s, i))
    PROVE  /\ Len(Swapped(s, i)) = Len(s)
           /\ \/ d = c
              \/ /\ provider = "openrouter" /\ Concise
                 /\ <<d.price, d.param, d.version>> = <<c.price, c.param, c.version>>
<1>1. PICK t : t = Swapped(s, i)
  OBVIOUS
<1>2. /\ t \in Seq(Model) /\ Len(t) = Len(s) /\ i+1 \in 1..Len(s) /\ Len(s) \in Nat
      /\ \A j \in 1..Len(s) : t[j] = IF j = i THEN s[i+1] ELSE IF j = i+1 THEN s[i] ELSE s[j]
  <2>1. i+1 \in 1..Len(s) /\ Len(s) \in Nat /\ s \in [1..Len(s) -> Model]
    OBVIOUS
  <2>2. t \in [1..Len(s) -> Model]
    BY <1>1, <2>1 DEF Swapped
  <2> QED BY <1>1, <2>1, <2>2 DEF Swapped
<1>3. PICK M : M = Elements(s)
  OBVIOUS
<1>4. Elements(t) = M
  BY <1>2, <1>3 DEF Elements
<1>5. M \in SUBSET Model /\ c \in Best(M) /\ d \in Best(M)
  BY <1>1, <1>2, <1>3, <1>4, ChoiceIsBest
<1>6. \A m, n \in M : m.id = n.id => m = n
  BY <1>3 DEF NamesOnce, Elements
<1> QED BY <1>1, <1>2, <1>5, <1>6, EqualsAtTheTop

\* The ranking depends on the catalog alone, as long as the mode and the limits stay.
LEMMA RankingStays ==
    ASSUME UNCHANGED <<provider, mode, cap, grounded>>, NEW s, s = catalog'
    PROVE  Choice' = ChoiceFrom(s)
<1>1. ASSUME NEW m PROVE Fits(m)' <=> Fits(m)
  BY DEF Fits, OutputTokens
<1>2. Concise' <=> Concise
  BY DEF Concise
<1>3. ASSUME NEW M PROVE Eligible(M)' = Eligible(M)
  BY <1>1 DEF Eligible
<1>4. ASSUME NEW M PROVE OpenRouterBest(M)' = OpenRouterBest(M)
  BY <1>2 DEF OpenRouterBest
<1>5. ASSUME NEW M PROVE GeminiBest(M)' = GeminiBest(M)
  BY <1>2 DEF GeminiBest
<1>6. ASSUME NEW M PROVE Best(M)' = Best(M)
  BY <1>3, <1>4, <1>5 DEF Best
<1> QED BY <1>3, <1>6 DEF Choice, ChoiceFrom

LEMMA NamesStayUnique ==
    ASSUME TypeOK, NamesOnce(catalog), [Next]_vars
    PROVE  NamesOnce(catalog)'
<1>1. ASSUME NEW i \in 1..Len(catalog), Drop(i)
      PROVE  NamesOnce(catalog)'
  BY <1>1 DEF TypeOK, Drop, NamesOnce
<1>2. ASSUME NEW i \in 1..Len(catalog), Swap(i)
      PROVE  NamesOnce(catalog)'
  BY <1>2 DEF TypeOK, Swap, NamesOnce
<1>3. CASE UNCHANGED vars
  BY <1>3 DEF vars, NamesOnce
<1> QED BY <1>1, <1>2, <1>3 DEF Next

\* If a catalog lists each name once, a model that leaves it or is denylisted, and the
\* order of the catalog, do not move the selection away from a model that is still
\* offered (model_selector.py:173-230): ChoiceIsSteady.
THEOREM SelectionIsSteady ==
    ASSUME \A s \in Catalogs : NamesOnce(s)
    PROVE  Spec => ChoiceIsSteady
<1> DEFINE Inv == TypeOK /\ NamesOnce(catalog)
           Steady == \A c \in Choice : c \in Elements(catalog') =>
                        \A d \in Choice' :
                            \/ d = c
                            \/ /\ provider = "openrouter" /\ Concise
                               /\ Len(catalog') = Len(catalog)
                               /\ <<d.price, d.param, d.version>> = <<c.price, c.param, c.version>>
<1>1. Spec => []Inv
  <2>1. Init => NamesOnce(catalog)
    BY DEF Init
  <2>2. Inv /\ [Next]_vars => NamesOnce(catalog)'
    BY NamesStayUnique
  <2> QED BY <2>1, <2>2, RankingTypeCorrect, PTL DEF Spec
<1>2. ASSUME Inv, [Next]_vars PROVE Steady \/ UNCHANGED vars
  <2>1. PICK s, t : s = catalog /\ t = catalog'
    OBVIOUS
  <2>2. /\ s \in Seq(Model) /\ NamesOnce(s) /\ Choice = ChoiceFrom(s)
        /\ provider \in {"openrouter", "gemini"}
    BY <1>2, <2>1 DEF TypeOK, Choice
  <2>3. ASSUME NEW i \in 1..Len(catalog), Drop(i) PROVE Steady
    <3>1. t = Without(s, i) /\ i \in 1..Len(s)
      BY <2>1, <2>3 DEF Drop, Without
    <3>2. Choice' = ChoiceFrom(t)
      BY <2>1, <2>3, RankingStays DEF Drop
    <3> QED BY <2>1, <2>2, <3>1, <3>2, DropIsSteady
  <2>4. ASSUME NEW i \in 1..Len(catalog), Swap(i) PROVE Steady
    <3>1. t = Swapped(s, i) /\ i \in 1..Len(s) /\ i < Len(s)
      BY <2>1, <2>4 DEF Swap, Swapped
    <3>2. Choice' = ChoiceFrom(t)
      BY <2>1, <2>4, RankingStays DEF Swap
    <3> QED BY <2>1, <2>2, <3>1, <3>2, SwapIsSteady
  <2> QED BY <1>2, <2>3, <2>4 DEF Next
<1> QED BY <1>1, <1>2, PTL DEF Spec, ChoiceIsSteady

=============================================================================
