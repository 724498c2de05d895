----------------------------- MODULE ModelRanking -----------------------------
(***************************************************************************)
(* How the selection ranks a catalog (app/services/model_selector.py):     *)
(* parse_*_catalog, _eligible, select_openrouter_model and                 *)
(* select_gemini_model.                                                    *)
(*                                                                         *)
(* A catalog is a sequence, as it came; what the regular expressions find  *)
(* in the name of a model is given with it, and id is the place of its     *)
(* name in alphabetical order.  A list comprehension of the code keeps the *)
(* order of the catalog, so it is the set of what it keeps: the order only *)
(* matters for which of equals is chosen.  The catalog changes as          *)
(* providers change it and as models are denylisted: others leave it, or   *)
(* are listed in another order.                                            *)
(***************************************************************************)
EXTENDS Integers, Sequences

CONSTANTS
    Catalogs,       \* the catalogs to start from: sequences of models
    Caps            \* the values of max_tokens, 0 for none

NoParam == -1       \* no size in the name
Model == [id : Nat, text : BOOLEAN, price : Nat, context : Nat, output : Nat,
          stable : BOOLEAN, param : (Nat \ {0}) \cup {NoParam}, version : Nat,
          thinking : BOOLEAN, flash : BOOLEAN, lite : BOOLEAN]

ASSUME RankingAssumption ==
    /\ Catalogs \subseteq Seq(Model)
    /\ Caps \subseteq Nat

VARIABLES provider, mode, cap, grounded, catalog

vars == <<provider, mode, cap, grounded, catalog>>

MinContextTokens == 8192
MinDirectParam == 3

\* Python's "a or b" on lists.
Or(a, b) == IF a # {} THEN a ELSE b

Elements(s) == {s[i] : i \in 1..Len(s)}

\* parse_*_catalog: text chat only; a limit of output tokens that OpenRouter does not
\* give is that of the context, one that Gemini does not give is 0.
Parsed(models) == {m \in models : m.text}
OutputTokens(m) == IF m.output = 0 /\ provider = "openrouter" THEN m.context ELSE m.output

Fits(m) == m.context >= MinContextTokens /\ (cap = 0 \/ OutputTokens(m) >= cap)

\* _eligible: unstable models only for want of a stable one.
Eligible(models) ==
    LET pool == {m \in models : Fits(m)}
    IN  Or({m \in pool : m.stable}, pool)

-----------------------------------------------------------------------------
(* select_openrouter_model *)

\* Mutant of Tier: with nothing free, any price will do.
TierPaid(pool) == Or({m \in pool : m.price = 0}, pool)

\* The free models, else those of the lowest price.
Tier(pool) ==
    Or({m \in pool : m.price = 0},
       {m \in pool : \A n \in pool : m.price <= n.price})

\* The lexicographic order of tuples.
Below(a, b) ==
    \E i \in 1..Len(a) : a[i] < b[i] /\ \A j \in 1..(i-1) : a[j] = b[j]

\* Mutant of Capability: the name does not count.
CapabilityUnnamed(m) == <<IF m.param = NoParam THEN 0 ELSE m.param, m.version, 0>>

Capability(m) == <<IF m.param = NoParam THEN 0 ELSE m.param, m.version, m.id>>

MostCapable(pool) == {m \in pool : \A n \in pool : ~Below(Capability(m), Capability(n))}

\* A model without a size in its name counts as larger than any other.
Smaller(m, n) ==
    /\ m.param # NoParam
    /\ n.param = NoParam \/ m.param < n.param

Solid(m) == (m.param = NoParam \/ m.param >= MinDirectParam) /\ ~m.thinking

\* The smallest of the solid models, the latest of the smallest.
Smallest(pool) ==
    LET solid == Or({m \in pool : Solid(m)}, pool)
    IN  {m \in solid : \A n \in solid :
            ~Smaller(n, m) /\ (Smaller(m, n) \/ n.version <= m.version)}

Concise == mode = "direct" /\ ~grounded

OpenRouterBest(pool) == IF Concise THEN Smallest(Tier(pool)) ELSE MostCapable(Tier(pool))

-----------------------------------------------------------------------------
(* select_gemini_model *)

Latest(pool) == {m \in pool : \A n \in pool : ~Below(<<m.version, m.id>>, <<n.version, n.id>>)}

GeminiBest(pool) ==
    LET family == Or({m \in pool : m.flash}, pool)
    IN  Latest(Or({m \in family : m.lite <=> Concise}, family))

-----------------------------------------------------------------------------

Best(models) ==
    LET pool == Eligible(Parsed(models))
    IN  IF provider = "openrouter" THEN OpenRouterBest(pool) ELSE GeminiBest(pool)

\* max(pool, key=...) and min(pool, key=...): the first of the extreme ones.
First(s, best) ==
    s[CHOOSE i \in 1..Len(s) : s[i] \in best /\ \A j \in 1..(i-1) : s[j] \notin best]

\* The model selected from a catalog, if any.
ChoiceFrom(s) ==
    IF Eligible(Parsed(Elements(s))) = {} THEN {} ELSE {First(s, Best(Elements(s)))}

Choice == ChoiceFrom(catalog)

-----------------------------------------------------------------------------
(* Catalogs come and go *)

Init ==
    /\ provider \in {"openrouter", "gemini"}
    /\ mode \in {"direct", "detailed"}
    /\ cap \in Caps
    /\ grounded \in BOOLEAN
    /\ catalog \in Catalogs

\* A model leaves the catalog, or _refresh leaves it out because it is denylisted.
Drop(i) ==
    /\ catalog' = [j \in 1..(Len(catalog) - 1) |-> IF j < i THEN catalog[j] ELSE catalog[j+1]]
    /\ UNCHANGED <<provider, mode, cap, grounded>>

\* The provider lists two neighbours the other way round.
Swap(i) ==
    /\ i < Len(catalog)
    /\ catalog' = [catalog EXCEPT ![i] = catalog[i+1], ![i+1] = catalog[i]]
    /\ UNCHANGED <<provider, mode, cap, grounded>>

Next == \E i \in 1..Len(catalog) : Drop(i) \/ Swap(i)

Spec == Init /\ [][Next]_vars

-----------------------------------------------------------------------------
(* Properties *)

TypeOK ==
    /\ provider \in {"openrouter", "gemini"}
    /\ mode \in {"direct", "detailed"}
    /\ cap \in Nat
    /\ grounded \in BOOLEAN
    /\ catalog \in Seq(Model)

\* What select_openrouter_model promises of its choice among eligible models: none is
\* cheaper, and of the same price none is larger (detailed, or with sources to put
\* together), or no solid one smaller (direct); then the version decides.
OpenRouterPromise(c, rivals) ==
    LET equals == {m \in rivals : m.price = c.price} IN
    /\ \A m \in rivals : c.price <= m.price
    /\ Concise => \A m \in equals : Solid(m) =>
          /\ Solid(c) /\ ~Smaller(m, c)
          /\ m.param = c.param => m.version <= c.version
    /\ ~Concise => \A m \in equals :
          /\ m.param <= c.param
          /\ m.param = c.param => m.version <= c.version

\* What select_gemini_model promises: the flash family, then the kind the mode asks
\* for, then the version decide.
GeminiPromise(c, rivals) ==
    LET kin == {m \in rivals : m.flash <=> c.flash} IN
    /\ c.flash \/ \A m \in rivals : ~m.flash
    /\ (c.lite <=> Concise) \/ \A m \in kin : ~(m.lite <=> Concise)
    /\ \A m \in kin : (m.lite <=> c.lite) => m.version <= c.version

\* The contract of the heuristics (model_selector.py:6-29, 52-54), said of the whole
\* catalog: a model is chosen whenever one fits, an unstable one only if no stable one
\* fits, and among the models of its stability it is the one the provider's heuristic
\* promises.
MeetsContract ==
    LET usable == {m \in Elements(catalog) : m.text /\ Fits(m)} IN
    /\ Choice = {} <=> usable = {}
    /\ \A c \in Choice :
          LET rivals == {m \in usable : m.stable <=> c.stable} IN
          /\ c \in usable
          /\ c.stable \/ \A m \in usable : ~m.stable
          /\ provider = "openrouter" => OpenRouterPromise(c, rivals)
          /\ provider = "gemini" => GeminiPromise(c, rivals)

\* A selection is not disturbed by other models: while the chosen one is offered, a
\* model that leaves or is denylisted does not change the choice, and neither does
\* the order of the catalog, but among models of the same price, size and version
\* in the direct mode of OpenRouter.
ChoiceIsSteady ==
    [][\A c \in Choice : c \in Elements(catalog') =>
         \A d \in Choice' :
            \/ d = c
            \/ /\ provider = "openrouter" /\ Concise
               /\ Len(catalog') = Len(catalog)
               /\ <<d.price, d.param, d.version>> = <<c.price, c.param, c.version>>]_vars

=============================================================================
