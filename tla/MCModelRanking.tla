---------------------------- MODULE MCModelRanking ----------------------------
(* The catalogs TLC checks ModelRanking with. *)
EXTENDS ModelRanking, FiniteSets

Plain == [id |-> 0, text |-> TRUE, price |-> 0, context |-> 8192, output |-> 0,
          stable |-> TRUE, param |-> 3, version |-> 1, thinking |-> FALSE,
          flash |-> FALSE, lite |-> FALSE]

\* Models that differ from the plain one where the heuristics look.
Offers ==
    LET Kinds ==
        << Plain,
           [Plain EXCEPT !.context = 8191],
           [Plain EXCEPT !.output = 256, !.param = 70, !.flash = TRUE],
           [Plain EXCEPT !.text = FALSE, !.param = 405],
           [Plain EXCEPT !.stable = FALSE, !.param = 405, !.flash = TRUE],
           [Plain EXCEPT !.param = NoParam, !.flash = TRUE, !.lite = TRUE],
           [Plain EXCEPT !.param = 1, !.version = 3, !.lite = TRUE],
           [Plain EXCEPT !.param = 70, !.thinking = TRUE],
           [Plain EXCEPT !.price = 1, !.version = 2, !.flash = TRUE],
           [Plain EXCEPT !.price = 2, !.stable = FALSE],
           [Plain EXCEPT !.price = 2, !.param = 70] >>
    IN  {[Kinds[k] EXCEPT !.id = k] : k \in 1..Len(Kinds)} \cup {[Plain EXCEPT !.id = 12]}

\* Every choice of three of them, in one order: swaps lead to the others.
Sorted(S) == [i \in 1..Cardinality(S) |->
                CHOOSE m \in S : Cardinality({n \in S : n.id < m.id}) = i - 1]
MCCatalogs == {Sorted(S) : S \in {T \in SUBSET Offers : Cardinality(T) = 3}}

=============================================================================
