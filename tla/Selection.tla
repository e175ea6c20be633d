----------------------------- MODULE Selection -----------------------------
(***************************************************************************)
(* What is left of a sequence when only some of its positions are kept,    *)
(* and a finite set in order.                                              *)
(***************************************************************************)
EXTENDS Naturals, Sequences, FiniteSets

RankIn(positions, i) == Cardinality({j \in positions : j <= i})
Nth(positions, n) == CHOOSE i \in positions : RankIn(positions, i) = n

\* The elements at the positions, in their order.
SelectAt(s, positions) == [n \in 1..Cardinality(positions) |-> s[Nth(positions, n)]]

\* A total order is the set of its pairs <<earlier, later>>.
Before(S, order, x) == {y \in S : <<y, x>> \in order}
Ordered(S, order) ==
    [n \in 1..Cardinality(S) |-> CHOOSE x \in S : Cardinality(Before(S, order, x)) = n - 1]
=============================================================================
