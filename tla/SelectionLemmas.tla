-------------------------- MODULE SelectionLemmas --------------------------
(***************************************************************************)
(* Lemmas that the proofs of several parts need: what is kept of a         *)
(* sequence, and induction on naturals for a predicate given as a set.     *)
(***************************************************************************)
EXTENDS Selection, FiniteSetsExt, FiniteSetTheorems, WellFoundedInduction, TLAPS

LEMMA LeastNatural ==
    ASSUME NEW G, G \subseteq Nat, G # {}
    PROVE  \E n \in G : \A m \in G : n <= m
<1> DEFINE Less == {pair \in Nat \X Nat : pair[1] < pair[2]}
<1>1. IsWellFoundedOn(Less, Nat)
    BY NatLessThanWellFounded DEF OpToRel
<1>2. \A m, n \in Nat : ~(<<m, n>> \in Less) => n <= m
    OBVIOUS
<1> HIDE DEF Less
<1>3. PICK n \in G : \A m \in G : ~(<<m, n>> \in Less)
    BY <1>1, WFMin
<1>4. ASSUME NEW m \in G PROVE n <= m
    <2>1. m \in Nat /\ n \in Nat
        OBVIOUS
    <2> QED BY <1>2, <1>3, <2>1
<1> QED BY <1>4

\* Induction over the naturals, for the set of those that have the property.
LEMMA EveryNatural ==
    ASSUME NEW G, 0 \in G, \A n \in Nat : n \in G => n + 1 \in G
    PROVE  \A n \in Nat : n \in G
<1> SUFFICES ASSUME NEW n \in Nat, n \notin G
             PROVE  FALSE
    OBVIOUS
<1> DEFINE Missing == {m \in Nat : m \notin G}
<1>1. PICK m \in Missing : \A o \in Missing : m <= o
    <2>1. Missing \subseteq Nat /\ n \in Missing
        OBVIOUS
    <2> HIDE DEF Missing
    <2> QED BY <2>1, LeastNatural
<1>2. m \in Nat /\ m \notin G /\ m # 0
    OBVIOUS
<1>3. m - 1 \in Nat /\ ~(m <= m - 1) /\ (m - 1) + 1 = m
    BY <1>2
<1>4. m - 1 \in G
    BY <1>1, <1>3
<1> QED BY <1>2, <1>3, <1>4

LEMMA GreatestNatural ==
    ASSUME NEW bound \in Nat, NEW S, S \subseteq 0..bound, S # {}
    PROVE  Max(S) \in S /\ \A x \in S : x <= Max(S)
<1> DEFINE Gaps == {bound - x : x \in S}
<1>1. \A x \in S : x \in Nat /\ bound - x \in Nat /\ bound - (bound - x) = x
    OBVIOUS
<1>2. Gaps \subseteq Nat /\ Gaps # {}
    BY <1>1
<1> HIDE DEF Gaps
<1>3. PICK gap \in Gaps : \A other \in Gaps : gap <= other
    BY <1>2, LeastNatural
<1>4. PICK x \in S : gap = bound - x
    BY <1>3 DEF Gaps
<1>5. ASSUME NEW y \in S PROVE x >= y
    <2>1. bound - y \in Gaps
        BY DEF Gaps
    <2>2. bound - x <= bound - y
        BY <1>3, <1>4, <2>1
    <2> QED BY <1>1, <2>2
<1>6. \E z \in S : \A y \in S : z >= y
    BY <1>5
<1>7. Max(S) \in S /\ \A y \in S : Max(S) >= y
    BY <1>6 DEF Max
<1> QED BY <1>1, <1>7

-----------------------------------------------------------------------------
\* Ranks number the positions in their order.
LEMMA RankFacts ==
    ASSUME NEW positions, positions \subseteq Nat, IsFiniteSet(positions)
    PROVE  /\ Cardinality(positions) \in Nat
           /\ \A i \in positions : RankIn(positions, i) \in 1..Cardinality(positions)
           /\ \A i, j \in positions : i < j => RankIn(positions, i) < RankIn(positions, j)
<1> DEFINE Upto(i) == {j \in positions : j <= i}
<1>1. \A i \in positions : IsFiniteSet(Upto(i)) /\ Cardinality(Upto(i)) \in Nat
                           /\ Cardinality(Upto(i)) <= Cardinality(positions)
    BY FS_Subset, FS_CardinalityType
<1>2. Cardinality(positions) \in Nat
    BY FS_CardinalityType
<1>3. ASSUME NEW i \in positions PROVE RankIn(positions, i) \in 1..Cardinality(positions)
    <2>1. i \in Upto(i)
        OBVIOUS
    <2>2. Cardinality(Upto(i)) # 0
        BY <1>1, <2>1, FS_EmptySet
    <2> QED BY <1>1, <1>2, <2>2 DEF RankIn
<1>4. ASSUME NEW i \in positions, NEW j \in positions, i < j
      PROVE  RankIn(positions, i) < RankIn(positions, j)
    <2>0. i \in Nat /\ j \in Nat /\ i < j
        BY <1>4
    <2>21. \A k \in positions : k <= i => k <= j
        <3> TAKE k \in positions
        <3>1. k \in Nat
            OBVIOUS
        <3> QED BY <2>0, <3>1
    <2>22. j <= j /\ ~(j <= i)
        BY <2>0
    <2>1. Upto(i) \subseteq Upto(j) /\ j \in Upto(j) /\ j \notin Upto(i)
        BY <2>21, <2>22, Zenon
    <2>2. /\ Cardinality(Upto(i)) <= Cardinality(Upto(j))
          /\ Cardinality(Upto(i)) = Cardinality(Upto(j)) => Upto(i) = Upto(j)
        BY <1>1, <2>1, FS_Subset
    <2>3. Cardinality(Upto(i)) # Cardinality(Upto(j))
        BY <2>1, <2>2
    <2>4. Cardinality(Upto(i)) \in Nat /\ Cardinality(Upto(j)) \in Nat
        BY <1>1
    <2>5. Cardinality(Upto(i)) < Cardinality(Upto(j))
        BY <2>2, <2>3, <2>4
    <2> QED BY <2>5 DEF RankIn
<1> QED BY <1>2, <1>3, <1>4

\* Ranks count the positions without a gap.
LEMMA NthFacts ==
    ASSUME NEW positions, positions \subseteq Nat, IsFiniteSet(positions)
    PROVE  /\ \A n \in 1..Cardinality(positions) :
                 Nth(positions, n) \in positions /\ RankIn(positions, Nth(positions, n)) = n
           /\ \A i \in positions : Nth(positions, RankIn(positions, i)) = i
<1> DEFINE N == 1..Cardinality(positions)
           rank == [i \in positions |-> RankIn(positions, i)]
<1>0. /\ Cardinality(positions) \in Nat
      /\ \A i \in positions : RankIn(positions, i) \in N
      /\ \A i, j \in positions : i < j => RankIn(positions, i) < RankIn(positions, j)
    BY RankFacts
<1>1. IsFiniteSet(N) /\ Cardinality(N) = Cardinality(positions)
    BY <1>0, FS_Interval
<1>2. \A i, j \in positions : RankIn(positions, i) = RankIn(positions, j) => i = j
    <2> SUFFICES ASSUME NEW i \in positions, NEW j \in positions, i # j
                 PROVE  RankIn(positions, i) # RankIn(positions, j)
        OBVIOUS
    <2>1. i < j \/ j < i
        OBVIOUS
    <2>2. RankIn(positions, i) \in Nat /\ RankIn(positions, j) \in Nat
        BY <1>0
    <2> QED BY <1>0, <2>1, <2>2
<1>3. ASSUME NEW n \in N PROVE \E i \in positions : RankIn(positions, i) = n
    <2> SUFFICES ASSUME \A i \in positions : RankIn(positions, i) # n PROVE FALSE
        OBVIOUS
    <2>1. rank \in [positions -> N \ {n}]
        BY <1>0
    <2>2. IsFiniteSet(N \ {n}) /\ Cardinality(N \ {n}) = Cardinality(N) - 1
        BY <1>1, FS_RemoveElement
    <2>3. Cardinality(N \ {n}) < Cardinality(positions)
        BY <1>0, <1>1, <2>2
    <2>4. PICK i \in positions, j \in positions : i # j /\ rank[i] = rank[j]
        <3> HIDE DEF rank, N
        <3> QED BY <2>1, <2>2, <2>3, FS_PigeonHole
    <2> QED BY <1>2, <2>4
<1>6. \A n \in N : Nth(positions, n) \in positions /\ RankIn(positions, Nth(positions, n)) = n
    BY <1>3 DEF Nth
<1> QED BY <1>0, <1>2, <1>6

\* What is kept keeps its order and its elements.
LEMMA SelectAtFacts ==
    ASSUME NEW S, NEW rows \in Seq(S), NEW positions \in SUBSET DOMAIN rows
    PROVE  LET t == SelectAt(rows, positions)
           IN  /\ t \in Seq(S) /\ Len(t) = Cardinality(positions) /\ DOMAIN t = 1..Len(t)
               /\ \A n \in DOMAIN t : Nth(positions, n) \in positions /\ t[n] = rows[Nth(positions, n)]
                                      /\ RankIn(positions, Nth(positions, n)) = n
               /\ \A i \in positions : RankIn(positions, i) \in DOMAIN t /\ t[RankIn(positions, i)] = rows[i]
<1>1. positions \subseteq Nat /\ IsFiniteSet(positions) /\ DOMAIN rows = 1..Len(rows)
    <2>1. IsFiniteSet(1..Len(rows)) /\ DOMAIN rows = 1..Len(rows)
        BY FS_Interval
    <2> QED BY <2>1, FS_Subset
<1>2. Cardinality(positions) \in Nat
    BY <1>1, RankFacts
<1>3. \A n \in 1..Cardinality(positions) : Nth(positions, n) \in positions
    BY <1>1, NthFacts
<1>4. \A n \in 1..Cardinality(positions) : rows[Nth(positions, n)] \in S
    BY <1>3
<1>5. SelectAt(rows, positions) \in Seq(S) /\ Len(SelectAt(rows, positions)) = Cardinality(positions)
      /\ DOMAIN SelectAt(rows, positions) = 1..Cardinality(positions)
    BY <1>2, <1>4 DEF SelectAt
<1> QED BY <1>1, <1>3, <1>5, RankFacts, NthFacts DEF SelectAt
-----------------------------------------------------------------------------
\* Nothing comes before itself, and of any two the one before the other.
Orders(order, S) ==
    /\ \A x \in S : <<x, x>> \notin order
    /\ \A x, y \in S : x # y => <<x, y>> \in order \/ <<y, x>> \in order
    /\ \A x, y, z \in S : <<x, y>> \in order /\ <<y, z>> \in order => <<x, z>> \in order

\* As many come before an element as its position says.
LEMMA BeforeFacts ==
    ASSUME NEW S, IsFiniteSet(S), NEW order, Orders(order, S)
    PROVE  /\ Cardinality(S) \in Nat
           /\ \A x \in S : Cardinality(Before(S, order, x)) \in 0..(Cardinality(S) - 1)
           /\ \A x, y \in S : <<x, y>> \in order =>
                 Cardinality(Before(S, order, x)) < Cardinality(Before(S, order, y))
<1>1. \A x \in S : /\ Before(S, order, x) \subseteq S /\ x \notin Before(S, order, x)
                   /\ IsFiniteSet(Before(S, order, x)) /\ Cardinality(Before(S, order, x)) \in Nat
    <2> TAKE x \in S
    <2>1. Before(S, order, x) \in SUBSET S /\ x \notin Before(S, order, x)
        BY DEF Before, Orders
    <2>2. IsFiniteSet(Before(S, order, x))
        BY <2>1, FS_Subset
    <2> QED BY <2>1, <2>2, FS_CardinalityType
<1>2. Cardinality(S) \in Nat
    BY FS_CardinalityType
<1>3. ASSUME NEW x \in S PROVE Cardinality(Before(S, order, x)) < Cardinality(S)
    <2>1. /\ Cardinality(Before(S, order, x)) <= Cardinality(S)
          /\ Cardinality(S) = Cardinality(Before(S, order, x)) => S = Before(S, order, x)
        BY <1>1, FS_Subset
    <2> QED BY <1>1, <1>2, <2>1
<1>4. ASSUME NEW x \in S, NEW y \in S, <<x, y>> \in order
      PROVE  Cardinality(Before(S, order, x)) < Cardinality(Before(S, order, y))
    <2>1. Before(S, order, x) \subseteq Before(S, order, y) /\ x \in Before(S, order, y)
        BY <1>4 DEF Before, Orders
    <2>2. /\ Cardinality(Before(S, order, x)) <= Cardinality(Before(S, order, y))
          /\ Cardinality(Before(S, order, y)) = Cardinality(Before(S, order, x))
                => Before(S, order, y) = Before(S, order, x)
        BY <1>1, <2>1, FS_Subset
    <2> QED BY <1>1, <2>1, <2>2
<1> QED BY <1>1, <1>2, <1>3, <1>4

\* A finite set in order: every element once, each before those it precedes.
LEMMA OrderedFacts ==
    ASSUME NEW S, IsFiniteSet(S), NEW order, Orders(order, S)
    PROVE  /\ Ordered(S, order) \in Seq(S) /\ Cardinality(S) \in Nat
           /\ Len(Ordered(S, order)) = Cardinality(S) /\ DOMAIN Ordered(S, order) = 1..Cardinality(S)
           /\ \A i, j \in 1..Cardinality(S) : i < j => <<Ordered(S, order)[i], Ordered(S, order)[j]>> \in order
           /\ \A x \in S : \E i \in 1..Cardinality(S) : Ordered(S, order)[i] = x
<1> DEFINE N == 0..(Cardinality(S) - 1)
           place == [x \in S |-> Cardinality(Before(S, order, x))]
<1>0. /\ Cardinality(S) \in Nat
      /\ \A x \in S : place[x] \in N
      /\ \A x, y \in S : <<x, y>> \in order => place[x] < place[y]
    BY BeforeFacts
<1>1. IsFiniteSet(N) /\ Cardinality(N) = Cardinality(S)
    BY <1>0, FS_Interval
<1>2. \A x, y \in S : place[x] = place[y] => x = y
    <2> SUFFICES ASSUME NEW x \in S, NEW y \in S, x # y PROVE place[x] # place[y]
        OBVIOUS
    <2>1. <<x, y>> \in order \/ <<y, x>> \in order
        BY DEF Orders
    <2>2. place[x] \in Nat /\ place[y] \in Nat
        BY <1>0
    <2>3. place[x] < place[y] \/ place[y] < place[x]
        BY <1>0, <2>1
    <2> QED BY <2>2, <2>3
<1>3. ASSUME NEW n \in N PROVE \E x \in S : place[x] = n
    <2> SUFFICES ASSUME \A x \in S : place[x] # n PROVE FALSE
        OBVIOUS
    <2>1. place \in [S -> N \ {n}]
        BY <1>0
    <2>2. IsFiniteSet(N \ {n}) /\ Cardinality(N \ {n}) = Cardinality(N) - 1
        BY <1>1, FS_RemoveElement
    <2>3. Cardinality(N \ {n}) < Cardinality(S)
        BY <1>0, <1>1, <2>2
    <2>4. PICK x \in S, y \in S : x # y /\ place[x] = place[y]
        <3> HIDE DEF place, N
        <3> QED BY <2>1, <2>2, <2>3, FS_PigeonHole
    <2> QED BY <1>2, <2>4
<1>4. \A x \in S : place[x] = Cardinality(Before(S, order, x))
    OBVIOUS
<1>5. \A n \in 1..Cardinality(S) : n - 1 \in N
    BY <1>0
<1> HIDE DEF place, N
<1> DEFINE s == Ordered(S, order)
<1>6. DOMAIN s = 1..Cardinality(S)
      /\ \A n \in 1..Cardinality(S) : s[n] = CHOOSE x \in S : Cardinality(Before(S, order, x)) = n - 1
    BY DEF Ordered
<1>7. \A n \in 1..Cardinality(S) : s[n] \in S /\ place[s[n]] = n - 1
    <2> TAKE n \in 1..Cardinality(S)
    <2>1. \E x \in S : Cardinality(Before(S, order, x)) = n - 1
        BY <1>3, <1>4, <1>5
    <2>2. s[n] \in S /\ Cardinality(Before(S, order, s[n])) = n - 1
        BY <1>6, <2>1
    <2> QED BY <1>4, <2>2
<1>8. s = [n \in 1..Cardinality(S) |-> s[n]]
    BY DEF Ordered
<1> HIDE DEF s
<1>9. s \in Seq(S) /\ Len(s) = Cardinality(S)
    BY <1>0, <1>7, <1>8
<1>10. ASSUME NEW i \in 1..Cardinality(S), NEW j \in 1..Cardinality(S), i < j
       PROVE  <<s[i], s[j]>> \in order
    <2>1. place[s[i]] < place[s[j]] /\ place[s[i]] # place[s[j]]
        BY <1>0, <1>7, <1>10
    <2>2. s[i] # s[j]
        BY <2>1
    <2>3. CASE <<s[j], s[i]>> \in order
        <3>1. place[s[j]] < place[s[i]]
            BY <1>0, <1>7, <2>3
        <3> QED BY <1>0, <1>7, <2>1, <3>1
    <2> QED BY <1>7, <2>2, <2>3 DEF Orders
<1>11. ASSUME NEW x \in S PROVE \E i \in 1..Cardinality(S) : s[i] = x
    <2>1. place[x] \in 0..(Cardinality(S) - 1)
        BY <1>0 DEF N
    <2>2. place[x] + 1 \in 1..Cardinality(S) /\ (place[x] + 1) - 1 = place[x]
        BY <1>0, <2>1
    <2>3. s[place[x] + 1] \in S /\ place[s[place[x] + 1]] = place[x]
        BY <1>7, <2>2
    <2> QED BY <1>2, <2>2, <2>3
<1> QED BY <1>0, <1>6, <1>9, <1>10, <1>11 DEF s

\* The values of a function on a finite set are finitely many.
LEMMA ValuesFinite ==
    ASSUME NEW S, IsFiniteSet(S), NEW f, DOMAIN f = S
    PROVE  IsFiniteSet({f[x] : x \in S})
<1> DEFINE T == {f[x] : x \in S}
           g == [x \in S |-> f[x]]
<1>1. g \in Surjection(S, T)
    BY DEF Surjection
<1> HIDE DEF g, T
<1>2. IsFiniteSet(T)
    BY <1>1, FS_Surjection
<1> QED BY <1>2 DEF T
=============================================================================
