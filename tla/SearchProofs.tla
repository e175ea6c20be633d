---------------------------- MODULE SearchProofs ----------------------------
(***************************************************************************)
(* Searches, for any table, request, weight and limit, among any writers:  *)
(* a rowid is of one id for ever, and what each statement has found is of  *)
(* a table that the search has seen; with room for every row and while     *)
(* nobody writes, it is all there is to find.                              *)
(***************************************************************************)
EXTENDS Search, VectorIndexProofs

-----------------------------------------------------------------------------
(* Searches: what is in order, what is found, and what each statement keeps. *)

LEMMA SimilarityIsInteger ==
    ASSUME NEW q \in Seq(Int), NEW v \in Seq(Int)
    PROVE  Similarity(q, v) \in Int
<1>1. ASSUME NEW u \in Seq(Int) PROVE Unit(u) \in Seq(Int)
    <2>1. \A x \in Int : Sign(x) \in Int
        BY DEF Sign
    <2>4. DOMAIN u = 1..Len(u) /\ Len(u) \in Nat /\ \A i \in 1..Len(u) : u[i] \in Int
        OBVIOUS
    <2>2. \A i \in 1..Len(u) : Sign(u[i]) \in Int
        BY <2>1, <2>4
    <2>3. Unit(u) = [i \in 1..Len(u) |-> Sign(u[i])]
        BY <2>4 DEF Unit
    <2> QED BY <2>2, <2>3, <2>4
<1>2. Dot(Unit(q), Unit(v)) \in Int
    BY <1>1, DotIsInteger
<1> QED BY <1>2 DEF Similarity

LEMMA FirstFacts ==
    ASSUME NEW T, NEW s \in Seq(T), NEW n \in Nat
    PROVE  /\ First(n, s) \in Seq(T) /\ Len(First(n, s)) <= n /\ Len(First(n, s)) <= Len(s)
           /\ DOMAIN First(n, s) = 1..Len(First(n, s)) /\ Len(First(n, s)) \in Nat
           /\ \A i \in DOMAIN First(n, s) : i \in DOMAIN s /\ First(n, s)[i] = s[i]
<1> DEFINE m == AtMost(n, Len(s))
           f == [i \in 1..m |-> s[i]]
<1>1. m \in Nat /\ m <= n /\ m <= Len(s) /\ m \in 0..Len(s) /\ Len(s) \in Nat
    BY DEF AtMost
<1>2. \A i \in 1..m : i \in 1..Len(s) /\ s[i] \in T
    BY <1>1
<1>3. SubSeq(s, 1, m) = f
    BY <1>1
<1>4. First(n, s) = f
    BY <1>3 DEF First
<1> HIDE DEF m
<1>5. f \in Seq(T) /\ Len(f) = m /\ DOMAIN f = 1..m /\ \A i \in 1..m : f[i] = s[i]
    BY <1>1, <1>2
<1> QED BY <1>1, <1>2, <1>4, <1>5

-----------------------------------------------------------------------------
Scored == [id : Nat, vector : Int, text : Int]
AResult == [id : Nat, vector : Int, text : Int, hybrid : Int]

Distinct(S) == \A a, b \in S : a.id = b.id => a = b

LEMMA ScoreOrderOrders ==
    ASSUME NEW S, S \subseteq Hit, Distinct(S)
    PROVE  Orders(ScoreOrder(S), S)
<1>1. \A x \in S : x.id \in Nat /\ x.score \in Int
    BY DEF Hit
<1>2. \A x, y \in S : <<x, y>> \in ScoreOrder(S) <=> Better(x, y)
    BY DEF ScoreOrder
<1>3. \A x \in S : ~Better(x, x)
    BY <1>1 DEF Better
<1>4. \A x, y \in S : x # y => Better(x, y) \/ Better(y, x)
    <2> TAKE x \in S, y \in S
    <2>1. x # y => x.id # y.id
        BY DEF Distinct
    <2> QED BY <1>1, <2>1 DEF Better
<1>5. \A x, y, z \in S : Better(x, y) /\ Better(y, z) => Better(x, z)
    <2> TAKE x \in S, y \in S, z \in S
    <2>1. x.id \in Nat /\ y.id \in Nat /\ z.id \in Nat /\ x.score \in Int /\ y.score \in Int /\ z.score \in Int
        BY <1>1
    <2> QED BY <2>1 DEF Better
<1> QED BY <1>2, <1>3, <1>4, <1>5 DEF Orders

LEMMA ResultOrderOrders ==
    ASSUME NEW S, S \subseteq AResult, Distinct(S)
    PROVE  Orders(ResultOrder(S), S)
<1>1. \A x \in S : x.id \in Nat /\ x.vector \in Int /\ x.text \in Int /\ x.hybrid \in Int
    BY DEF AResult
<1>2. \A x, y \in S : <<x, y>> \in ResultOrder(S) <=> Above(x, y)
    BY DEF ResultOrder
<1>3. \A x \in S : ~Above(x, x)
    BY <1>1 DEF Above
<1>4. \A x, y \in S : x # y => Above(x, y) \/ Above(y, x)
    <2> TAKE x \in S, y \in S
    <2>1. x # y => x.id # y.id
        BY DEF Distinct
    <2> QED BY <1>1, <2>1 DEF Above
<1>5. \A x, y, z \in S : Above(x, y) /\ Above(y, z) => Above(x, z)
    <2> TAKE x \in S, y \in S, z \in S
    <2>1. x.id \in Nat /\ x.vector \in Int /\ x.text \in Int /\ x.hybrid \in Int
        BY <1>1
    <2>2. y.id \in Nat /\ y.vector \in Int /\ y.text \in Int /\ y.hybrid \in Int
        BY <1>1
    <2>3. z.id \in Nat /\ z.vector \in Int /\ z.text \in Int /\ z.hybrid \in Int
        BY <1>1
    <2> QED BY <2>1, <2>2, <2>3 DEF Above
<1> QED BY <1>2, <1>3, <1>4, <1>5 DEF Orders

-----------------------------------------------------------------------------
GoodTable(table) == IsFiniteSet(table) /\ UniqueRows(table) /\ \A row \in table : TypedRow(row) /\ row.key \in Nat

\* Some rows of a good table are one.
LEMMA PartOfTable ==
    ASSUME NEW table, GoodTable(table), NEW part, part \subseteq table
    PROVE  GoodTable(part)
<1>1. IsFiniteSet(part)
    BY FS_Subset DEF GoodTable
<1> QED BY <1>1 DEF GoodTable, UniqueRows

Like(r, hit, row) ==
    row.id = hit.id /\ Len(row.vec) = Len(r.vec) /\ hit.score = Similarity(r.vec, row.vec)

\* Hits in the order of their scores, no id twice, each of a row.
BestHits(r, hits, n, table) ==
    /\ hits \in Seq(Hit) /\ Len(hits) <= n
    /\ \A i, j \in DOMAIN hits : i < j => Better(hits[i], hits[j]) /\ hits[i].id # hits[j].id
    /\ \A i \in DOMAIN hits : \E row \in table : Like(r, hits[i], row)

LEMMA BySimilarityFacts ==
    ASSUME NEW r, r.vec \in Seq(Int), NEW table, GoodTable(table), NEW n \in Nat
    PROVE  BestHits(r, BySimilarity(r, table, n), n, table)
<1> DEFINE near == {o \in table : Len(o.vec) = Len(r.vec)}
           f == [row \in near |-> [id |-> row.id, score |-> Similarity(r.vec, row.vec)]]
           hits == {[id |-> row.id, score |-> Similarity(r.vec, row.vec)] : row \in near}
<1>1. GoodTable(near)
    BY PartOfTable
<1>2. \A row \in near : row \in table /\ row.id \in Nat /\ row.vec \in Seq(Int)
    BY <1>1 DEF GoodTable, TypedRow
<1> HIDE DEF near
<1>3. \A row \in near : Similarity(r.vec, row.vec) \in Int
    BY <1>2, SimilarityIsInteger
<1>4. hits \subseteq Hit
    BY <1>2, <1>3 DEF Hit
<1>5. Distinct(hits)
    BY <1>1 DEF Distinct, GoodTable, UniqueRows
<1>6. IsFiniteSet(hits)
    <2>1. IsFiniteSet({f[row] : row \in near})
        <3>1. IsFiniteSet(near) /\ DOMAIN f = near
            BY <1>1 DEF GoodTable
        <3> HIDE DEF f
        <3> QED BY <3>1, ValuesFinite
    <2>2. hits = {f[row] : row \in near}
        OBVIOUS
    <2> QED BY <2>1, <2>2
<1>7. \A h \in hits : \E row \in table : Like(r, h, row)
    BY DEF Like, near
<1>8. BySimilarity(r, table, n) = First(n, Ordered(hits, ScoreOrder(hits)))
    BY DEF BySimilarity, near
<1> HIDE DEF hits, f
<1> DEFINE s == Ordered(hits, ScoreOrder(hits))
<1>9. Orders(ScoreOrder(hits), hits)
    BY <1>4, <1>5, ScoreOrderOrders
<1>10. /\ s \in Seq(hits) /\ Cardinality(hits) \in Nat
       /\ Len(s) = Cardinality(hits) /\ DOMAIN s = 1..Cardinality(hits)
       /\ \A i, j \in 1..Cardinality(hits) : i < j => <<s[i], s[j]>> \in ScoreOrder(hits)
    BY <1>6, <1>9, OrderedFacts
<1>16. s \in Seq(hits)
    BY <1>10
<1> HIDE DEF s
<1> DEFINE best == First(n, s)
<1>11. /\ best \in Seq(hits) /\ Len(best) <= n /\ DOMAIN best = 1..Len(best)
       /\ \A i \in DOMAIN best : i \in DOMAIN s /\ best[i] = s[i]
    BY <1>16, FirstFacts
<1> HIDE DEF best
<1>12. best \in Seq(Hit)
    BY <1>4, <1>11
<1>13. ASSUME NEW i \in DOMAIN best, NEW j \in DOMAIN best, i < j
       PROVE  Better(best[i], best[j]) /\ best[i].id # best[j].id
    <2>1. <<best[i], best[j]>> \in ScoreOrder(hits)
        BY <1>10, <1>11, <1>13
    <2>2. best[i] \in hits /\ best[j] \in hits /\ Better(best[i], best[j])
        BY <2>1 DEF ScoreOrder
    <2>3. best[i] # best[j]
        BY <1>9, <2>1, <2>2 DEF Orders
    <2> QED BY <1>5, <2>2, <2>3 DEF Distinct
<1>14. \A i \in DOMAIN best : best[i] \in hits
    BY <1>11
<1>15. \A i \in DOMAIN best : \E row \in table : Like(r, best[i], row)
    BY <1>7, <1>14
<1> QED BY <1>8, <1>11, <1>12, <1>13, <1>15 DEF BestHits, best, s

-----------------------------------------------------------------------------
\* The ids of the rows that satisfy the filter in a table of the search.
InSeen(id, r) == \E table \in seen : \E row \in table : row.id = id /\ Matches(r, row)

\* What a search finds in the tables: both are good, and a key is of one id.
TablesAgree ==
    /\ GoodTable(rows) /\ GoodTable(indexed)
    /\ \A a \in rows, b \in indexed : a.key = b.key => a.id = b.id

Watched == rows \in seen /\ indexed \in seen

LEMMA VectorCandidatesFacts ==
    ASSUME TablesAgree, Watched, NEW r, r.vec \in Seq(Int), NEW n \in Nat
    PROVE  /\ VectorCandidates(r, n) \in Seq(Hit) /\ Len(VectorCandidates(r, n)) <= n
           /\ \A i, j \in DOMAIN VectorCandidates(r, n) : i < j =>
                 /\ Better(VectorCandidates(r, n)[i], VectorCandidates(r, n)[j])
                 /\ VectorCandidates(r, n)[i].id # VectorCandidates(r, n)[j].id
           /\ \A i \in DOMAIN VectorCandidates(r, n) : InSeen(VectorCandidates(r, n)[i].id, r)
<1> DEFINE entries == {row \in indexed : row.vec # << >>}
           fits == setup.index /\ \E e \in entries : Len(e.vec) = Len(r.vec)
           allowed == {e \in entries : r.filter = AnyGroup \/ e.key \in AllowedKeys(r)}
           hits == VectorCandidates(r, n)
<1>1. hits = IF fits THEN BySimilarity(r, allowed, n) ELSE BySimilarity(r, Filtered(r, rows), n)
    BY DEF VectorCandidates
<1>2. \A e \in allowed : InSeen(e.id, r)
    <2> SUFFICES ASSUME NEW e \in allowed PROVE InSeen(e.id, r)
        OBVIOUS
    <2>1. e \in indexed /\ (r.filter = AnyGroup \/ e.key \in AllowedKeys(r))
        OBVIOUS
    <2>2. CASE r.filter = AnyGroup
        <3>1. Matches(r, e)
            BY <2>2 DEF Matches
        <3> QED BY <2>1, <3>1 DEF InSeen, Watched
    <2>3. CASE e.key \in AllowedKeys(r)
        <3>1. PICK row \in Filtered(r, indexed) \cup Filtered(r, rows) : row.key = e.key
            BY <2>3 DEF AllowedKeys
        <3>2. Matches(r, row) /\ row \in indexed \cup rows
            BY <3>1 DEF Filtered
        <3>3. row.id = e.id
            BY <2>1, <3>1, <3>2 DEF TablesAgree, GoodTable, UniqueRows
        <3> QED BY <3>2, <3>3 DEF InSeen, Watched
    <2> QED BY <2>1, <2>2, <2>3
<1>3. \A row \in Filtered(r, rows) : InSeen(row.id, r)
    BY DEF Filtered, InSeen, Watched
<1>4. GoodTable(allowed) /\ GoodTable(Filtered(r, rows))
    BY PartOfTable DEF TablesAgree, Filtered
<1> HIDE DEF allowed, fits, hits
<1>5. PICK table : GoodTable(table) /\ hits = BySimilarity(r, table, n) /\ \A row \in table : InSeen(row.id, r)
    BY <1>1, <1>2, <1>3, <1>4
<1>6. BestHits(r, hits, n, table)
    BY <1>5, BySimilarityFacts
<1>7. ASSUME NEW i \in DOMAIN hits PROVE InSeen(hits[i].id, r)
    <2>1. PICK row \in table : row.id = hits[i].id
        BY <1>6 DEF BestHits, Like
    <2> QED BY <1>5, <2>1
<1> QED BY <1>6, <1>7 DEF BestHits, hits

-----------------------------------------------------------------------------
\* The elements of a sequence that is cut off or ordered.
LEMMA FirstOfOrdered ==
    ASSUME NEW S, IsFiniteSet(S), NEW order, Orders(order, S), NEW n \in Nat
    PROVE  /\ First(n, Ordered(S, order)) \in Seq(S) /\ Len(First(n, Ordered(S, order))) <= n
           /\ \A i, j \in DOMAIN First(n, Ordered(S, order)) : i < j =>
                 <<First(n, Ordered(S, order))[i], First(n, Ordered(S, order))[j]>> \in order
<1> DEFINE s == Ordered(S, order)
           first == First(n, s)
<1>1. s \in Seq(S) /\ DOMAIN s = 1..Cardinality(S)
      /\ \A i, j \in 1..Cardinality(S) : i < j => <<s[i], s[j]>> \in order
    BY OrderedFacts
<1>2. s \in Seq(S)
    BY <1>1
<1> HIDE DEF s
<1>3. /\ first \in Seq(S) /\ Len(first) <= n
      /\ \A i \in DOMAIN first : i \in DOMAIN s /\ first[i] = s[i]
    BY <1>2, FirstFacts
<1> HIDE DEF first
<1>4. \A i, j \in DOMAIN first : i < j => <<first[i], first[j]>> \in order
    BY <1>1, <1>3
<1> QED BY <1>3, <1>4 DEF first, s

IntFunctions == UNION {[D -> Int] : D \in SUBSET Nat}

LEMMA IdsOfSequence ==
    ASSUME NEW S, \A x \in S : x.id \in Nat, NEW s \in Seq(S)
    PROVE  /\ IdSeq(s) \in Seq(Nat) /\ DOMAIN IdSeq(s) = DOMAIN s
           /\ \A i \in DOMAIN s : IdSeq(s)[i] = s[i].id
           /\ \A id \in ToSet(IdSeq(s)) : \E i \in DOMAIN s : s[i].id = id
<1>1. DOMAIN s = 1..Len(s) /\ Len(s) \in Nat /\ \A i \in 1..Len(s) : s[i].id \in Nat
    OBVIOUS
<1>2. IdSeq(s) = [i \in 1..Len(s) |-> s[i].id]
    BY <1>1 DEF IdSeq
<1> QED BY <1>1, <1>2 DEF ToSet

NaturalIds(S) == \A x \in S : x.id \in Nat

IdsListed(s) == IdSeq(s) \in Seq(Nat) /\ \A id \in ToSet(IdSeq(s)) : \E i \in DOMAIN s : s[i].id = id

LEMMA SequenceListsItsIds ==
    ASSUME NEW S, NaturalIds(S), NEW s \in Seq(S)
    PROVE  IdsListed(s)
<1>1. \A x \in S : x.id \in Nat
    BY DEF NaturalIds
<1>2. IdSeq(s) \in Seq(Nat) /\ \A id \in ToSet(IdSeq(s)) : \E i \in DOMAIN s : s[i].id = id
    BY <1>1, IdsOfSequence
<1> QED BY <1>2 DEF IdsListed

LEMMA TextOrderOrders ==
    ASSUME SearchAssumption, NEW S, GoodTable(S)
    PROVE  Orders(TextOrder(S), S)
<1>1. \A x \in S : x.id \in Nat /\ Rank[x.text] \in Nat
    BY DEF SearchAssumption, GoodTable, TypedRow
<1>2. \A x, y \in S : x.id = y.id => x = y
    BY DEF GoodTable, UniqueRows
<1>3. \A x, y \in S : <<x, y>> \in TextOrder(S) <=>
         Rank[x.text] < Rank[y.text] \/ (Rank[x.text] = Rank[y.text] /\ x.id < y.id)
    BY DEF TextOrder
<1>4. \A x \in S : <<x, x>> \notin TextOrder(S)
    BY <1>1, <1>3
<1>5. \A x, y \in S : x # y => <<x, y>> \in TextOrder(S) \/ <<y, x>> \in TextOrder(S)
    <2> TAKE x \in S, y \in S
    <2>1. x.id \in Nat /\ Rank[x.text] \in Nat /\ y.id \in Nat /\ Rank[y.text] \in Nat
        BY <1>1
    <2> QED BY <1>2, <1>3, <2>1
<1>6. \A x, y, z \in S : <<x, y>> \in TextOrder(S) /\ <<y, z>> \in TextOrder(S) => <<x, z>> \in TextOrder(S)
    <2> TAKE x \in S, y \in S, z \in S
    <2>1. x.id \in Nat /\ Rank[x.text] \in Nat /\ y.id \in Nat /\ Rank[y.text] \in Nat
          /\ z.id \in Nat /\ Rank[z.text] \in Nat
        BY <1>1
    <2> QED BY <1>3, <2>1
<1> QED BY <1>4, <1>5, <1>6 DEF Orders

LEMMA TextCandidatesFacts ==
    ASSUME SearchAssumption, TablesAgree, NEW r, NEW n \in Nat
    PROVE  /\ TextCandidates(r, n) \in Seq(rows)
           /\ \A i \in DOMAIN TextCandidates(r, n) : Matches(r, TextCandidates(r, n)[i])
<1> DEFINE hits == TextHits(Filtered(r, TextIndex))
<1>1. hits \subseteq rows /\ \A row \in hits : Matches(r, row)
    BY DEF TextHits, Filtered, TextIndex
<1>2. GoodTable(hits)
    BY <1>1, PartOfTable DEF TablesAgree
<1>3. TextCandidates(r, n) = First(n, Ordered(hits, TextOrder(hits)))
    BY DEF TextCandidates
<1> HIDE DEF hits
<1>4. Orders(TextOrder(hits), hits) /\ IsFiniteSet(hits)
    BY <1>2, TextOrderOrders DEF GoodTable
<1>5. TextCandidates(r, n) \in Seq(hits)
    BY <1>3, <1>4, FirstOfOrdered
<1> QED BY <1>1, <1>5

LEMMA NewestOrderOrders ==
    ASSUME NEW S, GoodTable(S)
    PROVE  Orders(NewestOrder(S), S)
<1>1. \A x \in S : x.key \in Nat
    BY DEF GoodTable
<1>2. \A x, y \in S : x.key = y.key => x = y
    BY DEF GoodTable, UniqueRows
<1>3. \A x, y \in S : <<x, y>> \in NewestOrder(S) <=> x.key > y.key
    BY DEF NewestOrder
<1>4. \A x \in S : <<x, x>> \notin NewestOrder(S)
    BY <1>1, <1>3
<1>5. \A x, y \in S : x # y => <<x, y>> \in NewestOrder(S) \/ <<y, x>> \in NewestOrder(S)
    BY <1>1, <1>2, <1>3
<1>6. \A x, y, z \in S : <<x, y>> \in NewestOrder(S) /\ <<y, z>> \in NewestOrder(S)
                          => <<x, z>> \in NewestOrder(S)
    BY <1>1, <1>3
<1> QED BY <1>4, <1>5, <1>6 DEF Orders

LEMMA NewestFacts ==
    ASSUME TablesAgree, NEW r, r.limit \in Nat
    PROVE  /\ Newest(r) \in Seq(Nat)
           /\ \A id \in ToSet(Newest(r)) : \E row \in rows : row.id = id /\ Matches(r, row)
<1> DEFINE hits == Filtered(r, rows)
<1>1. hits \subseteq rows /\ \A row \in hits : Matches(r, row)
    BY DEF Filtered
<1>2. GoodTable(hits)
    BY <1>1, PartOfTable DEF TablesAgree
<1>3. Newest(r) = First(r.limit, IdSeq(Ordered(hits, NewestOrder(hits))))
    BY DEF Newest
<1> HIDE DEF hits
<1>4. \A x \in hits : x.id \in Nat
    BY <1>2 DEF GoodTable, TypedRow
<1>7. Orders(NewestOrder(hits), hits)
    BY <1>2, NewestOrderOrders
<1> DEFINE s == Ordered(hits, NewestOrder(hits))
<1>8. s \in Seq(hits)
    <2>1. IsFiniteSet(hits)
        BY <1>2 DEF GoodTable
    <2> QED BY <1>7, <2>1, OrderedFacts
<1> HIDE DEF s
<1>9. IdSeq(s) \in Seq(Nat) /\ DOMAIN IdSeq(s) = DOMAIN s /\ \A i \in DOMAIN s : IdSeq(s)[i] = s[i].id
    BY <1>4, <1>8, IdsOfSequence
<1>10. IdSeq(s) \in Seq(Nat)
    BY <1>9
<1> DEFINE new == First(r.limit, IdSeq(s))
<1>11. new \in Seq(Nat) /\ \A i \in DOMAIN new : i \in DOMAIN IdSeq(s) /\ new[i] = IdSeq(s)[i]
    BY <1>10, FirstFacts
<1> HIDE DEF new
<1>12. ASSUME NEW id \in ToSet(new) PROVE \E row \in rows : row.id = id /\ Matches(r, row)
    <2>1. PICK i \in DOMAIN new : id = new[i]
        BY DEF ToSet
    <2>2. i \in DOMAIN s /\ id = s[i].id
        BY <1>9, <1>11, <2>1
    <2>3. s[i] \in hits
        BY <1>8, <2>2
    <2> QED BY <1>1, <2>2, <2>3
<1> QED BY <1>3, <1>11, <1>12 DEF new, s

LEMMA MergedFacts ==
    ASSUME NEW first \in Seq(Nat), NEW second \in Seq(Nat), NEW n \in Nat
    PROVE  /\ Merged(first, second, n) \in Seq(Nat)
           /\ ToSet(Merged(first, second, n)) \subseteq ToSet(first) \cup ToSet(second)
<1> DEFINE both == first \o second
           new == {i \in DOMAIN both : \A j \in 1..(i - 1) : both[j] # both[i]}
<1>1. both \in Seq(Nat) /\ \A i \in DOMAIN both : both[i] \in ToSet(first) \cup ToSet(second)
    <2>1. both \in Seq(Nat) /\ DOMAIN both = 1..(Len(first) + Len(second))
        OBVIOUS
    <2>2. ASSUME NEW i \in DOMAIN both PROVE both[i] \in ToSet(first) \cup ToSet(second)
        <3>1. CASE i <= Len(first)
            <4>1. i \in DOMAIN first /\ both[i] = first[i]
                BY <2>1, <3>1
            <4> QED BY <4>1 DEF ToSet
        <3>2. CASE i > Len(first)
            <4>1. i - Len(first) \in DOMAIN second /\ both[i] = second[i - Len(first)]
                BY <2>1, <3>2
            <4> QED BY <4>1 DEF ToSet
        <3> QED BY <2>1, <3>1, <3>2
    <2> QED BY <2>1, <2>2
<1>2. new \in SUBSET DOMAIN both
    OBVIOUS
<1>3. Merged(first, second, n) = First(n, SelectAt(both, new))
    BY DEF Merged
<1> HIDE DEF both, new
<1> DEFINE s == SelectAt(both, new)
<1>4. s \in Seq(Nat) /\ \A i \in DOMAIN s : Nth(new, i) \in new /\ s[i] = both[Nth(new, i)]
    BY <1>1, <1>2, SelectAtFacts
<1>5. s \in Seq(Nat)
    BY <1>4
<1> HIDE DEF s
<1> DEFINE m == First(n, s)
<1>6. m \in Seq(Nat) /\ \A i \in DOMAIN m : i \in DOMAIN s /\ m[i] = s[i]
    BY <1>5, FirstFacts
<1> HIDE DEF m
<1>7. \A i \in DOMAIN m : m[i] \in ToSet(first) \cup ToSet(second)
    BY <1>1, <1>2, <1>4, <1>6
<1>8. ToSet(m) \subseteq ToSet(first) \cup ToSet(second)
    BY <1>7 DEF ToSet
<1> QED BY <1>3, <1>6, <1>8 DEF m, s

-----------------------------------------------------------------------------
LEMMA TextScoresFacts ==
    ASSUME SearchAssumption, NEW hits, GoodTable(hits), hits # {}
    PROVE  TextScores(hits) \in IntFunctions
<1> DEFINE ranks == {Rank[h.text] : h \in hits}
           best == CHOOSE n \in ranks : \A h \in hits : n <= Rank[h.text]
           of(id) == CHOOSE h \in hits : h.id = id
           ids == {h.id : h \in hits}
<1>1. \A h \in hits : h.id \in Nat /\ Rank[h.text] \in Nat
    BY DEF GoodTable, TypedRow, SearchAssumption
<1>2. ranks \subseteq Nat /\ ranks # {}
    BY <1>1
<1>3. PICK n \in ranks : \A m \in ranks : n <= m
    BY <1>2, LeastNatural
<1>13. \A h \in hits : Rank[h.text] \in ranks
    OBVIOUS
<1> HIDE DEF ranks
<1>12. \E m \in ranks : \A h \in hits : m <= Rank[h.text]
    BY <1>3, <1>13
<1>4. best \in ranks /\ \A h \in hits : best <= Rank[h.text]
    BY <1>12
<1>5. best \in Nat /\ \A h \in hits : best <= Rank[h.text]
    BY <1>2, <1>4
<1>6. \A id \in ids : of(id) \in hits
    OBVIOUS
<1> HIDE DEF best, of
<1>7. \A id \in ids : Rank[of(id).text] \in Nat /\ best <= Rank[of(id).text]
    BY <1>1, <1>5, <1>6
<1> HIDE DEF ids
<1>8. ASSUME NEW id \in ids PROVE 60 \div (1 + Rank[of(id).text] - best) \in Int
    <2>1. PICK d \in Nat \ {0} : d = 1 + Rank[of(id).text] - best
        BY <1>5, <1>7
    <2> QED BY <2>1
<1>9. ids \in SUBSET Nat
    BY <1>1 DEF ids
<1>10. TextScores(hits) = [id \in ids |-> 60 \div (1 + Rank[of(id).text] - best)]
    BY DEF TextScores, best, of, ids, ranks
<1>11. TextScores(hits) \in [ids -> Int]
    BY <1>8, <1>10
<1> QED BY <1>9, <1>11 DEF IntFunctions

LEMMA FusedIsInteger ==
    ASSUME NEW r \in SearchRequest, NEW scored, IsFiniteSet(scored), NEW e, e \in Scored
    PROVE  Fused(r, scored, e) \in Int
<1>1. e.vector \in Int /\ e.text \in Int /\ r.alpha \in Int /\ r.constant \in Nat
    BY DEF Scored, SearchRequest
<1>2. ASSUME NEW score PROVE Position(scored, score, e) \in Nat \ {0}
    <2> DEFINE better == {o \in scored : o[score] > e[score] \/ (o[score] = e[score] /\ o.id < e.id)}
    <2>1. better \in SUBSET scored
        OBVIOUS
    <2>2. Position(scored, score, e) = 1 + Cardinality(better)
        BY DEF Position
    <2> HIDE DEF better
    <2>3. IsFiniteSet(better)
        BY <2>1, FS_Subset
    <2>4. Cardinality(better) \in Nat
        BY <2>3, FS_CardinalityType
    <2> QED BY <2>2, <2>4
<1>3. PICK v \in Nat \ {0}, t \in Nat \ {0} :
          v = r.constant + Position(scored, "vector", e) /\ t = r.constant + Position(scored, "text", e)
    BY <1>1, <1>2
<1>4. (6000 \div v) + (6000 \div t) \in Int
    OBVIOUS
<1>5. r.alpha * e.vector + (100 - r.alpha) * e.text \in Int /\ 100 * e.text \in Int
    BY <1>1
<1> HIDE DEF Position
<1>6. \/ Fused(r, scored, e) = 100 * e.text
      \/ Fused(r, scored, e) = r.alpha * e.vector + (100 - r.alpha) * e.text
      \/ Fused(r, scored, e) = (6000 \div v) + (6000 \div t)
    <2>1. CASE r.vec = << >>
        BY <2>1 DEF Fused
    <2>2. CASE r.vec # << >> /\ r.fusion = "weighted"
        BY <2>2 DEF Fused
    <2>3. CASE r.vec # << >> /\ r.fusion # "weighted"
        BY <1>3, <2>3 DEF Fused
    <2> QED BY <2>1, <2>2, <2>3
<1> QED BY <1>4, <1>5, <1>6

\* Results in their order, no id twice.
InRank(results) ==
    /\ results \in Seq(AResult)
    /\ \A i, j \in DOMAIN results : i < j => Above(results[i], results[j]) /\ results[i].id # results[j].id

Among(results, scored) == \A i \in DOMAIN results : \E e \in scored : e.id = results[i].id

LEMMA RankedResultsFacts ==
    ASSUME NEW r \in SearchRequest, NEW scored, IsFiniteSet(scored), scored \subseteq Scored,
           Distinct(scored), NEW n \in Nat
    PROVE  /\ InRank(RankedResults(r, scored, n)) /\ Len(RankedResults(r, scored, n)) <= n
           /\ Among(RankedResults(r, scored, n), scored)
<1> DEFINE found == {Result(e.id, e.vector, e.text, Fused(r, scored, e)) : e \in scored}
           f == [e \in scored |-> Result(e.id, e.vector, e.text, Fused(r, scored, e))]
<1>1. \A e \in scored : Fused(r, scored, e) \in Int /\ e.id \in Nat /\ e.vector \in Int /\ e.text \in Int
    BY FusedIsInteger DEF Scored
<1>2. found \subseteq AResult
    BY <1>1 DEF AResult, Result
<1>3. Distinct(found)
    BY DEF Distinct, Result
<1>4. IsFiniteSet(found)
    <2>1. IsFiniteSet({f[e] : e \in scored})
        <3>1. DOMAIN f = scored
            OBVIOUS
        <3> HIDE DEF f
        <3> QED BY <3>1, ValuesFinite
    <2>2. found = {f[e] : e \in scored}
        OBVIOUS
    <2> QED BY <2>1, <2>2
<1>5. \A x \in found : \E e \in scored : e.id = x.id
    BY DEF Result
<1>6. RankedResults(r, scored, n) = First(n, Ordered(found, ResultOrder(found)))
    BY DEF RankedResults
<1> HIDE DEF found, f
<1>7. Orders(ResultOrder(found), found)
    BY <1>2, <1>3, ResultOrderOrders
<1> DEFINE s == RankedResults(r, scored, n)
<1>8. s \in Seq(found) /\ Len(s) <= n /\ \A i, j \in DOMAIN s : i < j => <<s[i], s[j]>> \in ResultOrder(found)
    BY <1>4, <1>6, <1>7, FirstOfOrdered
<1> HIDE DEF s
<1>9. ASSUME NEW i \in DOMAIN s, NEW j \in DOMAIN s, i < j PROVE Above(s[i], s[j]) /\ s[i].id # s[j].id
    <2>1. <<s[i], s[j]>> \in ResultOrder(found)
        BY <1>8, <1>9
    <2>2. s[i] \in found /\ s[j] \in found /\ Above(s[i], s[j])
        BY <2>1 DEF ResultOrder
    <2>3. s[i] # s[j]
        BY <1>7, <2>1, <2>2 DEF Orders
    <2> QED BY <1>3, <2>2, <2>3 DEF Distinct
<1>10. s \in Seq(AResult) /\ \A i \in DOMAIN s : s[i] \in found
    BY <1>2, <1>8
<1>11. \A i \in DOMAIN s : \E e \in scored : e.id = s[i].id
    BY <1>5, <1>10
<1> QED BY <1>8, <1>9, <1>10, <1>11 DEF InRank, Among, s

\* What is found by id and scored.
ScoresFor(ids, f, g) == {[id |-> id, vector |-> f[id], text |-> g[id]] : id \in ToSet(ids)}

LEMMA ScoredIds ==
    ASSUME NEW ids \in Seq(Nat), NEW f, NEW g, \A id \in ToSet(ids) : f[id] \in Int /\ g[id] \in Int
    PROVE  /\ IsFiniteSet(ScoresFor(ids, f, g)) /\ ScoresFor(ids, f, g) \subseteq Scored
           /\ Distinct(ScoresFor(ids, f, g))
           /\ \A e \in ScoresFor(ids, f, g) : e.id \in ToSet(ids)
<1> DEFINE scored == {[id |-> id, vector |-> f[id], text |-> g[id]] : id \in ToSet(ids)}
           row == [i \in DOMAIN ids |-> [id |-> ids[i], vector |-> f[ids[i]], text |-> g[ids[i]]]]
<1>1. \A id \in ToSet(ids) : id \in Nat
    BY DEF ToSet
<1>2. scored \subseteq Scored
    BY <1>1 DEF Scored
<1>3. Distinct(scored) /\ \A e \in scored : e.id \in ToSet(ids)
    BY DEF Distinct
<1>4. IsFiniteSet({row[i] : i \in DOMAIN ids})
    <2>1. DOMAIN row = DOMAIN ids /\ DOMAIN ids = 1..Len(ids) /\ Len(ids) \in Nat
        OBVIOUS
    <2>2. IsFiniteSet(DOMAIN ids)
        BY <2>1, FS_Interval
    <2> HIDE DEF row
    <2> QED BY <2>1, <2>2, ValuesFinite
<1>5. scored = {row[i] : i \in DOMAIN ids}
    BY DEF ToSet
<1> QED BY <1>2, <1>3, <1>4, <1>5 DEF ScoresFor

-----------------------------------------------------------------------------
(* The limits.                                                             *)

LEMMA ResolvedFacts ==
    ASSUME SearchAssumption, NEW r \in SearchRequest
    PROVE  Resolved(r) \in SearchRequest
<1>1. r.k \in Nat /\ r.limit \in Nat
    BY DEF SearchRequest
<1>2. Tuning.latency.factor \in Nat /\ Tuning.latency.floor \in Nat
      /\ Tuning.recall.factor \in Nat /\ Tuning.recall.floor \in Nat
    BY DEF SearchAssumption
<1>3. \A a, b \in Nat : AtLeast(a, b) \in Nat /\ AtMost(a, b) \in Nat /\ a * b \in Nat
    BY DEF AtLeast, AtMost
<1>4. PICK a \in Nat, b \in Nat :
          /\ a = AtLeast(r.k * Tuning.latency.factor, Tuning.latency.floor)
          /\ b = AtLeast(r.k * Tuning.recall.factor, Tuning.recall.floor)
    BY <1>1, <1>2, <1>3
<1>5. Between(r.k, r.limit, a) \in Nat /\ AtLeast(r.limit, b) \in Nat
    BY <1>1, <1>3 DEF Between
<1>6. \A n \in Nat : [r EXCEPT !.limit = n] \in SearchRequest
    BY DEF SearchRequest
<1>7. \/ Resolved(r) = r
      \/ Resolved(r) = [r EXCEPT !.limit = Between(r.k, r.limit, a)]
      \/ Resolved(r) = [r EXCEPT !.limit = AtLeast(r.limit, b)]
    BY <1>4 DEF Resolved
<1> QED BY <1>5, <1>6, <1>7

LEMMA ShareFacts ==
    ASSUME NEW r \in SearchRequest, NEW plan, NEW t \in Shares
    PROVE  Share(r, plan, t) \in Nat
<1>1. r.k \in Nat /\ r.limit \in Nat /\ r.profile \in Profiles /\ t.factor \in [Profiles -> Nat] /\ t.floor \in Nat
    BY DEF SearchRequest, Shares
<1>2. \A a, b \in Nat : AtLeast(a, b) \in Nat /\ AtMost(a, b) \in Nat /\ a * b \in Nat
    BY DEF AtLeast, AtMost
<1>3. PICK a \in Nat : a = AtLeast(r.k * t.factor[r.profile], t.floor)
    BY <1>1, <1>2
<1>4. Between(r.k, a, r.limit) \in Nat
    BY <1>1, <1>2 DEF Between
<1> QED BY <1>1, <1>3, <1>4 DEF Share

LEMMA RerankLimitFacts ==
    ASSUME SearchAssumption, NEW r \in SearchRequest, NEW plan
    PROVE  RerankLimit(r, plan) \in Nat
<1>1. r.k \in Nat /\ r.limit \in Nat /\ r.profile \in Profiles
    BY DEF SearchRequest
<1>2. \A a, b \in Nat : AtLeast(a, b) \in Nat /\ AtMost(a, b) \in Nat /\ a * b \in Nat
    BY DEF AtLeast, AtMost
<1>3. Tuning.rerank["balanced"] \in [Profiles -> Nat] /\ Tuning.rerank["first"] \in [Profiles -> Nat]
    BY DEF SearchAssumption
<1>4. Tuning.rerank[IF plan = "balanced" THEN "balanced" ELSE "first"][r.profile] \in Nat
    BY <1>1, <1>3
<1>5. AtLeast(r.k * Tuning.rerank[IF plan = "balanced" THEN "balanced" ELSE "first"][r.profile], r.k) \in Nat
    BY <1>1, <1>2, <1>4
<1> QED BY <1>1, <1>2, <1>5 DEF RerankLimit

-----------------------------------------------------------------------------
SearchPhases == {"vector", "text", "similar", "merge", "scores", "contents", "embeddings", "payload", "done"}
SearchState ==
    [phase : SearchPhases, req : SearchRequest, plan : {"none", "vectorFirst", "textFirst", "balanced"},
     vectors : Seq(Nat), vectorScores : IntFunctions, texts : Seq(Nat), textScores : IntFunctions,
     ids : Seq(Nat), contents : IntFunctions, results : Seq(AResult), quiet : BOOLEAN]

\* What is found is of the tables of the search.
Found(s) ==
    /\ \A id \in ToSet(s.vectors) : InSeen(id, s.req)
    /\ \A id \in ToSet(s.texts) : InSeen(id, s.req)
    /\ \A id \in ToSet(s.ids) : InSeen(id, s.req)
    /\ \A i \in DOMAIN s.results : InSeen(s.results[i].id, s.req)

SearchHolds(s) ==
    /\ s \in SearchState /\ Watched
    /\ InRank(s.results) /\ Len(s.results) <= s.req.k
    /\ Found(s)

\* Keys are of one id for ever: a new one is greater than all that were given.
SearchInv ==
    /\ TablesAgree
    /\ lastKey \in Nat /\ \A row \in rows \cup indexed : row.key <= lastKey
    /\ search = Idle \/ SearchHolds(search)

LEMMA GoesKeeps ==
    ASSUME SearchInv, NEW s, SearchHolds(s), Goes(s)
    PROVE  SearchInv'
<1>1. search' = s /\ UNCHANGED <<rows, lastKey, indexed, setup, seen, writes>>
    BY DEF Goes, Reading
<1>2. \A id, r : InSeen(id, r) => InSeen(id, r)'
    BY <1>1 DEF InSeen, Matches
<1>3. Found(s) => Found(search)'
    BY <1>1, <1>2 DEF Found
<1>4. SearchHolds(search)'
    BY <1>1, <1>3 DEF SearchHolds, Watched, InRank
<1>5. TablesAgree'
    BY <1>1 DEF SearchInv, TablesAgree, GoodTable, UniqueRows, TypedRow
<1> QED BY <1>1, <1>4, <1>5 DEF SearchInv

LEMMA SearchStateFields ==
    ASSUME NEW s, s \in SearchState
    PROVE  /\ s.phase \in SearchPhases /\ s.req \in SearchRequest
           /\ s.vectors \in Seq(Nat) /\ s.texts \in Seq(Nat) /\ s.ids \in Seq(Nat)
           /\ s.vectorScores \in IntFunctions /\ s.textScores \in IntFunctions /\ s.contents \in IntFunctions
           /\ s.results \in Seq(AResult) /\ s.quiet \in BOOLEAN
BY DEF SearchState

\* What a step of the text branch leaves alone.
SameFinds(s, q) == s.req = q.req /\ s.results = q.results /\ s.vectors = q.vectors /\ s.ids = q.ids

LEMMA DisturbedState ==
    ASSUME NEW q, q \in SearchState, NEW s, s = [q EXCEPT !.quiet = FALSE]
    PROVE  s \in SearchState /\ SameFinds(s, q) /\ s.texts = q.texts
BY DEF SearchState, SameFinds

LEMMA RescoredState ==
    ASSUME NEW q, q \in SearchState, NEW scores \in IntFunctions, NEW s, s = [q EXCEPT !.textScores = scores]
    PROVE  s \in SearchState /\ SameFinds(s, q) /\ s.texts = q.texts
BY DEF SearchState, SameFinds

LEMMA MovedState ==
    ASSUME NEW q, q \in SearchState, NEW p \in SearchPhases, NEW s, s = [q EXCEPT !.phase = p]
    PROVE  s \in SearchState /\ SameFinds(s, q) /\ s.texts = q.texts
BY DEF SearchState, SameFinds

LEMMA NothingYet == << >> \in IntFunctions /\ << >> \in Seq(Nat) /\ InRank(<< >>) /\ ToSet(<< >>) = {}
<1>1. << >> = [x \in {} |-> 0]
    OBVIOUS
<1>2. << >> \in [{} -> Int]
    BY <1>1
<1>3. InRank(<< >>) /\ ToSet(<< >>) = {}
    BY DEF InRank, ToSet
<1> QED BY <1>2, <1>3 DEF IntFunctions

LEMMA SearchBegins == SearchAssumption /\ SearchInit => SearchInv
<1> SUFFICES ASSUME SearchAssumption, SearchInit PROVE SearchInv
    OBVIOUS
<1>1. rows \in SearchTables /\ indexed = rows /\ lastKey = KeysGiven /\ search = Idle
    BY DEF SearchInit
<1>2. IsFiniteSet(rows) /\ UniqueRows(rows) /\ \A row \in rows : TypedRow(row) /\ row.key \in 1..KeysGiven
    BY <1>1 DEF SearchAssumption
<1>3. KeysGiven \in Nat
    BY DEF SearchAssumption
<1>4. \A row \in rows : row.key \in Nat /\ row.key <= KeysGiven
    BY <1>2, <1>3
<1>5. GoodTable(rows)
    BY <1>2, <1>4 DEF GoodTable
<1>6. TablesAgree
    BY <1>1, <1>2, <1>5 DEF TablesAgree, UniqueRows
<1> QED BY <1>1, <1>3, <1>4, <1>6 DEF SearchInv

LEMMA BeginSearchKeeps ==
    ASSUME SearchAssumption, SearchInv, BeginSearch
    PROVE  SearchInv'
<1>1. seen' = {rows, indexed} /\ UNCHANGED <<rows, lastKey, indexed, setup, writes>>
    BY DEF BeginSearch
<1>2. TablesAgree' /\ Watched'
    BY <1>1 DEF SearchInv, TablesAgree, GoodTable, UniqueRows, TypedRow, Watched
<1>3. PICK request \in Requests :
          search' = IF ~ValidRequest(Resolved(request)) THEN Idle
                    ELSE [phase |-> "vector", req |-> Resolved(request), plan |-> PlanOf(Resolved(request)),
                          vectors |-> << >>, vectorScores |-> << >>, texts |-> << >>, textScores |-> << >>,
                          ids |-> << >>, contents |-> << >>, results |-> << >>, quiet |-> indexed = rows]
    BY DEF BeginSearch
<1>4. PICK r \in SearchRequest : r = Resolved(request)
    <2>1. request \in SearchRequest
        BY DEF SearchAssumption
    <2> QED BY <2>1, ResolvedFacts
<1>5. PICK plan \in {"none", "vectorFirst", "textFirst", "balanced"} : plan = PlanOf(r)
    BY DEF PlanOf
<1>6. CASE search' = Idle
    BY <1>1, <1>2, <1>6 DEF SearchInv, Idle
<1>7. CASE search' # Idle
    <2>1. PICK quiet \in BOOLEAN : quiet = (indexed = rows)
        OBVIOUS
    <2>2. search' = [phase |-> "vector", req |-> r, plan |-> plan, vectors |-> << >>, vectorScores |-> << >>,
                     texts |-> << >>, textScores |-> << >>, ids |-> << >>, contents |-> << >>,
                     results |-> << >>, quiet |-> quiet]
        BY <1>3, <1>4, <1>5, <1>7, <2>1
    <2>3. search' \in SearchState
        BY <2>2, NothingYet DEF SearchState, SearchPhases, InRank
    <2>4. Found(search)'
        BY <2>2, NothingYet DEF Found
    <2>5. search'.results = << >> /\ search'.req = r /\ r.k \in Nat
        BY <2>2 DEF SearchRequest
    <2>6. InRank(search.results)' /\ (Len(search.results) <= search.req.k)'
        BY <2>5, NothingYet
    <2>7. SearchHolds(search)'
        BY <1>2, <2>3, <2>4, <2>6 DEF SearchHolds
    <2> QED BY <1>1, <1>2, <2>7 DEF SearchInv
<1> QED BY <1>6, <1>7

-----------------------------------------------------------------------------
(* The statements.                                                         *)

LEMMA SearchingHolds ==
    ASSUME SearchInv, search.phase \in SearchPhases
    PROVE  SearchHolds(search) /\ search \in SearchState /\ TablesAgree /\ Watched
           /\ InRank(search.results) /\ Len(search.results) <= search.req.k /\ Found(search)
<1>1. search # Idle
    BY DEF Idle, SearchPhases
<1> QED BY <1>1 DEF SearchInv, SearchHolds

LEMMA HitsFound ==
    ASSUME NEW hits \in Seq(Hit), NEW r, \A i \in DOMAIN hits : InSeen(hits[i].id, r)
    PROVE  /\ IdSeq(hits) \in Seq(Nat) /\ ScoresOf(hits) \in IntFunctions
           /\ \A id \in ToSet(IdSeq(hits)) : InSeen(id, r)
<1>1. \A h \in Hit : h.id \in Nat /\ h.score \in Int
    BY DEF Hit
<1>2. IdSeq(hits) \in Seq(Nat) /\ \A id \in ToSet(IdSeq(hits)) : \E i \in DOMAIN hits : hits[i].id = id
    BY <1>1, IdsOfSequence
<1> DEFINE ids == {hits[i].id : i \in DOMAIN hits}
           score(id) == hits[CHOOSE i \in DOMAIN hits : hits[i].id = id].score
<1>3. ids \in SUBSET Nat
    BY <1>1
<1>4. ASSUME NEW id \in ids PROVE score(id) \in Int
    <2>1. PICK j : j = CHOOSE i \in DOMAIN hits : hits[i].id = id
        OBVIOUS
    <2>2. j \in DOMAIN hits
        BY <2>1
    <2>3. hits[j] \in Hit
        BY <2>2
    <2> QED BY <1>1, <2>1, <2>3
<1>5. ScoresOf(hits) = [id \in ids |-> score(id)]
    BY DEF ScoresOf
<1>6. ScoresOf(hits) \in IntFunctions
    <2> HIDE DEF ids, score
    <2>1. ScoresOf(hits) \in [ids -> Int]
        BY <1>4, <1>5
    <2> QED BY <1>3, <2>1 DEF IntFunctions
<1> QED BY <1>2, <1>6

LEMMA WithVectorsHolds ==
    ASSUME NEW s, SearchHolds(s), NEW hits \in Seq(Hit), \A i \in DOMAIN hits : InSeen(hits[i].id, s.req),
           NEW next \in SearchPhases
    PROVE  SearchHolds(WithVectors(s, hits, next))
<1> DEFINE t == WithVectors(s, hits, next)
<1>1. s \in SearchState /\ IdSeq(hits) \in Seq(Nat) /\ ScoresOf(hits) \in IntFunctions
      /\ \A id \in ToSet(IdSeq(hits)) : InSeen(id, s.req)
    BY HitsFound DEF SearchHolds
<1>2. t = [s EXCEPT !.vectors = IdSeq(hits), !.vectorScores = ScoresOf(hits), !.phase = next]
    BY DEF WithVectors
<1>3. t \in SearchState /\ t.req = s.req /\ t.vectors = IdSeq(hits) /\ t.texts = s.texts /\ t.ids = s.ids
      /\ t.results = s.results
    BY <1>1, <1>2 DEF SearchState
<1> HIDE DEF t
<1>4. SearchHolds(t)
    BY <1>1, <1>3 DEF SearchHolds, Found
<1> QED BY <1>4 DEF t

LEMMA SearchVectorsKeeps ==
    ASSUME SearchAssumption, SearchInv, SearchVectors
    PROVE  SearchInv'
<1> DEFINE r == search.req
           only == VectorCandidates(r, r.k)
           more == VectorCandidates(r, Share(r, search.plan, Tuning.primary))
           alone == [i \in DOMAIN only |-> Result(only[i].id, only[i].score, 0, 100 * only[i].score)]
<1>1. search.phase = "vector" /\ search.phase \in SearchPhases
    BY DEF SearchVectors, SearchPhases
<1>2. SearchHolds(search) /\ search \in SearchState /\ TablesAgree /\ Watched /\ Found(search)
    BY <1>1, SearchingHolds
<1>3. r \in SearchRequest /\ r.vec \in Seq(Int) /\ r.k \in Nat
    BY <1>2 DEF SearchState, SearchRequest
<1>4. PICK s : /\ Goes(s)
               /\ \/ s = [search EXCEPT !.phase = "payload", !.results = alone]
                  \/ s = [search EXCEPT !.phase = "text"]
                  \/ s = WithVectors(search, more, "text")
    BY DEF SearchVectors
<1>5. CASE s = [search EXCEPT !.phase = "payload", !.results = alone]
    <2>1. /\ only \in Seq(Hit) /\ Len(only) <= r.k
          /\ \A i, j \in DOMAIN only : i < j => Better(only[i], only[j]) /\ only[i].id # only[j].id
          /\ \A i \in DOMAIN only : InSeen(only[i].id, r)
        BY <1>2, <1>3, VectorCandidatesFacts
    <2>11. only \in Seq(Hit)
        BY <2>1
    <2> HIDE DEF only
    <2>12. \A h \in Hit : h.id \in Nat /\ h.score \in Int
        BY DEF Hit
    <2>13. DOMAIN only = 1..Len(only) /\ Len(only) \in Nat /\ \A i \in 1..Len(only) : only[i] \in Hit
        BY <2>11
    <2>2. DOMAIN only = 1..Len(only) /\ Len(only) \in Nat
          /\ \A i \in 1..Len(only) : only[i].id \in Nat /\ only[i].score \in Int
        BY <2>12, <2>13
    <2>3. alone = [i \in 1..Len(only) |-> Result(only[i].id, only[i].score, 0, 100 * only[i].score)]
        BY <2>2
    <2>4. \A i \in 1..Len(only) : Result(only[i].id, only[i].score, 0, 100 * only[i].score) \in AResult
        BY <2>2 DEF Result, AResult
    <2>5. alone \in Seq(AResult) /\ Len(alone) = Len(only) /\ DOMAIN alone = DOMAIN only
          /\ \A i \in DOMAIN only : alone[i] = Result(only[i].id, only[i].score, 0, 100 * only[i].score)
        BY <2>2, <2>3, <2>4
    <2> HIDE DEF alone
    <2>6. ASSUME NEW i \in DOMAIN alone, NEW j \in DOMAIN alone, i < j
          PROVE  Above(alone[i], alone[j]) /\ alone[i].id # alone[j].id
        <3>1. Better(only[i], only[j]) /\ only[i].id # only[j].id
            BY <2>1, <2>5, <2>6
        <3>2. PICK a \in Int, b \in Int, x \in Nat, y \in Nat :
                 a = only[i].score /\ b = only[j].score /\ x = only[i].id /\ y = only[j].id
            BY <2>2, <2>5
        <3>3. alone[i] = Result(x, a, 0, 100 * a) /\ alone[j] = Result(y, b, 0, 100 * b)
            BY <2>5, <3>2
        <3>4. (a > b \/ (a = b /\ x < y)) /\ x # y
            BY <3>1, <3>2 DEF Better
        <3>5. CASE a > b
            <4>1. 100 * a > 100 * b
                BY <3>5
            <4> QED BY <3>3, <3>4, <4>1 DEF Above, Result
        <3>6. CASE a = b
            BY <3>3, <3>4, <3>6 DEF Above, Result
        <3> QED BY <3>4, <3>5, <3>6
    <2>7. InRank(alone) /\ Len(alone) <= r.k
        BY <2>1, <2>5, <2>6 DEF InRank
    <2>8. \A i \in DOMAIN alone : InSeen(alone[i].id, r)
        BY <2>1, <2>5 DEF Result
    <2>9. s \in SearchState /\ s.req = search.req /\ s.results = alone /\ s.vectors = search.vectors
          /\ s.texts = search.texts /\ s.ids = search.ids
        BY <1>2, <1>5, <2>5 DEF SearchState, SearchPhases
    <2>10. SearchHolds(s)
        BY <1>2, <2>7, <2>8, <2>9 DEF SearchHolds, Found
    <2> QED BY <1>4, <2>10, GoesKeeps
<1>6. CASE s = [search EXCEPT !.phase = "text"]
    <2>1. s \in SearchState /\ s.req = search.req /\ s.results = search.results /\ s.vectors = search.vectors
          /\ s.texts = search.texts /\ s.ids = search.ids
        BY <1>2, <1>6 DEF SearchState, SearchPhases
    <2>2. SearchHolds(s)
        BY <1>2, <2>1 DEF SearchHolds, Found
    <2> QED BY <1>4, <2>2, GoesKeeps
<1>7. CASE s = WithVectors(search, more, "text")
    <2>1. Share(r, search.plan, Tuning.primary) \in Nat
        BY <1>3, ShareFacts DEF SearchAssumption
    <2>2. more \in Seq(Hit) /\ \A i \in DOMAIN more : InSeen(more[i].id, r)
        BY <1>2, <1>3, <2>1, VectorCandidatesFacts
    <2>3. "text" \in SearchPhases
        BY DEF SearchPhases
    <2> HIDE DEF more
    <2>4. SearchHolds(s)
        BY <1>2, <1>7, <2>2, <2>3, WithVectorsHolds
    <2> QED BY <1>4, <2>4, GoesKeeps
<1> QED BY <1>4, <1>5, <1>6, <1>7

LEMMA SearchTextKeeps ==
    ASSUME SearchAssumption, SearchInv, SearchText
    PROVE  SearchInv'
<1> DEFINE r == search.req
           hits == TextCandidates(r, Share(r, search.plan, Tuning.primary))
           phase == IF search.plan = "textFirst" THEN "similar" ELSE "merge"
           keeps == (r.vec = << >> \/ search.plan = "textFirst") /\ hits # << >>
           scores == IF keeps THEN TextScores(ToSet(hits)) ELSE << >>
           next == [search EXCEPT !.phase = phase]
<1>1. search.phase = "text" /\ search.phase \in SearchPhases
    BY DEF SearchText, SearchPhases
<1>2. SearchHolds(search) /\ search \in SearchState /\ TablesAgree /\ Watched /\ Found(search)
    BY <1>1, SearchingHolds
<1>3. r \in SearchRequest
    BY <1>2 DEF SearchState
<1>4. PICK s : Goes(s) /\ (s = [next EXCEPT !.texts = IdSeq(hits), !.textScores = scores]
                           \/ s = next \/ s = [next EXCEPT !.quiet = FALSE])
    BY DEF SearchText
<1>5. hits \in Seq(rows) /\ \A i \in DOMAIN hits : Matches(r, hits[i])
    <2>1. Share(r, search.plan, Tuning.primary) \in Nat
        BY <1>3, ShareFacts DEF SearchAssumption
    <2> QED BY <1>2, <2>1, TextCandidatesFacts
<1>6. phase \in SearchPhases
    BY DEF SearchPhases
<1> HIDE DEF hits, phase
<1>7. \A row \in rows : row.id \in Nat
    BY <1>2 DEF TablesAgree, GoodTable, TypedRow
<1>8. IdSeq(hits) \in Seq(Nat) /\ \A id \in ToSet(IdSeq(hits)) : InSeen(id, r)
    <2>1. IdSeq(hits) \in Seq(Nat) /\ \A id \in ToSet(IdSeq(hits)) : \E i \in DOMAIN hits : hits[i].id = id
        <3>1. hits \in Seq(rows)
            BY <1>5
        <3>2. NaturalIds(rows)
            BY <1>7 DEF NaturalIds
        <3>3. IdsListed(hits)
            BY <3>1, <3>2, SequenceListsItsIds
        <3> QED BY <3>3 DEF IdsListed
    <2>2. \A i \in DOMAIN hits : hits[i] \in rows
        BY <1>5
    <2>3. \A i \in DOMAIN hits : InSeen(hits[i].id, r)
        BY <1>2, <1>5, <2>2 DEF InSeen, Watched
    <2>4. ASSUME NEW id \in ToSet(IdSeq(hits)) PROVE InSeen(id, r)
        <3>1. PICK i \in DOMAIN hits : hits[i].id = id
            BY <2>1
        <3> QED BY <2>3, <3>1
    <2> QED BY <2>1, <2>4
<1>9. scores \in IntFunctions
    <2>1. CASE keeps
        <3>1. ToSet(hits) \subseteq rows
            BY <1>5 DEF ToSet
        <3>2. GoodTable(ToSet(hits))
            BY <1>2, <3>1, PartOfTable DEF TablesAgree
        <3>3. ToSet(hits) # {}
            <4>1. hits # << >>
                BY <2>1
            <4>2. 1 \in DOMAIN hits
                BY <1>5, <4>1
            <4> QED BY <4>2 DEF ToSet
        <3> QED BY <2>1, <3>2, <3>3, TextScoresFacts
    <2>2. CASE ~keeps
        BY <2>2, NothingYet
    <2> QED BY <2>1, <2>2
<1> HIDE DEF scores
<1>10. s \in SearchState /\ s.req = search.req /\ s.results = search.results /\ s.vectors = search.vectors
       /\ s.ids = search.ids /\ s.texts \in {search.texts, IdSeq(hits)}
    <2>1. next \in SearchState /\ SameFinds(next, search) /\ next.texts = search.texts
        BY <1>2, <1>6, MovedState
    <2> HIDE DEF next
    <2>2. CASE s = [next EXCEPT !.texts = IdSeq(hits), !.textScores = scores]
        <3> DEFINE texts == IdSeq(hits)
        <3>1. texts \in Seq(Nat) /\ s = [next EXCEPT !.texts = texts, !.textScores = scores]
            BY <1>8, <2>2
        <3>2. next \in SearchState
            BY <2>1
        <3> HIDE DEF texts
        <3>3. s \in SearchState /\ SameFinds(s, next) /\ s.texts = texts
            BY <1>9, <3>1, <3>2 DEF SearchState, SameFinds
        <3> QED BY <2>1, <3>3 DEF SameFinds, texts
    <2>3. CASE s = next
        BY <2>1, <2>3 DEF SameFinds
    <2>4. CASE s = [next EXCEPT !.quiet = FALSE]
        <3>1. s \in SearchState /\ SameFinds(s, next) /\ s.texts = next.texts
            BY <2>1, <2>4, DisturbedState
        <3> QED BY <2>1, <3>1 DEF SameFinds
    <2> QED BY <1>4, <2>2, <2>3, <2>4
<1>11. SearchHolds(s)
    BY <1>2, <1>8, <1>10 DEF SearchHolds, Found
<1> QED BY <1>4, <1>11, GoesKeeps

LEMMA SearchSimilarKeeps ==
    ASSUME SearchAssumption, SearchInv, SearchSimilar
    PROVE  SearchInv'
<1> DEFINE r == search.req
           more == VectorCandidates(r, Share(r, "textFirst", Tuning.secondary))
<1>1. search.phase = "similar" /\ search.phase \in SearchPhases /\ Goes(WithVectors(search, more, "merge"))
    BY DEF SearchSimilar, SearchPhases
<1>2. SearchHolds(search) /\ search \in SearchState /\ TablesAgree /\ Watched
    BY <1>1, SearchingHolds
<1>3. r \in SearchRequest /\ r.vec \in Seq(Int)
    BY <1>2 DEF SearchState, SearchRequest
<1>4. Share(r, "textFirst", Tuning.secondary) \in Nat
    BY <1>3, ShareFacts DEF SearchAssumption
<1>5. more \in Seq(Hit) /\ \A i \in DOMAIN more : InSeen(more[i].id, r)
    BY <1>2, <1>3, <1>4, VectorCandidatesFacts
<1>6. "merge" \in SearchPhases
    BY DEF SearchPhases
<1> HIDE DEF more
<1>7. SearchHolds(WithVectors(search, more, "merge"))
    BY <1>2, <1>5, <1>6, WithVectorsHolds
<1> QED BY <1>1, <1>7, GoesKeeps

LEMMA ValueIsInteger ==
    ASSUME NEW f \in IntFunctions, NEW x
    PROVE  ValueAt(f, x) \in Int
<1>1. PICK D \in SUBSET Nat : f \in [D -> Int]
    BY DEF IntFunctions
<1>2. DOMAIN f = D /\ \A y \in D : f[y] \in Int
    BY <1>1
<1>3. CASE x \in DOMAIN f
    <2>1. ValueAt(f, x) = f[x] /\ f[x] \in Int
        BY <1>2, <1>3 DEF ValueAt
    <2> QED BY <2>1
<1>4. CASE x \notin DOMAIN f
    <2>1. ValueAt(f, x) = 0
        BY <1>4 DEF ValueAt
    <2> QED BY <2>1
<1> QED BY <1>3, <1>4

LEMMA RerankedFacts ==
    ASSUME SearchAssumption, NEW r \in SearchRequest, NEW s, s \in SearchState, NEW ids \in Seq(Nat)
    PROVE  Reranked(r, s, ids) \in Seq(Nat) /\ ToSet(Reranked(r, s, ids)) \subseteq ToSet(ids)
<1> DEFINE n == RerankLimit(r, s.plan)
           v == [id \in ToSet(ids) |-> ValueAt(s.vectorScores, id)]
           t == [id \in ToSet(ids) |-> ValueAt(s.textScores, id)]
           scored == ScoresFor(ids, v, t)
           ranked == RankedResults(r, scored, n)
<1>1. \A id \in ToSet(ids) : v[id] \in Int /\ t[id] \in Int
    BY SearchStateFields, ValueIsInteger
<1>2. scored = {[id |-> id, vector |-> ValueAt(s.vectorScores, id), text |-> ValueAt(s.textScores, id)] :
                  id \in ToSet(ids)}
    BY DEF ScoresFor
<1>3. Reranked(r, s, ids) \in {ids, IdSeq(ranked)}
    BY <1>2 DEF Reranked
<1> HIDE DEF v, t
<1>4. IsFiniteSet(scored) /\ scored \subseteq Scored /\ Distinct(scored) /\ \A e \in scored : e.id \in ToSet(ids)
    BY <1>1, ScoredIds
<1>5. n \in Nat
    BY RerankLimitFacts
<1> HIDE DEF scored, n
<1>10. IsFiniteSet(scored)
    BY <1>4
<1>11. scored \subseteq Scored
    BY <1>4
<1>12. Distinct(scored)
    BY <1>4
<1>14. InRank(ranked) /\ Among(ranked, scored)
    BY <1>5, <1>10, <1>11, <1>12, RankedResultsFacts
<1>6. \A i \in DOMAIN ranked : \E e \in scored : e.id = ranked[i].id
    BY <1>14 DEF Among
<1> HIDE DEF ranked
<1>7. ranked \in Seq(AResult)
    BY <1>14 DEF InRank
<1>13. NaturalIds(AResult)
    BY DEF AResult, NaturalIds
<1>15. IdsListed(ranked)
    BY <1>7, <1>13, SequenceListsItsIds
<1>8. IdSeq(ranked) \in Seq(Nat) /\ \A id \in ToSet(IdSeq(ranked)) : \E i \in DOMAIN ranked : ranked[i].id = id
    BY <1>15 DEF IdsListed
<1>9. ASSUME NEW id \in ToSet(IdSeq(ranked)) PROVE id \in ToSet(ids)
    <2>1. PICK i \in DOMAIN ranked : ranked[i].id = id
        BY <1>8
    <2>2. PICK e \in scored : e.id = ranked[i].id
        BY <1>6
    <2> QED BY <1>4, <2>1, <2>2
<1> QED BY <1>3, <1>8, <1>9

LEMMA SearchMergeKeeps ==
    ASSUME SearchAssumption, SearchInv, SearchMerge
    PROVE  SearchInv'
<1> DEFINE r == search.req
           ids == IF search.plan = "textFirst" THEN Merged(search.texts, search.vectors, r.limit)
                  ELSE Merged(search.vectors, search.texts, r.limit)
           all == IF Backfills(search, ids) THEN Merged(ids, Newest(r), r.limit) ELSE ids
           final == Reranked(r, search, all)
           s == [search EXCEPT !.phase = "scores", !.ids = final]
<1>1. search.phase = "merge" /\ search.phase \in SearchPhases /\ Goes(s)
    BY DEF SearchMerge, SearchPhases
<1>2. SearchHolds(search) /\ search \in SearchState /\ TablesAgree /\ Watched /\ Found(search)
    BY <1>1, SearchingHolds
<1>3. r \in SearchRequest /\ r.limit \in Nat /\ search.vectors \in Seq(Nat) /\ search.texts \in Seq(Nat)
    BY <1>2 DEF SearchState, SearchRequest
<1>4. ids \in Seq(Nat) /\ ToSet(ids) \subseteq ToSet(search.vectors) \cup ToSet(search.texts)
    BY <1>3, MergedFacts
<1>5. \A id \in ToSet(ids) : InSeen(id, r)
    BY <1>2, <1>4 DEF Found
<1>6. Newest(r) \in Seq(Nat) /\ \A id \in ToSet(Newest(r)) : \E row \in rows : row.id = id /\ Matches(r, row)
    BY <1>2, <1>3, NewestFacts
<1>7. \A id \in ToSet(Newest(r)) : InSeen(id, r)
    BY <1>2, <1>6 DEF InSeen, Watched
<1> HIDE DEF ids
<1>8. all \in Seq(Nat) /\ ToSet(all) \subseteq ToSet(ids) \cup ToSet(Newest(r))
    BY <1>3, <1>4, <1>6, MergedFacts
<1>9. \A id \in ToSet(all) : InSeen(id, r)
    BY <1>5, <1>7, <1>8
<1> HIDE DEF all
<1>10. final \in Seq(Nat) /\ ToSet(final) \subseteq ToSet(all)
    BY <1>2, <1>3, <1>8, RerankedFacts
<1> HIDE DEF final
<1>11. s \in SearchState /\ s.req = search.req /\ s.results = search.results /\ s.vectors = search.vectors
       /\ s.texts = search.texts /\ s.ids = final
    BY <1>2, <1>10 DEF SearchState, SearchPhases
<1> HIDE DEF s
<1>12. SearchHolds(s)
    BY <1>2, <1>9, <1>10, <1>11 DEF SearchHolds, Found
<1> QED BY <1>1, <1>12, GoesKeeps

LEMMA Overrides ==
    ASSUME NEW f \in IntFunctions, NEW g \in IntFunctions
    PROVE  Overriding(f, g) \in IntFunctions
<1>1. PICK D \in SUBSET Nat, E \in SUBSET Nat : f \in [D -> Int] /\ g \in [E -> Int]
    BY DEF IntFunctions
<1>2. DOMAIN f = D /\ DOMAIN g = E /\ (\A x \in D : f[x] \in Int) /\ (\A x \in E : g[x] \in Int)
    BY <1>1
<1> DEFINE value(x) == IF x \in D THEN f[x] ELSE g[x]
<1>3. \A x \in D \cup E : value(x) \in Int
    BY <1>2
<1>4. Overriding(f, g) = [x \in D \cup E |-> value(x)]
    BY <1>2 DEF Overriding
<1> HIDE DEF value
<1>5. Overriding(f, g) \in [D \cup E -> Int] /\ D \cup E \in SUBSET Nat
    BY <1>3, <1>4
<1> QED BY <1>5 DEF IntFunctions

LEMMA SearchScoresKeeps ==
    ASSUME SearchAssumption, SearchInv, SearchScores
    PROVE  SearchInv'
<1> DEFINE missing == ToSet(search.ids) \ DOMAIN search.textScores
           hits == TextHits({row \in TextIndex : row.id \in missing})
           next == [search EXCEPT !.phase = "contents"]
           scores == Overriding(TextScores(hits), search.textScores)
<1>1. search.phase = "scores" /\ search.phase \in SearchPhases
    BY DEF SearchScores, SearchPhases
<1>2. SearchHolds(search) /\ search \in SearchState /\ TablesAgree
    BY <1>1, SearchingHolds
<1>3. PICK s : Goes(s) /\ (s = next \/ s = [next EXCEPT !.quiet = FALSE]
                           \/ (hits # {} /\ s = [next EXCEPT !.textScores = scores]))
    BY DEF SearchScores
<1>4. hits # {} => scores \in IntFunctions
    <2> SUFFICES ASSUME hits # {} PROVE scores \in IntFunctions
        OBVIOUS
    <2>1. hits \subseteq rows
        BY DEF TextHits, TextIndex
    <2>2. GoodTable(hits)
        BY <1>2, <2>1, PartOfTable DEF TablesAgree
    <2> HIDE DEF hits
    <2>3. TextScores(hits) \in IntFunctions
        BY <2>2, TextScoresFacts
    <2>4. search.textScores \in IntFunctions
        BY <1>2, SearchStateFields
    <2> QED BY <2>3, <2>4, Overrides
<1> HIDE DEF hits, scores
<1>7. next \in SearchState /\ SameFinds(next, search) /\ next.texts = search.texts
    <2>1. "contents" \in SearchPhases
        BY DEF SearchPhases
    <2> QED BY <1>2, <2>1, MovedState
<1> HIDE DEF next
<1>8. s = [next EXCEPT !.quiet = FALSE] =>
        s \in SearchState /\ SameFinds(s, search) /\ s.texts = search.texts
    <2> SUFFICES ASSUME s = [next EXCEPT !.quiet = FALSE]
                 PROVE  s \in SearchState /\ SameFinds(s, search) /\ s.texts = search.texts
        OBVIOUS
    <2>1. s \in SearchState /\ SameFinds(s, next) /\ s.texts = next.texts
        BY <1>7, DisturbedState
    <2>2. SameFinds(s, search) /\ s.texts = search.texts
        BY <1>7, <2>1 DEF SameFinds
    <2> QED BY <2>1, <2>2
<1>9. hits # {} /\ s = [next EXCEPT !.textScores = scores] =>
        s \in SearchState /\ SameFinds(s, search) /\ s.texts = search.texts
    <2> SUFFICES ASSUME hits # {}, s = [next EXCEPT !.textScores = scores]
                 PROVE  s \in SearchState /\ SameFinds(s, search) /\ s.texts = search.texts
        OBVIOUS
    <2>1. s \in SearchState /\ SameFinds(s, next) /\ s.texts = next.texts
        BY <1>4, <1>7, RescoredState
    <2>2. SameFinds(s, search) /\ s.texts = search.texts
        BY <1>7, <2>1 DEF SameFinds
    <2> QED BY <2>1, <2>2
<1>5. s = next => s \in SearchState /\ SameFinds(s, search) /\ s.texts = search.texts
    BY <1>7
<1>11. s \in SearchState /\ SameFinds(s, search) /\ s.texts = search.texts
    BY <1>3, <1>5, <1>8, <1>9
<1>10. /\ s \in SearchState /\ s.req = search.req /\ s.results = search.results
       /\ s.vectors = search.vectors /\ s.texts = search.texts /\ s.ids = search.ids
    BY <1>11 DEF SameFinds
<1>6. SearchHolds(s)
    BY <1>2, <1>10 DEF SearchHolds, Found
<1> QED BY <1>3, <1>6, GoesKeeps

LEMMA FetchedRows ==
    ASSUME TablesAgree, NEW ids
    PROVE  /\ DOMAIN RowsById(ids) \subseteq Nat
           /\ \A id \in DOMAIN RowsById(ids) : RowsById(ids)[id] \in rows
<1>1. \A row \in rows : row.id \in Nat
    BY DEF TablesAgree, GoodTable, TypedRow
<1>2. DOMAIN RowsById(ids) = {row.id : row \in rows} \cap ids
      /\ \A id \in {row.id : row \in rows} \cap ids :
            RowsById(ids)[id] = CHOOSE row \in rows : row.id = id
    BY DEF RowsById
<1> QED BY <1>1, <1>2

LEMMA SearchContentsKeeps ==
    ASSUME SearchAssumption, SearchInv, SearchContents
    PROVE  SearchInv'
<1> DEFINE missing == ToSet(search.ids) \ DOMAIN search.textScores
           s == [search EXCEPT !.phase = "embeddings", !.contents = OverlapsOf(missing)]
<1>1. search.phase = "contents" /\ search.phase \in SearchPhases /\ Goes(s)
    BY DEF SearchContents, SearchPhases
<1>2. SearchHolds(search) /\ search \in SearchState /\ TablesAgree
    BY <1>1, SearchingHolds
<1>3. OverlapsOf(missing) \in IntFunctions
    <2> DEFINE D == DOMAIN RowsById(missing)
    <2>1. D \in SUBSET Nat /\ \A id \in D : RowsById(missing)[id] \in rows
        BY <1>2, FetchedRows
    <2>2. \A row \in rows : row.text \in DOMAIN Rank
        BY <1>2 DEF TablesAgree, GoodTable, TypedRow
    <2>3. \A id \in D : Overlap[RowsById(missing)[id].text] \in Int
        <3>1. Overlap \in [DOMAIN Rank -> Nat]
            BY DEF SearchAssumption
        <3>2. \A x \in DOMAIN Rank : Overlap[x] \in Int
            BY <3>1
        <3> QED BY <2>1, <2>2, <3>2
    <2>4. OverlapsOf(missing) = [id \in D |-> Overlap[RowsById(missing)[id].text]]
        BY DEF OverlapsOf
    <2> HIDE DEF D
    <2>5. OverlapsOf(missing) \in [D -> Int]
        BY <2>3, <2>4
    <2> QED BY <2>1, <2>5 DEF IntFunctions
<1> HIDE DEF missing
<1>5. s \in SearchState /\ s.req = search.req /\ s.results = search.results /\ s.vectors = search.vectors
      /\ s.texts = search.texts /\ s.ids = search.ids
    BY <1>2, <1>3 DEF SearchState, SearchPhases
<1> HIDE DEF s
<1>6. SearchHolds(s)
    BY <1>2, <1>5 DEF SearchHolds, Found
<1> QED BY <1>1, <1>6, GoesKeeps

LEMMA SearchEmbeddingsKeeps ==
    ASSUME SearchAssumption, SearchInv, SearchEmbeddings
    PROVE  SearchInv'
<1> DEFINE r == search.req
           ids == search.ids
           fetched == EmbeddingsOf(ToSet(ids) \ DOMAIN search.vectorScores)
           vector(id) == IF r.vec = << >> THEN 0
                         ELSE IF id \in DOMAIN search.vectorScores THEN search.vectorScores[id]
                         ELSE IF id \in DOMAIN fetched /\ Len(fetched[id]) = Len(r.vec)
                              THEN Similarity(r.vec, fetched[id])
                         ELSE 0
           text(id) == IF id \in DOMAIN search.textScores THEN search.textScores[id]
                       ELSE ValueAt(search.contents, id)
           v == [id \in ToSet(ids) |-> vector(id)]
           t == [id \in ToSet(ids) |-> text(id)]
           scored == ScoresFor(ids, v, t)
           ranked == RankedResults(r, scored, r.k)
           s == [search EXCEPT !.phase = "payload", !.results = ranked]
<1>1. search.phase = "embeddings" /\ search.phase \in SearchPhases
    BY DEF SearchEmbeddings, SearchPhases
<1>2. SearchHolds(search) /\ search \in SearchState /\ TablesAgree /\ Watched /\ Found(search)
    BY <1>1, SearchingHolds
<1>3. r \in SearchRequest /\ r.vec \in Seq(Int) /\ r.k \in Nat /\ ids \in Seq(Nat)
    BY <1>2 DEF SearchState, SearchRequest
<1>4. Goes(s)
    <2>1. scored = {[id |-> id, vector |-> vector(id), text |-> text(id)] : id \in ToSet(ids)}
        BY DEF ScoresFor
    <2> HIDE DEF scored
    <2> QED BY <2>1 DEF SearchEmbeddings
<1>5. ASSUME NEW id \in ToSet(ids) PROVE vector(id) \in Int
    <2>1. \A x \in DOMAIN fetched : fetched[x] \in Seq(Int)
        <3>1. \A row \in rows : row.vec \in Seq(Int)
            BY <1>2 DEF TablesAgree, GoodTable, TypedRow
        <3> QED BY <1>2, <3>1, FetchedRows DEF EmbeddingsOf
    <2> HIDE DEF fetched
    <2>2. CASE r.vec = << >>
        <3>1. vector(id) = 0
            BY <2>2
        <3> QED BY <3>1
    <2>3. CASE r.vec # << >> /\ id \in DOMAIN search.vectorScores
        <3>1. vector(id) = ValueAt(search.vectorScores, id)
            BY <2>3 DEF ValueAt
        <3> HIDE DEF vector
        <3> QED BY <1>2, <3>1, ValueIsInteger, SearchStateFields
    <2>4. CASE r.vec # << >> /\ id \notin DOMAIN search.vectorScores
               /\ id \in DOMAIN fetched /\ Len(fetched[id]) = Len(r.vec)
        <3>1. vector(id) = Similarity(r.vec, fetched[id])
            BY <2>4
        <3>2. fetched[id] \in Seq(Int)
            BY <2>1, <2>4
        <3> HIDE DEF vector
        <3> QED BY <1>3, <3>1, <3>2, SimilarityIsInteger
    <2>5. CASE r.vec # << >> /\ id \notin DOMAIN search.vectorScores
               /\ ~(id \in DOMAIN fetched /\ Len(fetched[id]) = Len(r.vec))
        <3>1. vector(id) = 0
            BY <2>5
        <3> QED BY <3>1
    <2> QED BY <2>2, <2>3, <2>4, <2>5
<1>6. ASSUME NEW id \in ToSet(ids) PROVE text(id) \in Int
    <2>1. text(id) = ValueAt(search.textScores, id) \/ text(id) = ValueAt(search.contents, id)
        BY DEF ValueAt
    <2> HIDE DEF text
    <2> QED BY <1>2, <2>1, ValueIsInteger, SearchStateFields
<1> HIDE DEF vector, text
<1>7. \A id \in ToSet(ids) : v[id] \in Int /\ t[id] \in Int
    BY <1>5, <1>6
<1> HIDE DEF v, t
<1>8. IsFiniteSet(scored) /\ scored \subseteq Scored /\ Distinct(scored) /\ \A e \in scored : e.id \in ToSet(ids)
    BY <1>3, <1>7, ScoredIds
<1> HIDE DEF scored
<1>9. IsFiniteSet(scored)
    BY <1>8
<1>10. scored \subseteq Scored
    BY <1>8
<1>11. Distinct(scored)
    BY <1>8
<1>12. InRank(ranked) /\ Len(ranked) <= r.k /\ Among(ranked, scored)
    BY <1>3, <1>9, <1>10, <1>11, RankedResultsFacts
<1> HIDE DEF ranked
<1>13. ASSUME NEW i \in DOMAIN ranked PROVE InSeen(ranked[i].id, r)
    <2>1. PICK e \in scored : e.id = ranked[i].id
        BY <1>12 DEF Among
    <2> QED BY <1>2, <1>8, <2>1 DEF Found
<1>14. /\ s \in SearchState /\ s.req = search.req /\ s.results = ranked /\ s.vectors = search.vectors
       /\ s.texts = search.texts /\ s.ids = search.ids
    BY <1>2, <1>12 DEF SearchState, SearchPhases, InRank
<1> HIDE DEF s
<1>15. SearchHolds(s)
    BY <1>2, <1>12, <1>13, <1>14 DEF SearchHolds, Found
<1> QED BY <1>4, <1>15, GoesKeeps

\* What is left of results keeps their order.
LEMMA SomeResults ==
    ASSUME NEW results, InRank(results), NEW positions \in SUBSET DOMAIN results
    PROVE  /\ InRank(SelectAt(results, positions)) /\ Len(SelectAt(results, positions)) <= Len(results)
           /\ \A n \in DOMAIN SelectAt(results, positions) :
                 \E i \in DOMAIN results : SelectAt(results, positions)[n] = results[i]
<1> DEFINE t == SelectAt(results, positions)
           nth(n) == Nth(positions, n)
<1>1. results \in Seq(AResult)
    BY DEF InRank
<1>2. /\ t \in Seq(AResult) /\ Len(t) = Cardinality(positions) /\ DOMAIN t = 1..Len(t)
      /\ \A n \in DOMAIN t : nth(n) \in positions /\ t[n] = results[nth(n)] /\ RankIn(positions, nth(n)) = n
    BY <1>1, SelectAtFacts
<1>3. DOMAIN results = 1..Len(results) /\ Len(results) \in Nat
    BY <1>1
<1>4. IsFiniteSet(positions) /\ Cardinality(positions) <= Len(results)
    <2>1. IsFiniteSet(1..Len(results)) /\ Cardinality(1..Len(results)) = Len(results)
        BY <1>3, FS_Interval
    <2> QED BY <1>3, <2>1, FS_Subset
<1>5. \A i, j \in positions : i < j => RankIn(positions, i) < RankIn(positions, j)
    <2>1. positions \subseteq Nat
        BY <1>3
    <2> QED BY <1>4, <2>1, RankFacts
<1>6. \A i \in positions : i \in Nat
    BY <1>3
<1> HIDE DEF t, nth
<1>7. ASSUME NEW m \in DOMAIN t, NEW n \in DOMAIN t, m < n
      PROVE  Above(t[m], t[n]) /\ t[m].id # t[n].id
    <2>1. PICK i \in positions, j \in positions :
             i = nth(m) /\ j = nth(n) /\ t[m] = results[i] /\ t[n] = results[j]
             /\ RankIn(positions, i) = m /\ RankIn(positions, j) = n
        BY <1>2
    <2>2. i \in Nat /\ j \in Nat /\ m \in Nat /\ n \in Nat
        BY <1>2, <1>6
    <2>3. i < j
        <3>1. CASE i = j
            BY <1>7, <2>1, <2>2, <3>1
        <3>2. CASE j < i
            BY <1>5, <1>7, <2>1, <2>2, <3>2
        <3> QED BY <2>2, <3>1, <3>2
    <2> QED BY <2>1, <2>3 DEF InRank
<1>8. \A n \in DOMAIN t : \E i \in DOMAIN results : t[n] = results[i]
    BY <1>2
<1> QED BY <1>2, <1>4, <1>7, <1>8 DEF InRank, t

LEMMA SearchPayloadKeeps ==
    ASSUME SearchAssumption, SearchInv, SearchPayload
    PROVE  SearchInv'
<1> DEFINE results == search.results
           there == {i \in DOMAIN results : results[i].id \in {row.id : row \in rows}}
           final == IF search.req.payloads THEN SelectAt(results, there) ELSE results
           s == [search EXCEPT !.phase = "done", !.results = final]
<1>1. search.phase = "payload" /\ search.phase \in SearchPhases /\ Goes(s)
    BY DEF SearchPayload, SearchPhases
<1>2. SearchHolds(search) /\ search \in SearchState /\ InRank(results) /\ Len(results) <= search.req.k
      /\ Found(search) /\ search.req.k \in Nat
    BY <1>1, SearchingHolds DEF SearchState, SearchRequest
<1>3. there \in SUBSET DOMAIN results
    OBVIOUS
<1> HIDE DEF there
<1>4. /\ InRank(final) /\ Len(final) <= Len(results)
      /\ \A n \in DOMAIN final : \E i \in DOMAIN results : final[n] = results[i]
    <2>1. CASE search.req.payloads
        <3> DEFINE t == SelectAt(results, there)
        <3>1. /\ InRank(t) /\ Len(t) <= Len(results)
              /\ \A n \in DOMAIN t : \E i \in DOMAIN results : t[n] = results[i]
            BY <1>2, <1>3, SomeResults
        <3>2. final = t
            BY <2>1
        <3> HIDE DEF t, final
        <3> QED BY <3>1, <3>2
    <2>2. CASE ~search.req.payloads
        <3>1. final = results
            BY <2>2
        <3>2. Len(results) \in Nat
            BY <1>2 DEF InRank
        <3> HIDE DEF final
        <3> QED BY <1>2, <3>1, <3>2
    <2> QED BY <2>1, <2>2
<1> HIDE DEF final
<1>5. Len(final) <= search.req.k /\ final \in Seq(AResult)
    <2>1. Len(final) \in Nat /\ Len(results) \in Nat /\ final \in Seq(AResult)
        BY <1>2, <1>4 DEF InRank
    <2> QED BY <1>2, <1>4, <2>1
<1>6. \A n \in DOMAIN final : InSeen(final[n].id, search.req)
    BY <1>2, <1>4 DEF Found
<1>7. /\ s \in SearchState /\ s.req = search.req /\ s.results = final /\ s.vectors = search.vectors
      /\ s.texts = search.texts /\ s.ids = search.ids
    BY <1>2, <1>5 DEF SearchState, SearchPhases
<1> HIDE DEF s
<1>8. SearchHolds(s)
    BY <1>2, <1>4, <1>5, <1>6, <1>7 DEF SearchHolds, Found
<1> QED BY <1>1, <1>8, GoesKeeps

LEMMA SearchWriteKeeps ==
    ASSUME SearchAssumption, SearchInv, SearchWrite
    PROVE  SearchInv'
<1> DEFINE Old(edit) == {row \in rows : row.id = edit.id}
           Key(edit) == IF Old(edit) = {} THEN lastKey + 1 ELSE (CHOOSE row \in Old(edit) : TRUE).key
           New(edit) == [key |-> Key(edit), id |-> edit.id, group |-> edit.group, text |-> edit.text,
                         vec |-> edit.vec]
<1>1. PICK edit \in SearchEdits :
         /\ rows' = (rows \ Old(edit)) \cup (IF edit.gone THEN {} ELSE {New(edit)})
         /\ lastKey' = IF Old(edit) = {} /\ ~edit.gone THEN Key(edit) ELSE lastKey
    BY DEF SearchWrite
<1>2. /\ seen' = seen \cup {rows'} /\ UNCHANGED <<indexed, setup>>
      /\ search' = IF search = Idle THEN search ELSE [search EXCEPT !.quiet = FALSE]
    BY DEF SearchWrite
<1>3. TypedRow(edit)
    BY DEF SearchAssumption
<1> DEFINE old == Old(edit)
           key == Key(edit)
           new == New(edit)
<1>4. /\ GoodTable(rows) /\ GoodTable(indexed) /\ lastKey \in Nat
      /\ \A row \in rows : row.key \in Nat /\ row.key <= lastKey
      /\ \A row \in indexed : row.key \in Nat /\ row.key <= lastKey
      /\ \A a \in rows, b \in indexed : a.key = b.key => a.id = b.id
    BY DEF SearchInv, TablesAgree, GoodTable
<1>5. new.key = key /\ new.id = edit.id /\ TypedRow(new)
    BY <1>3 DEF TypedRow
<1>6. \A row \in rows : row \in old <=> row.id = edit.id
    OBVIOUS
<1>7. \/ old = {} /\ key = lastKey + 1
      \/ \E o \in rows : o.id = edit.id /\ key = o.key /\ old # {}
    OBVIOUS
<1>8. rows' = (rows \ old) \cup (IF edit.gone THEN {} ELSE {new})
      /\ lastKey' = IF old = {} /\ ~edit.gone THEN key ELSE lastKey
    BY <1>1
<1> HIDE DEF Old, Key, New, old, key, new
<1>9. \A a \in rows' : (a \in rows /\ a \notin old) \/ (a = new /\ ~edit.gone)
    BY <1>8
<1>10. key \in Nat
    BY <1>4, <1>7
<1>11. GoodTable(rows')
    <2>1. IsFiniteSet(rows')
        <3>1. IsFiniteSet(rows \ old)
            BY <1>4, FS_Subset DEF GoodTable
        <3>2. IsFiniteSet((rows \ old) \cup {new})
            BY <3>1, FS_AddElement
        <3> QED BY <1>8, <3>1, <3>2
    <2>2. \A a \in rows : a \notin old => a.key # key /\ a.id # edit.id
        <3> SUFFICES ASSUME NEW a \in rows, a \notin old PROVE a.key # key /\ a.id # edit.id
            OBVIOUS
        <3>1. CASE key = lastKey + 1
            BY <1>4, <1>6, <3>1
        <3>2. CASE \E o \in rows : o.id = edit.id /\ key = o.key
            BY <1>4, <1>6, <3>2 DEF GoodTable, UniqueRows
        <3> QED BY <1>7, <3>1, <3>2
    <2>3. UniqueRows(rows')
        <3> SUFFICES ASSUME NEW a \in rows', NEW b \in rows', a.key = b.key \/ a.id = b.id PROVE a = b
            BY DEF UniqueRows
        <3>1. CASE a \in rows /\ b \in rows
            BY <1>4, <3>1 DEF GoodTable, UniqueRows
        <3>2. CASE a = new \/ b = new
            BY <1>5, <1>9, <2>2, <3>2
        <3> QED BY <1>9, <3>1, <3>2
    <2>4. \A a \in rows' : TypedRow(a) /\ a.key \in Nat
        BY <1>4, <1>5, <1>9, <1>10 DEF GoodTable
    <2> QED BY <2>1, <2>3, <2>4 DEF GoodTable
<1>12. \A a \in rows', b \in indexed : a.key = b.key => a.id = b.id
    <2> SUFFICES ASSUME NEW a \in rows', NEW b \in indexed, a.key = b.key PROVE a.id = b.id
        OBVIOUS
    <2>1. CASE a \in rows
        BY <1>4, <2>1
    <2>2. CASE a = new
        <3>1. CASE key = lastKey + 1
            BY <1>4, <1>5, <2>2, <3>1
        <3>2. CASE \E o \in rows : o.id = edit.id /\ key = o.key
            BY <1>4, <1>5, <2>2, <3>2
        <3> QED BY <1>7, <3>1, <3>2
    <2> QED BY <1>9, <2>1, <2>2
<1>13. lastKey' \in Nat /\ lastKey <= lastKey'
    BY <1>4, <1>7, <1>8, <1>10
<1>14. \A row \in rows' \cup indexed : row.key <= lastKey'
    <2>1. \A row \in rows \cup indexed : row.key <= lastKey'
        BY <1>4, <1>13
    <2>2. ~edit.gone => key <= lastKey'
        <3>1. CASE old = {}
            BY <1>8, <1>10, <3>1
        <3>2. CASE old # {}
            BY <1>4, <1>7, <1>8, <3>2
        <3> QED BY <3>1, <3>2
    <2> QED BY <1>5, <1>9, <2>1, <2>2
<1>15. TablesAgree' /\ (lastKey \in Nat /\ \A row \in rows \cup indexed : row.key <= lastKey)'
    <2>1. indexed' = indexed
        BY <1>2
    <2>2. GoodTable(rows)' /\ GoodTable(indexed)'
        BY <1>4, <1>11, <2>1 DEF GoodTable, UniqueRows, TypedRow
    <2> QED BY <1>12, <1>13, <1>14, <2>1, <2>2 DEF TablesAgree
<1>16. CASE search = Idle
    BY <1>2, <1>15, <1>16 DEF SearchInv, Idle
<1>17. CASE search # Idle
    <2>1. SearchHolds(search)
        BY <1>17 DEF SearchInv
    <2>2. \A id, r : InSeen(id, r) => InSeen(id, r)'
        BY <1>2 DEF InSeen, Matches
    <2>3. search \in SearchState
        BY <2>1 DEF SearchHolds
    <2>4. search' = [search EXCEPT !.quiet = FALSE]
        BY <1>2, <1>17
    <2>5. /\ search' \in SearchState /\ search'.req = search.req /\ search'.results = search.results
          /\ search'.vectors = search.vectors /\ search'.texts = search.texts /\ search'.ids = search.ids
        BY <2>3, <2>4 DEF SearchState
    <2>6. Found(search)'
        BY <2>1, <2>2, <2>5 DEF SearchHolds, Found
    <2>7. Watched'
        BY <1>2, <2>1 DEF SearchHolds, Watched
    <2>8. SearchHolds(search)'
        BY <2>1, <2>5, <2>6, <2>7 DEF SearchHolds, InRank
    <2> QED BY <1>15, <2>8 DEF SearchInv
<1> QED BY <1>16, <1>17

LEMMA SearchStutters == SearchInv /\ UNCHANGED searchVars => SearchInv'
<1> SUFFICES ASSUME SearchInv, UNCHANGED searchVars PROVE SearchInv'
    OBVIOUS
<1>1. UNCHANGED <<rows, lastKey, indexed, search, seen>>
    BY DEF searchVars
<1> QED BY <1>1 DEF SearchInv, TablesAgree, GoodTable, UniqueRows, TypedRow, SearchHolds, Watched, InRank,
        Found, InSeen, Matches

LEMMA SearchNextKeeps == SearchAssumption /\ SearchInv /\ [SearchNext]_searchVars => SearchInv'
<1> SUFFICES ASSUME SearchAssumption, SearchInv, [SearchNext]_searchVars PROVE SearchInv'
    OBVIOUS
<1>1. CASE BeginSearch
    BY <1>1, BeginSearchKeeps
<1>2. CASE SearchVectors
    BY <1>2, SearchVectorsKeeps
<1>3. CASE SearchText
    BY <1>3, SearchTextKeeps
<1>4. CASE SearchSimilar
    BY <1>4, SearchSimilarKeeps
<1>5. CASE SearchMerge
    BY <1>5, SearchMergeKeeps
<1>6. CASE SearchScores
    BY <1>6, SearchScoresKeeps
<1>7. CASE SearchContents
    BY <1>7, SearchContentsKeeps
<1>8. CASE SearchEmbeddings
    BY <1>8, SearchEmbeddingsKeeps
<1>9. CASE SearchPayload
    BY <1>9, SearchPayloadKeeps
<1>10. CASE SearchWrite
    BY <1>10, SearchWriteKeeps
<1>11. CASE UNCHANGED searchVars
    BY <1>11, SearchStutters
<1> QED BY <1>1, <1>2, <1>3, <1>4, <1>5, <1>6, <1>7, <1>8, <1>9, <1>10, <1>11 DEF SearchNext

\* What the ranks of all pairs say of neighbours, and of the ids.
LEMMA SearchInvIsSound == SearchInv => SearchSound
<1> SUFFICES ASSUME SearchInv, search.phase = "done" PROVE SearchSound
    BY DEF SearchSound
<1> DEFINE found == search.results
<1>1. InRank(found) /\ Len(found) <= search.req.k /\ Found(search)
    BY SearchingHolds DEF SearchPhases
<1>2. found \in Seq(AResult) /\ DOMAIN found = 1..Len(found) /\ Len(found) \in Nat
    BY <1>1 DEF InRank
<1> HIDE DEF found
<1>3. \A i \in 1..(Len(found) - 1) : Above(found[i], found[i + 1])
    BY <1>1, <1>2 DEF InRank
<1>4. IsInjective(IdSeq(found))
    <2>1. DOMAIN IdSeq(found) = DOMAIN found /\ \A i \in DOMAIN found : IdSeq(found)[i] = found[i].id
        BY DEF IdSeq
    <2>2. ASSUME NEW i \in DOMAIN found, NEW j \in DOMAIN found, found[i].id = found[j].id PROVE i = j
        <3>1. i \in Nat /\ j \in Nat
            BY <1>2
        <3>2. ~(i < j) /\ ~(j < i)
            BY <1>1, <2>2 DEF InRank
        <3> QED BY <3>1, <3>2
    <2> QED BY <2>1, <2>2 DEF IsInjective
<1>5. \A i \in DOMAIN found : InSeen(found[i].id, search.req)
    BY <1>1 DEF Found, found
<1> QED BY <1>1, <1>3, <1>4, <1>5 DEF SearchSound, InSeen, found

(***************************************************************************)
(* The inductive invariant of searches.  Ids are found in the tables the   *)
(* search has seen; what makes this hold of the vector index, which keeps  *)
(* rowids of an older table, is that AUTOINCREMENT gives no rowid to two   *)
(* ids.                                                                    *)
(***************************************************************************)
THEOREM SearchInvariant == SearchSpec => []SearchInv
<1>1. SearchInit => SearchInv
    BY SearchBegins, SearchAssumption
<1>2. SearchInv /\ [SearchNext]_searchVars => SearchInv'
    BY SearchNextKeeps, SearchAssumption
<1> QED BY <1>1, <1>2, PTL DEF SearchSpec

(***************************************************************************)
(* Whatever the plan and whatever others write between the statements of a *)
(* search (src/src/lib.rs), it returns at most top_k chunks, none twice,   *)
(* the best first, and each of a row that satisfied the filter in a table  *)
(* that was there during the search or that the handle has indexed.        *)
(***************************************************************************)
THEOREM SearchResultsAreSound == SearchSpec => []SearchSound
BY SearchInvariant, SearchInvIsSound, PTL

-----------------------------------------------------------------------------
(* With room for every row nothing is cut off.                             *)

LEMMA FirstAll ==
    ASSUME NEW T, NEW s \in Seq(T), NEW n \in Nat, Len(s) <= n
    PROVE  First(n, s) = s
<1>1. AtMost(n, Len(s)) = Len(s) /\ Len(s) \in Nat
    BY DEF AtMost
<1>2. SubSeq(s, 1, Len(s)) = s
    BY <1>1
<1> QED BY <1>1, <1>2 DEF First

LEMMA SelectAll ==
    ASSUME NEW T, NEW s \in Seq(T)
    PROVE  SelectAt(s, DOMAIN s) = s
<1> DEFINE all == DOMAIN s
<1>1. all = 1..Len(s) /\ Len(s) \in Nat
    OBVIOUS
<1>2. IsFiniteSet(all) /\ Cardinality(all) = Len(s) /\ all \subseteq Nat
    BY <1>1, FS_Interval
<1>3. ASSUME NEW i \in all PROVE RankIn(all, i) = i
    <2>1. {j \in all : j <= i} = 1..i
        BY <1>1
    <2>2. i \in Int /\ i >= 1
        BY <1>1
    <2>3. Cardinality(1..i) = i
        BY <2>2, FS_Interval
    <2> QED BY <2>1, <2>3 DEF RankIn
<1> HIDE DEF all
<1>4. \A i \in all : Nth(all, i) = i
    BY <1>2, <1>3, NthFacts
<1>5. SelectAt(s, all) = [i \in 1..Len(s) |-> s[Nth(all, i)]]
    BY <1>2 DEF SelectAt
<1>6. SelectAt(s, all) = [i \in 1..Len(s) |-> s[i]]
    BY <1>1, <1>4, <1>5
<1>7. s = [i \in 1..Len(s) |-> s[i]]
    OBVIOUS
<1> QED BY <1>6, <1>7 DEF all

\* A sequence of some ids, each once, is no longer than their number.
LEMMA NoLonger ==
    ASSUME NEW ids, IsFiniteSet(ids), NEW s \in Seq(Nat), \A i \in DOMAIN s : s[i] \in ids,
           \A i, j \in DOMAIN s : s[i] = s[j] => i = j
    PROVE  Len(s) <= Cardinality(ids)
<1>1. DOMAIN s = 1..Len(s) /\ Len(s) \in Nat
    OBVIOUS
<1>2. s \in Injection(1..Len(s), ids)
    <2>1. s \in [1..Len(s) -> ids]
        BY <1>1
    <2> QED BY <1>1, <2>1 DEF Injection, IsInjective
<1>3. Cardinality(1..Len(s)) <= Cardinality(ids)
    BY <1>2, FS_Injection
<1>4. Cardinality(1..Len(s)) = Len(s)
    <2>1. PICK m \in Nat : m = Len(s)
        BY <1>1
    <2>2. Cardinality(1..m) = m
        BY FS_Interval
    <2> QED BY <2>1, <2>2
<1> QED BY <1>3, <1>4

LEMMA MergedRoomy ==
    ASSUME NEW ids, IsFiniteSet(ids), NEW first \in Seq(Nat), NEW second \in Seq(Nat),
           NEW n \in Nat, Cardinality(ids) <= n,
           ToSet(first) \subseteq ids, ToSet(second) \subseteq ids
    PROVE  /\ Merged(first, second, n) \in Seq(Nat) /\ Len(Merged(first, second, n)) <= Cardinality(ids)
           /\ \A id \in ToSet(first) \cup ToSet(second) : id \in ToSet(Merged(first, second, n))
<1> DEFINE both == first \o second
           new == {i \in DOMAIN both : \A j \in 1..(i - 1) : both[j] # both[i]}
<1>1. both \in Seq(Nat) /\ DOMAIN both = 1..(Len(first) + Len(second)) /\ Len(first) \in Nat /\ Len(second) \in Nat
      /\ (\A i \in DOMAIN first : both[i] = first[i])
      /\ (\A i \in DOMAIN second : both[Len(first) + i] = second[i])
    OBVIOUS
<1>2. \A id \in ToSet(first) \cup ToSet(second) : \E i \in DOMAIN both : both[i] = id
    <2>1. ASSUME NEW i \in DOMAIN first PROVE \E j \in DOMAIN both : both[j] = first[i]
        <3>1. i \in DOMAIN both
            BY <1>1
        <3> QED BY <1>1, <3>1
    <2>2. ASSUME NEW i \in DOMAIN second PROVE \E j \in DOMAIN both : both[j] = second[i]
        <3>1. i \in 1..Len(second)
            OBVIOUS
        <3>2. Len(first) + i \in DOMAIN both
            BY <1>1, <3>1
        <3> QED BY <1>1, <3>2
    <2> QED BY <2>1, <2>2 DEF ToSet
<1>3. \A i \in DOMAIN both : both[i] \in ids
    <2> SUFFICES ASSUME NEW i \in DOMAIN both PROVE both[i] \in ids
        OBVIOUS
    <2>1. i \in Nat /\ i >= 1 /\ i <= Len(first) + Len(second)
        BY <1>1
    <2>2. CASE i <= Len(first)
        <3>1. i \in DOMAIN first
            BY <2>1, <2>2
        <3> QED BY <1>1, <3>1 DEF ToSet
    <2>3. CASE i > Len(first)
        <3>1. PICK k \in DOMAIN second : i = Len(first) + k
            <4>1. i - Len(first) \in DOMAIN second
                BY <1>1, <2>1, <2>3
            <4>2. i = Len(first) + (i - Len(first))
                BY <1>1, <2>1
            <4> QED BY <4>1, <4>2
        <3> QED BY <1>1, <3>1 DEF ToSet
    <2> QED BY <1>1, <2>1, <2>2, <2>3
<1>4. new \in SUBSET DOMAIN both /\ new \subseteq Nat
    BY <1>1
<1>5. \A i \in DOMAIN both : i \in Nat /\ i >= 1
    BY <1>1
<1>6. Merged(first, second, n) = First(n, SelectAt(both, new))
    BY DEF Merged
<1>7. ASSUME NEW i \in new, NEW j \in new, i < j PROVE both[i] # both[j]
    <2>1. i \in Nat /\ j \in Nat /\ i >= 1
        BY <1>5
    <2>2. i \in 1..(j - 1)
        BY <1>7, <2>1
    <2>3. \A k \in 1..(j - 1) : both[k] # both[j]
        OBVIOUS
    <2> HIDE DEF both, new
    <2> QED BY <2>2, <2>3
<1>8. ASSUME NEW i \in DOMAIN both PROVE \E j \in new : both[j] = both[i]
    <2> DEFINE same == {j \in DOMAIN both : both[j] = both[i]}
    <2>1. same \subseteq Nat /\ same # {}
        BY <1>5
    <2>2. PICK j \in same : \A k \in same : j <= k
        BY <2>1, LeastNatural
    <2>3. j \in DOMAIN both /\ both[j] = both[i] /\ j \in Nat /\ j >= 1
        BY <1>5, <2>2
    <2>4. ASSUME NEW k \in 1..(j - 1) PROVE both[k] # both[j]
        <3>1. k \in DOMAIN both /\ k < j /\ k \in Nat
            BY <1>1, <2>3
        <3>2. k \notin same
            <4> HIDE DEF same
            <4> QED BY <2>2, <2>3, <3>1
        <3> QED BY <2>3, <3>1, <3>2
    <2> QED BY <2>3, <2>4
<1> HIDE DEF both, new
<1> DEFINE s == SelectAt(both, new)
           nth(m) == Nth(new, m)
<1>9. /\ s \in Seq(Nat) /\ DOMAIN s = 1..Len(s)
      /\ \A m \in DOMAIN s : nth(m) \in new /\ s[m] = both[nth(m)] /\ RankIn(new, nth(m)) = m
      /\ \A i \in new : RankIn(new, i) \in DOMAIN s /\ s[RankIn(new, i)] = both[i]
    BY <1>1, <1>4, SelectAtFacts
<1> HIDE DEF s, nth
<1>10. s \in Seq(Nat)
    BY <1>9
<1>11. \A m \in DOMAIN s : s[m] \in ids
    BY <1>3, <1>4, <1>9
<1>12. ASSUME NEW l \in DOMAIN s, NEW m \in DOMAIN s, s[l] = s[m] PROVE l = m
    <2>1. PICK i \in new, j \in new : i = nth(l) /\ j = nth(m) /\ both[i] = both[j]
                                      /\ RankIn(new, i) = l /\ RankIn(new, j) = m
        BY <1>9, <1>12
    <2>2. i \in Nat /\ j \in Nat /\ ~(i < j) /\ ~(j < i)
        BY <1>4, <1>7, <2>1
    <2>3. i = j
        BY <2>2
    <2> QED BY <2>1, <2>3
<1>13. Len(s) <= Cardinality(ids)
    BY <1>10, <1>11, <1>12, NoLonger
<1>14. First(n, s) = s
    <2>1. Len(s) <= n
        <3>1. Len(s) \in Nat /\ Cardinality(ids) \in Nat
            BY <1>10, FS_CardinalityType
        <3> QED BY <1>13, <3>1
    <2> QED BY <1>10, <2>1, FirstAll
<1>15. ASSUME NEW id \in ToSet(first) \cup ToSet(second) PROVE id \in ToSet(s)
    <2>1. PICK i \in DOMAIN both : both[i] = id
        BY <1>2
    <2>2. PICK j \in new : both[j] = id
        BY <1>8, <2>1
    <2>3. PICK m \in DOMAIN s : s[m] = id
        BY <1>9, <2>2
    <2> QED BY <2>3 DEF ToSet
<1> QED BY <1>6, <1>10, <1>13, <1>14, <1>15 DEF s

-----------------------------------------------------------------------------
(* What a search finds while nobody writes.                                *)

\* The score a row has for the query's vector.
IsScore(r, id, score) ==
    \E row \in rows : row.id = id /\ Len(row.vec) = Len(r.vec) /\ score = Similarity(r.vec, row.vec)

\* The index answers as the table would.
LEMMA IndexAsTable ==
    ASSUME TablesAgree, indexed = rows, NEW r \in SearchRequest, r.vec # << >>, NEW n
    PROVE  VectorCandidates(r, n) = BySimilarity(r, Filtered(r, rows), n)
<1> DEFINE entries == {row \in indexed : row.vec # << >>}
           fits == setup.index /\ \E e \in entries : Len(e.vec) = Len(r.vec)
           allowed == {e \in entries : r.filter = AnyGroup \/ e.key \in AllowedKeys(r)}
           Near(table) == {o \in table : Len(o.vec) = Len(r.vec)}
<1>1. VectorCandidates(r, n) =
         IF fits THEN BySimilarity(r, allowed, n) ELSE BySimilarity(r, Filtered(r, rows), n)
    BY DEF VectorCandidates
<1>2. AllowedKeys(r) = {row.key : row \in Filtered(r, rows)}
    BY DEF AllowedKeys
<1>3. \A e \in rows : e \in allowed <=> e.vec # << >> /\ (r.filter = AnyGroup \/ e.key \in AllowedKeys(r))
    OBVIOUS
<1>4. \A e \in rows : e.key \in AllowedKeys(r) => Matches(r, e)
    <2> SUFFICES ASSUME NEW e \in rows, e.key \in AllowedKeys(r) PROVE Matches(r, e)
        OBVIOUS
    <2>1. PICK row \in Filtered(r, rows) : row.key = e.key
        BY <1>2
    <2>2. row \in rows /\ Matches(r, row)
        BY DEF Filtered
    <2> QED BY <2>1, <2>2 DEF TablesAgree, GoodTable, UniqueRows
<1>5. \A e \in rows : Matches(r, e) <=> e \in Filtered(r, rows)
    BY DEF Filtered
<1>6. \A e \in rows : Matches(r, e) => r.filter = AnyGroup \/ e.key \in AllowedKeys(r)
    BY <1>2, <1>5
<1>7. \A e \in rows : r.filter = AnyGroup => Matches(r, e)
    BY DEF Matches
<1>8. \A e \in rows : Len(e.vec) = Len(r.vec) => e.vec # << >>
    <2>1. r.vec \in Seq(Int) /\ r.vec # << >>
        BY DEF SearchRequest
    <2>2. Len(r.vec) # 0
        BY <2>1
    <2>3. Len(<< >>) = 0
        OBVIOUS
    <2> QED BY <2>2, <2>3
<1>9. allowed \subseteq rows /\ Filtered(r, rows) \subseteq rows
    BY DEF Filtered
<1> HIDE DEF allowed
<1>10. Near(allowed) = Near(Filtered(r, rows))
    BY <1>3, <1>4, <1>5, <1>6, <1>7, <1>8, <1>9
<1>11. BySimilarity(r, allowed, n) = BySimilarity(r, Filtered(r, rows), n)
    <2> DEFINE Hits(near) == {[id |-> row.id, score |-> Similarity(r.vec, row.vec)] : row \in near}
               Cut(hits) == First(n, Ordered(hits, ScoreOrder(hits)))
    <2>1. BySimilarity(r, allowed, n) = Cut(Hits(Near(allowed)))
        BY DEF BySimilarity
    <2>2. BySimilarity(r, Filtered(r, rows), n) = Cut(Hits(Near(Filtered(r, rows))))
        BY DEF BySimilarity
    <2> HIDE DEF Hits, Cut, Near
    <2> QED BY <1>10, <2>1, <2>2
<1> QED BY <1>1, <1>11

\* No more ids than rows.
LEMMA RowIds ==
    ASSUME NEW table, IsFiniteSet(table)
    PROVE  /\ IsFiniteSet({row.id : row \in table})
           /\ Cardinality({row.id : row \in table}) <= Cardinality(table)
<1> DEFINE ids == {row.id : row \in table}
           f == [row \in table |-> row.id]
<1>1. f \in Surjection(table, ids)
    BY DEF Surjection
<1> HIDE DEF f, ids
<1>2. IsFiniteSet(ids) /\ Cardinality(ids) <= Cardinality(table)
    BY <1>1, FS_Surjection
<1> QED BY <1>2 DEF ids

LEMMA QuietHits ==
    ASSUME TablesAgree, indexed = rows, NEW r \in SearchRequest, r.vec # << >>, NEW n \in Nat
    PROVE  LET hits == VectorCandidates(r, n)
           IN  /\ hits \in Seq(Hit) /\ Len(hits) <= Cardinality(rows)
               /\ \A i \in DOMAIN hits : IsScore(r, hits[i].id, hits[i].score)
<1> DEFINE table == Filtered(r, rows)
           hits == BySimilarity(r, table, n)
           ids == {row.id : row \in rows}
<1>1. VectorCandidates(r, n) = hits
    BY IndexAsTable
<1>2. table \subseteq rows
    BY DEF Filtered
<1>3. GoodTable(table)
    BY <1>2, PartOfTable DEF TablesAgree
<1>4. r.vec \in Seq(Int)
    BY DEF SearchRequest
<1> HIDE DEF table
<1>5. BestHits(r, hits, n, table)
    BY <1>3, <1>4, BySimilarityFacts
<1> HIDE DEF hits
<1>6. hits \in Seq(Hit) /\ \A i \in DOMAIN hits : \E row \in table : Like(r, hits[i], row)
    BY <1>5 DEF BestHits
<1>7. \A i \in DOMAIN hits : IsScore(r, hits[i].id, hits[i].score)
    BY <1>2, <1>6 DEF IsScore, Like
<1>8. Len(hits) <= Cardinality(rows)
    <2>1. \A x \in Hit : x.id \in Nat
        BY DEF Hit
    <2>2. hits \in Seq(Hit) /\ DOMAIN hits = 1..Len(hits) /\ Len(hits) \in Nat
        BY <1>6
    <2> DEFINE s == IdSeq(hits)
    <2>3. s \in Seq(Nat) /\ DOMAIN s = DOMAIN hits /\ \A i \in DOMAIN hits : s[i] = hits[i].id
        BY <2>1, <2>2, IdsOfSequence
    <2> HIDE DEF s
    <2>4. \A i \in DOMAIN s : s[i] \in ids
        BY <1>7, <2>3 DEF IsScore
    <2>5. ASSUME NEW i \in DOMAIN s, NEW j \in DOMAIN s, s[i] = s[j] PROVE i = j
        <3>1. ~(i < j) /\ ~(j < i)
            BY <1>5, <2>3, <2>5 DEF BestHits
        <3>2. i \in Nat /\ j \in Nat
            BY <2>2, <2>3
        <3> QED BY <3>1, <3>2
    <2>6. IsFiniteSet(rows)
        BY DEF TablesAgree, GoodTable
    <2>7. IsFiniteSet(ids) /\ Cardinality(ids) <= Cardinality(rows)
        BY <2>6, RowIds
    <2> HIDE DEF ids
    <2>8. Len(s) <= Cardinality(ids)
        <3>1. s \in Seq(Nat)
            BY <2>3
        <3> QED BY <2>4, <2>5, <2>7, <3>1, NoLonger
    <2>9. Len(s) = Len(hits) /\ Len(s) \in Nat
        BY <2>2, <2>3
    <2>10. Cardinality(rows) \in Nat /\ Cardinality(ids) \in Nat
        BY <2>6, <2>7, FS_CardinalityType
    <2> QED BY <2>7, <2>8, <2>9, <2>10
<1> QED BY <1>1, <1>6, <1>7, <1>8

LEMMA OrderedAll ==
    ASSUME NEW S, IsFiniteSet(S), NEW order, Orders(order, S), NEW n \in Nat, Cardinality(S) <= n
    PROVE  /\ First(n, Ordered(S, order)) = Ordered(S, order) /\ Ordered(S, order) \in Seq(S)
           /\ \A x \in S : \E i \in DOMAIN Ordered(S, order) : Ordered(S, order)[i] = x
<1> DEFINE s == Ordered(S, order)
<1>1. /\ s \in Seq(S) /\ Len(s) = Cardinality(S) /\ DOMAIN s = 1..Cardinality(S)
      /\ \A x \in S : \E i \in 1..Cardinality(S) : s[i] = x
    BY OrderedFacts
<1> HIDE DEF s
<1>2. s \in Seq(S) /\ Len(s) <= n
    BY <1>1
<1>3. First(n, s) = s
    BY <1>2, FirstAll
<1> QED BY <1>1, <1>3 DEF s

LEMMA AllTexts ==
    ASSUME SearchAssumption, TablesAgree, NEW r, NEW n \in Nat, Cardinality(rows) <= n
    PROVE  ToSet(TextCandidates(r, n)) = TextHits(Filtered(r, rows))
<1> DEFINE hits == TextHits(Filtered(r, TextIndex))
           s == Ordered(hits, TextOrder(hits))
<1>1. hits \subseteq rows /\ hits = TextHits(Filtered(r, rows))
    BY DEF TextHits, Filtered, TextIndex
<1>2. GoodTable(hits)
    BY <1>1, PartOfTable DEF TablesAgree
<1>3. TextCandidates(r, n) = First(n, s)
    BY DEF TextCandidates
<1> HIDE DEF hits
<1>4. Orders(TextOrder(hits), hits) /\ IsFiniteSet(hits)
    BY <1>2, TextOrderOrders DEF GoodTable
<1>5. Cardinality(hits) <= n
    <2>1. IsFiniteSet(rows)
        BY DEF TablesAgree, GoodTable
    <2>2. Cardinality(hits) <= Cardinality(rows) /\ Cardinality(hits) \in Nat /\ Cardinality(rows) \in Nat
        BY <1>1, <1>4, <2>1, FS_Subset, FS_CardinalityType
    <2> QED BY <2>2
<1>6. First(n, s) = s /\ s \in Seq(hits) /\ \A x \in hits : \E i \in DOMAIN s : s[i] = x
    BY <1>4, <1>5, OrderedAll
<1> HIDE DEF s
<1>7. \A x : x \in ToSet(s) <=> x \in hits
    BY <1>6 DEF ToSet
<1>8. ToSet(s) = hits
    BY <1>7
<1> QED BY <1>1, <1>3, <1>6, <1>8

LEMMA AllNewest ==
    ASSUME TablesAgree, NEW r \in SearchRequest, Cardinality(rows) <= r.limit
    PROVE  \A row \in Filtered(r, rows) : row.id \in ToSet(Newest(r))
<1> DEFINE hits == Filtered(r, rows)
           s == Ordered(hits, NewestOrder(hits))
<1>1. hits \subseteq rows
    BY DEF Filtered
<1>2. GoodTable(hits) /\ r.limit \in Nat
    BY <1>1, PartOfTable DEF TablesAgree, SearchRequest
<1>3. Newest(r) = First(r.limit, IdSeq(s))
    BY DEF Newest
<1> HIDE DEF hits
<1>4. Orders(NewestOrder(hits), hits) /\ IsFiniteSet(hits) /\ \A x \in hits : x.id \in Nat
    BY <1>2, NewestOrderOrders DEF GoodTable, TypedRow
<1>5. Cardinality(hits) <= r.limit
    <2>1. IsFiniteSet(rows)
        BY DEF TablesAgree, GoodTable
    <2>2. Cardinality(hits) <= Cardinality(rows) /\ Cardinality(hits) \in Nat /\ Cardinality(rows) \in Nat
        BY <1>1, <1>4, <2>1, FS_Subset, FS_CardinalityType
    <2> QED BY <1>2, <2>2
<1>6. /\ s \in Seq(hits) /\ Len(s) = Cardinality(hits)
      /\ \A x \in hits : \E i \in 1..Cardinality(hits) : s[i] = x
    BY <1>4, OrderedFacts
<1> HIDE DEF s
<1>7. s \in Seq(hits) /\ Len(s) <= r.limit /\ \A x \in hits : \E i \in DOMAIN s : s[i] = x
    BY <1>5, <1>6
<1> DEFINE ids == IdSeq(s)
<1>8. ids \in Seq(Nat) /\ DOMAIN ids = DOMAIN s /\ \A i \in DOMAIN s : ids[i] = s[i].id
    BY <1>4, <1>7, IdsOfSequence
<1> HIDE DEF ids
<1>9. ids \in Seq(Nat) /\ Len(ids) <= r.limit
    BY <1>7, <1>8
<1>10. First(r.limit, ids) = ids
    BY <1>2, <1>9, FirstAll
<1>11. ASSUME NEW row \in hits PROVE row.id \in ToSet(ids)
    <2>1. PICK i \in DOMAIN s : s[i] = row
        BY <1>7
    <2>2. i \in DOMAIN ids /\ ids[i] = row.id
        BY <1>8, <2>1
    <2> QED BY <2>2 DEF ToSet
<1> QED BY <1>3, <1>10, <1>11 DEF hits, ids

-----------------------------------------------------------------------------
\* The text scores of all rows that satisfy the filter.
Fts(r) ==
    IF setup.fts /\ TextHits(Filtered(r, rows)) # {} THEN TextScores(TextHits(Filtered(r, rows))) ELSE << >>

\* Room for every row, in a plan that looks for every row.
Roomy(s) ==
    /\ s.plan \in {"none", "balanced"} /\ s.req.text
    /\ s.req.limit > Cardinality(rows)
    /\ s.plan = "balanced" => RerankLimit(s.req, s.plan) >= Cardinality(rows)

\* How far a search with room has come.
RoomyHolds(s) ==
    /\ s.phase \in {"vector", "text"} => s.textScores = << >>
    /\ s.phase \in {"merge", "scores"} => s.textScores = IF s.req.vec = << >> THEN Fts(s.req) ELSE << >>
    /\ s.phase \in {"scores", "contents", "embeddings"} =>
          \A row \in Filtered(s.req, rows) : row.id \in ToSet(s.ids)
    /\ s.phase \in {"contents", "embeddings"} => s.textScores = Fts(s.req)
    /\ s.phase = "embeddings" => s.contents = OverlapsOf(ToSet(s.ids) \ DOMAIN s.textScores)
    /\ s.phase \in {"payload", "done"} => s.results = Exhaustive(s.req, Filtered(s.req, rows))

\* A search for a vector alone.
AloneHolds(s) ==
    \/ s.phase = "vector"
    \/ /\ s.phase \in {"payload", "done"}
       /\ IdSeq(s.results) = IdSeq(BySimilarity(s.req, Filtered(s.req, rows), s.req.k))

QuietHolds(s) ==
    /\ indexed = rows /\ seen = {rows}
    /\ s.plan = PlanOf(s.req) /\ (s.req.text \/ s.req.vec # << >>)
    /\ \A id \in DOMAIN s.vectorScores : IsScore(s.req, id, s.vectorScores[id])
    /\ Len(s.vectors) <= Cardinality(rows)
    /\ s.phase = "similar" => s.plan = "textFirst"
    /\ ~s.req.text => AloneHolds(s)
    /\ Roomy(s) => RoomyHolds(s)

\* While nobody has written the tables are one, and what is known is of its rows.
QuietInv == search # Idle /\ search.quiet => QuietHolds(search)

LEMMA GoesQuiet ==
    ASSUME NEW s, Goes(s), s.quiet => QuietHolds(s)
    PROVE  QuietInv'
<1>1. search' = s /\ UNCHANGED <<rows, lastKey, indexed, setup, seen, writes>>
    BY DEF Goes, Reading
<1>2. QuietHolds(s) => QuietHolds(search)'
    <2> SUFFICES ASSUME QuietHolds(s) PROVE QuietHolds(search)'
        OBVIOUS
    <2>1. (indexed = rows /\ seen = {rows})'
        BY <1>1 DEF QuietHolds
    <2>2. (search.plan = PlanOf(search.req) /\ (search.req.text \/ search.req.vec # << >>))'
        BY <1>1 DEF QuietHolds, PlanOf
    <2>3. (\A id \in DOMAIN search.vectorScores : IsScore(search.req, id, search.vectorScores[id]))'
        BY <1>1 DEF QuietHolds, IsScore
    <2>4. (Len(search.vectors) <= Cardinality(rows) /\ (search.phase = "similar" => search.plan = "textFirst"))'
        BY <1>1 DEF QuietHolds
    <2>5. (~search.req.text => AloneHolds(search))'
        BY <1>1 DEF QuietHolds, AloneHolds
    <2>6. RoomyHolds(s) => RoomyHolds(search)'
        BY <1>1 DEF RoomyHolds, Fts, OverlapsOf, RowsById, Exhaustive
    <2>7. Roomy(search)' => Roomy(s)
        BY <1>1 DEF Roomy
    <2>8. (Roomy(search) => RoomyHolds(search))'
        BY <2>6, <2>7 DEF QuietHolds
    <2> QED BY <2>1, <2>2, <2>3, <2>4, <2>5, <2>8 DEF QuietHolds
<1> QED BY <1>1, <1>2 DEF QuietInv

LEMMA QuietStutters == QuietInv /\ UNCHANGED searchVars => QuietInv'
<1> SUFFICES ASSUME QuietInv, UNCHANGED searchVars PROVE QuietInv'
    OBVIOUS
<1>1. Goes(search)
    BY DEF searchVars, Goes, Reading
<1>2. CASE search = Idle
    BY <1>2 DEF searchVars, QuietInv, Idle
<1>3. CASE search # Idle
    BY <1>1, <1>3, GoesQuiet DEF QuietInv
<1> QED BY <1>2, <1>3

LEMMA BeginSearchQuiet ==
    ASSUME SearchInv, BeginSearch
    PROVE  QuietInv'
<1> SUFFICES ASSUME search' # Idle, search'.quiet PROVE QuietHolds(search)'
    BY DEF QuietInv, Idle
<1>1. seen' = {rows, indexed} /\ UNCHANGED <<rows, lastKey, indexed, setup, writes>>
    BY DEF BeginSearch
<1>2. PICK request \in Requests :
          search' = IF ~ValidRequest(Resolved(request)) THEN Idle
                    ELSE [phase |-> "vector", req |-> Resolved(request), plan |-> PlanOf(Resolved(request)),
                          vectors |-> << >>, vectorScores |-> << >>, texts |-> << >>, textScores |-> << >>,
                          ids |-> << >>, contents |-> << >>, results |-> << >>, quiet |-> indexed = rows]
    BY DEF BeginSearch
<1>3. PICK r : r = Resolved(request)
    OBVIOUS
<1>4. /\ ValidRequest(r)
      /\ search' = [phase |-> "vector", req |-> r, plan |-> PlanOf(r), vectors |-> << >>,
                    vectorScores |-> << >>, texts |-> << >>, textScores |-> << >>, ids |-> << >>,
                    contents |-> << >>, results |-> << >>, quiet |-> indexed = rows]
    BY <1>2, <1>3
<1>5. /\ search'.phase = "vector" /\ search'.req = r /\ search'.plan = PlanOf(r) /\ search'.vectors = << >>
      /\ search'.vectorScores = << >> /\ search'.textScores = << >> /\ indexed = rows
    BY <1>4
<1>6. (indexed = rows /\ seen = {rows})'
    BY <1>1, <1>5
<1>7. (search.plan = PlanOf(search.req) /\ (search.req.text \/ search.req.vec # << >>))'
    BY <1>1, <1>4, <1>5 DEF PlanOf, ValidRequest
<1>8. (Len(search.vectors) <= Cardinality(rows))'
    <2>1. Cardinality(rows) \in Nat
        BY FS_CardinalityType DEF SearchInv, TablesAgree, GoodTable
    <2> QED BY <1>1, <1>5, <2>1
<1>9. AloneHolds(search)' /\ RoomyHolds(search)'
    BY <1>5 DEF AloneHolds, RoomyHolds
<1>10. (\A id \in DOMAIN search.vectorScores : IsScore(search.req, id, search.vectorScores[id]))'
    <2>1. DOMAIN search'.vectorScores = {}
        BY <1>5
    <2> QED BY <2>1
<1>11. (search.phase = "similar" => search.plan = "textFirst")'
    BY <1>5
<1> QED BY <1>6, <1>7, <1>8, <1>9, <1>10, <1>11 DEF QuietHolds

LEMMA SearchWriteQuiet ==
    ASSUME SearchInv, SearchWrite
    PROVE  QuietInv'
<1>1. search' = IF search = Idle THEN search ELSE [search EXCEPT !.quiet = FALSE]
    BY DEF SearchWrite
<1>2. CASE search = Idle
    BY <1>1, <1>2 DEF QuietInv, Idle
<1>3. CASE search # Idle
    <2>1. search \in SearchState
        BY <1>3 DEF SearchInv, SearchHolds
    <2>2. search'.quiet = FALSE
        BY <1>1, <1>3, <2>1 DEF SearchState
    <2> QED BY <2>2 DEF QuietInv
<1> QED BY <1>2, <1>3

LEMMA QuietSearching ==
    ASSUME QuietInv, search.phase \in SearchPhases, search.quiet
    PROVE  QuietHolds(search)
<1>1. search # Idle
    BY DEF Idle, SearchPhases
<1> QED BY <1>1 DEF QuietInv

\* The request, the plan and the vectors stay as they are.
SameVectors(s) ==
    s.req = search.req /\ s.plan = search.plan /\ s.vectors = search.vectors /\ s.vectorScores = search.vectorScores

LEMMA QuietGoesOn ==
    ASSUME QuietHolds(search), NEW s, SameVectors(s), s.phase = "similar" => s.plan = "textFirst",
           ~search.req.text => AloneHolds(s), Roomy(search) => RoomyHolds(s)
    PROVE  QuietHolds(s)
<1>1. Roomy(s) => Roomy(search)
    BY DEF Roomy, SameVectors
<1> QED BY <1>1 DEF QuietHolds, SameVectors

LEMMA QuietScores ==
    ASSUME NEW hits \in Seq(Hit), NEW r, \A i \in DOMAIN hits : IsScore(r, hits[i].id, hits[i].score)
    PROVE  \A id \in DOMAIN ScoresOf(hits) : IsScore(r, id, ScoresOf(hits)[id])
<1> DEFINE ids == {hits[i].id : i \in DOMAIN hits}
           of(id) == CHOOSE i \in DOMAIN hits : hits[i].id = id
<1>1. \A id \in ids : of(id) \in DOMAIN hits /\ hits[of(id)].id = id
    OBVIOUS
<1>2. ScoresOf(hits) = [id \in ids |-> hits[of(id)].score]
    BY DEF ScoresOf
<1> HIDE DEF ids, of
<1> QED BY <1>1, <1>2

LEMMA WithVectorsQuiet ==
    ASSUME TablesAgree, QuietHolds(search), search \in SearchState, search.req.vec # << >>, NEW n \in Nat,
           NEW next, next # "similar", search.req.text,
           Roomy(search) => RoomyHolds(WithVectors(search, VectorCandidates(search.req, n), next))
    PROVE  QuietHolds(WithVectors(search, VectorCandidates(search.req, n), next))
<1> DEFINE hits == VectorCandidates(search.req, n)
           s == WithVectors(search, hits, next)
<1>1. search.req \in SearchRequest /\ indexed = rows
    BY DEF SearchState, QuietHolds
<1>2. /\ hits \in Seq(Hit) /\ Len(hits) <= Cardinality(rows)
      /\ \A i \in DOMAIN hits : IsScore(search.req, hits[i].id, hits[i].score)
    BY <1>1, QuietHits
<1> HIDE DEF hits
<1>3. \A id \in DOMAIN ScoresOf(hits) : IsScore(search.req, id, ScoresOf(hits)[id])
    BY <1>2, QuietScores
<1>4. Len(IdSeq(hits)) <= Cardinality(rows)
    <2>1. DOMAIN IdSeq(hits) = DOMAIN hits /\ hits \in Seq(Hit)
        BY <1>2 DEF IdSeq
    <2>2. \A x \in Hit : x.id \in Nat
        BY DEF Hit
    <2>3. IdSeq(hits) \in Seq(Nat)
        BY <2>1, <2>2, IdsOfSequence
    <2>4. Len(IdSeq(hits)) = Len(hits)
        BY <2>1, <2>3
    <2> QED BY <1>2, <2>4
<1>5. /\ s.req = search.req /\ s.plan = search.plan /\ s.vectors = IdSeq(hits) /\ s.vectorScores = ScoresOf(hits)
      /\ s.phase = next
    BY DEF WithVectors, SearchState
<1>6. Roomy(s) => Roomy(search)
    BY <1>5 DEF Roomy
<1>7. Roomy(search) => RoomyHolds(s)
    BY DEF hits
<1> HIDE DEF s
<1>8. QuietHolds(s)
    BY <1>3, <1>4, <1>5, <1>6, <1>7 DEF QuietHolds
<1> QED BY <1>8 DEF s, hits

LEMMA SearchVectorsQuiet ==
    ASSUME SearchAssumption, SearchInv, QuietInv, SearchVectors
    PROVE  QuietInv'
<1> DEFINE r == search.req
           only == VectorCandidates(r, r.k)
           n == Share(r, search.plan, Tuning.primary)
           alone == [i \in DOMAIN only |-> Result(only[i].id, only[i].score, 0, 100 * only[i].score)]
<1>1. search.phase = "vector" /\ search.phase \in SearchPhases
    BY DEF SearchVectors, SearchPhases
<1>2. search \in SearchState /\ TablesAgree
    BY <1>1, SearchingHolds
<1>3. r \in SearchRequest /\ n \in Nat
    BY <1>2, ShareFacts DEF SearchState, SearchAssumption
<1>4. PICK s : /\ Goes(s)
               /\ \/ ~r.text /\ s = [search EXCEPT !.phase = "payload", !.results = alone]
                  \/ r.text /\ s = [search EXCEPT !.phase = "text"]
                  \/ r.text /\ r.vec # << >> /\ s = WithVectors(search, VectorCandidates(r, n), "text")
    <2> DEFINE first == [search EXCEPT !.phase = "payload", !.results = alone]
               second == [search EXCEPT !.phase = "text"]
               third == WithVectors(search, VectorCandidates(r, n), "text")
    <2>1. Goes(CASE ~r.text -> first [] r.text /\ (r.vec = << >> \/ search.plan = "textFirst") -> second [] OTHER -> third)
        BY DEF SearchVectors
    <2> HIDE DEF first, second, third
    <2>2. CASE ~r.text
        <3>1. Goes(first)
            BY <2>1, <2>2
        <3> QED BY <2>2, <3>1 DEF first
    <2>3. CASE r.text /\ (r.vec = << >> \/ search.plan = "textFirst")
        <3>1. Goes(second)
            BY <2>1, <2>3
        <3> QED BY <2>3, <3>1 DEF second
    <2>4. CASE r.text /\ ~(r.vec = << >> \/ search.plan = "textFirst")
        <3>1. Goes(third)
            BY <2>1, <2>4
        <3> QED BY <2>4, <3>1 DEF third
    <2> QED BY <2>2, <2>3, <2>4
<1>5. s.quiet = search.quiet
    BY <1>2, <1>4 DEF SearchState, WithVectors
<1> SUFFICES ASSUME search.quiet PROVE QuietHolds(s)
    BY <1>4, <1>5, GoesQuiet
<1>6. QuietHolds(search)
    BY <1>1, QuietSearching
<1>7. CASE ~r.text /\ s = [search EXCEPT !.phase = "payload", !.results = alone]
    <2>1. s.phase = "payload" /\ s.results = alone /\ SameVectors(s)
        BY <1>2, <1>7 DEF SearchState, SameVectors
    <2>2. only = BySimilarity(r, Filtered(r, rows), r.k)
        BY <1>2, <1>3, <1>6, <1>7, IndexAsTable DEF QuietHolds
    <2>3. IdSeq(alone) = IdSeq(only)
        <3>1. DOMAIN alone = DOMAIN only /\ \A i \in DOMAIN only : alone[i].id = only[i].id
            BY DEF Result
        <3> HIDE DEF alone, only
        <3> QED BY <3>1 DEF IdSeq
    <2>4. AloneHolds(s)
        BY <2>1, <2>2, <2>3 DEF AloneHolds, SameVectors
    <2>5. ~Roomy(search)
        BY <1>7 DEF Roomy
    <2>6. s.phase # "similar"
        BY <2>1
    <2> QED BY <1>6, <2>1, <2>4, <2>5, <2>6, QuietGoesOn
<1>8. CASE r.text /\ s = [search EXCEPT !.phase = "text"]
    <2>1. s.phase = "text" /\ SameVectors(s) /\ s.textScores = search.textScores
        BY <1>2, <1>8 DEF SearchState, SameVectors
    <2>2. Roomy(search) => RoomyHolds(s)
        BY <1>1, <1>6, <2>1 DEF QuietHolds, RoomyHolds
    <2>3. s.phase # "similar"
        BY <2>1
    <2> QED BY <1>6, <1>8, <2>1, <2>2, <2>3, QuietGoesOn
<1>9. CASE r.text /\ r.vec # << >> /\ s = WithVectors(search, VectorCandidates(r, n), "text")
    <2>1. s.phase = "text" /\ s.textScores = search.textScores
        BY <1>2, <1>9 DEF SearchState, WithVectors
    <2>2. Roomy(search) => RoomyHolds(s)
        BY <1>1, <1>6, <2>1 DEF QuietHolds, RoomyHolds
    <2> HIDE DEF n
    <2> QED BY <1>2, <1>3, <1>6, <1>9, <2>2, WithVectorsQuiet
<1> QED BY <1>4, <1>7, <1>8, <1>9

LEMMA SearchTextQuiet ==
    ASSUME SearchAssumption, SearchInv, QuietInv, SearchText
    PROVE  QuietInv'
<1> DEFINE r == search.req
           hits == TextCandidates(r, Share(r, search.plan, Tuning.primary))
           phase == IF search.plan = "textFirst" THEN "similar" ELSE "merge"
           keeps == (r.vec = << >> \/ search.plan = "textFirst") /\ hits # << >>
           scores == IF keeps THEN TextScores(ToSet(hits)) ELSE << >>
           next == [search EXCEPT !.phase = phase]
<1>1. search.phase = "text" /\ search.phase \in SearchPhases
    BY DEF SearchText, SearchPhases
<1>2. search \in SearchState /\ TablesAgree
    BY <1>1, SearchingHolds
<1>3. r \in SearchRequest /\ r.limit \in Nat
    BY <1>2 DEF SearchState, SearchRequest
<1>4. PICK s : /\ Goes(s)
               /\ \/ setup.fts /\ s = [next EXCEPT !.texts = IdSeq(hits), !.textScores = scores]
                  \/ ~(setup.fts /\ NeedsText(search)) /\ s = next
                  \/ s = [next EXCEPT !.quiet = FALSE]
    BY DEF SearchText
<1> HIDE DEF scores, phase
<1>5. s.quiet => /\ search.quiet /\ SameVectors(s) /\ s.phase = phase
                 /\ \/ setup.fts /\ s.textScores = scores
                    \/ ~(setup.fts /\ NeedsText(search)) /\ s.textScores = search.textScores
    BY <1>2, <1>4 DEF SearchState, SameVectors
<1> SUFFICES ASSUME s.quiet PROVE QuietHolds(s)
    BY <1>4, GoesQuiet
<1>6. QuietHolds(search)
    BY <1>1, <1>5, QuietSearching
<1>7. s.phase = "similar" => s.plan = "textFirst"
    BY <1>5 DEF phase, SameVectors
<1>8. r.text
    BY <1>1, <1>6 DEF QuietHolds, AloneHolds
<1>9. ASSUME Roomy(search) PROVE RoomyHolds(s)
    <2>1. search.plan \in {"none", "balanced"} /\ r.limit > Cardinality(rows) /\ search.textScores = << >>
        BY <1>1, <1>6, <1>9 DEF QuietHolds, RoomyHolds, Roomy
    <2>2. s.phase = "merge"
        BY <1>5, <2>1 DEF phase
    <2>3. Share(r, search.plan, Tuning.primary) = r.limit
        BY <2>1 DEF Share
    <2>4. ToSet(hits) = TextHits(Filtered(r, rows))
        <3>1. Cardinality(rows) \in Nat
            BY <1>2, FS_CardinalityType DEF TablesAgree, GoodTable
        <3>2. Cardinality(rows) <= r.limit
            BY <1>3, <2>1, <3>1
        <3> QED BY <1>2, <1>3, <2>3, <3>2, AllTexts
    <2>5. hits = << >> <=> TextHits(Filtered(r, rows)) = {}
        <3>1. hits \in Seq(rows)
            BY <1>2, <1>3, <2>3, TextCandidatesFacts
        <3>2. hits = << >> => ToSet(hits) = {}
            BY NothingYet
        <3>3. hits # << >> => ToSet(hits) # {}
            <4> HIDE DEF hits
            <4>1. hits # << >> => 1 \in DOMAIN hits
                BY <3>1
            <4> QED BY <4>1 DEF ToSet
        <3> QED BY <2>4, <3>2, <3>3
    <2> HIDE DEF hits
    <2>6. CASE r.vec # << >>
        <3>1. s.textScores = << >>
            BY <1>5, <2>1, <2>6 DEF scores
        <3> QED BY <1>5, <2>2, <2>6, <3>1 DEF RoomyHolds, SameVectors
    <2>7. CASE r.vec = << >>
        <3>1. NeedsText(search)
            BY <2>1, <2>7 DEF NeedsText
        <3>2. s.textScores = Fts(r)
            <4>1. CASE setup.fts
                <5>1. s.textScores = scores
                    BY <1>5, <3>1, <4>1
                <5>2. scores = Fts(r)
                    BY <2>4, <2>5, <2>7, <4>1 DEF scores, Fts
                <5> QED BY <5>1, <5>2
            <4>2. CASE ~setup.fts
                BY <1>5, <2>1, <4>2 DEF Fts
            <4> QED BY <4>1, <4>2
        <3> QED BY <1>5, <2>2, <2>7, <3>2 DEF RoomyHolds, SameVectors
    <2> QED BY <2>6, <2>7
<1> QED BY <1>5, <1>6, <1>7, <1>8, <1>9, QuietGoesOn

LEMMA SearchSimilarQuiet ==
    ASSUME SearchAssumption, SearchInv, QuietInv, SearchSimilar
    PROVE  QuietInv'
<1> DEFINE r == search.req
           n == Share(r, "textFirst", Tuning.secondary)
           s == WithVectors(search, VectorCandidates(r, n), "merge")
<1>1. search.phase = "similar" /\ search.phase \in SearchPhases /\ Goes(s)
    BY DEF SearchSimilar, SearchPhases
<1>2. search \in SearchState /\ TablesAgree
    BY <1>1, SearchingHolds
<1>3. r \in SearchRequest /\ n \in Nat
    BY <1>2, ShareFacts DEF SearchState, SearchAssumption
<1>4. s.quiet = search.quiet
    BY <1>2 DEF SearchState, WithVectors
<1> SUFFICES ASSUME search.quiet PROVE QuietHolds(s)
    BY <1>1, <1>4, GoesQuiet
<1>5. QuietHolds(search)
    BY <1>1, QuietSearching
<1>6. search.plan = "textFirst" /\ search.plan = PlanOf(r)
    BY <1>1, <1>5 DEF QuietHolds
<1>7. r.text /\ r.vec # << >>
    <2>1. r.text \in BOOLEAN
        BY <1>3 DEF SearchRequest
    <2>2. ~r.text \/ r.vec = << >> => PlanOf(r) = "none"
        BY DEF PlanOf
    <2> QED BY <1>6, <2>1, <2>2
<1>8. ~Roomy(search)
    BY <1>6 DEF Roomy
<1> HIDE DEF n
<1> QED BY <1>2, <1>3, <1>5, <1>7, <1>8, WithVectorsQuiet

\* Ids that the search has seen are of rows, while they are all it has seen.
LEMMA SeenAreRows ==
    ASSUME QuietHolds(search), NEW id, InSeen(id, search.req)
    PROVE  \E row \in Filtered(search.req, rows) : row.id = id
BY DEF QuietHolds, InSeen, Filtered

LEMMA SearchMergeQuiet ==
    ASSUME SearchAssumption, SearchInv, QuietInv, SearchMerge
    PROVE  QuietInv'
<1> DEFINE r == search.req
           Ids == {row.id : row \in rows}
           ids == IF search.plan = "textFirst" THEN Merged(search.texts, search.vectors, r.limit)
                  ELSE Merged(search.vectors, search.texts, r.limit)
           all == IF Backfills(search, ids) THEN Merged(ids, Newest(r), r.limit) ELSE ids
           final == Reranked(r, search, all)
           s == [search EXCEPT !.phase = "scores", !.ids = final]
<1>1. search.phase = "merge" /\ search.phase \in SearchPhases /\ Goes(s)
    BY DEF SearchMerge, SearchPhases
<1>2. search \in SearchState /\ TablesAgree /\ Found(search)
    BY <1>1, SearchingHolds
<1>3. r \in SearchRequest /\ r.limit \in Nat /\ search.vectors \in Seq(Nat) /\ search.texts \in Seq(Nat)
    BY <1>2 DEF SearchState, SearchRequest
<1> HIDE DEF final
<1>4. s.quiet = search.quiet /\ s.phase = "scores" /\ SameVectors(s) /\ s.ids = final
      /\ s.textScores = search.textScores
    BY <1>2 DEF SearchState, SameVectors
<1> HIDE DEF s
<1> SUFFICES ASSUME search.quiet PROVE QuietHolds(s)
    BY <1>1, <1>4, GoesQuiet
<1>5. QuietHolds(search)
    BY <1>1, QuietSearching
<1>6. r.text
    BY <1>1, <1>5 DEF QuietHolds, AloneHolds
<1>7. ASSUME Roomy(search) PROVE RoomyHolds(s)
    <2>1. search.plan \in {"none", "balanced"} /\ r.limit > Cardinality(rows)
          /\ (search.plan = "balanced" => RerankLimit(r, search.plan) >= Cardinality(rows))
        BY <1>7 DEF Roomy
    <2>2. IsFiniteSet(rows) /\ Cardinality(rows) \in Nat
        BY <1>2, FS_CardinalityType DEF TablesAgree, GoodTable
    <2>3. IsFiniteSet(Ids) /\ Cardinality(Ids) <= Cardinality(rows) /\ Cardinality(Ids) \in Nat
        <3>1. IsFiniteSet(Ids) /\ Cardinality(Ids) <= Cardinality(rows)
            BY <2>2, RowIds
        <3> HIDE DEF Ids
        <3> QED BY <3>1, FS_CardinalityType
    <2>4. Cardinality(Ids) <= r.limit /\ Cardinality(rows) <= r.limit
        BY <1>3, <2>1, <2>2, <2>3
    <2>5. ToSet(search.vectors) \subseteq Ids /\ ToSet(search.texts) \subseteq Ids
        BY <1>2, <1>5, SeenAreRows DEF Found, Filtered
    <2>6. ids = Merged(search.vectors, search.texts, r.limit)
        BY <2>1
    <2>7. ids \in Seq(Nat) /\ Len(ids) <= Cardinality(Ids)
        <3> HIDE DEF Ids, ids
        <3> QED BY <1>3, <2>3, <2>4, <2>5, <2>6, MergedRoomy
    <2>8. ToSet(ids) \subseteq Ids
        <3>1. ToSet(ids) \subseteq ToSet(search.vectors) \cup ToSet(search.texts)
            BY <1>3, <2>6, MergedFacts
        <3> QED BY <2>5, <3>1
    <2>9. Newest(r) \in Seq(Nat) /\ ToSet(Newest(r)) \subseteq Ids
        <3>1. Newest(r) \in Seq(Nat) /\ \A id \in ToSet(Newest(r)) : \E row \in rows : row.id = id
            BY <1>2, <1>3, NewestFacts
        <3>2. \A id : (\E row \in rows : row.id = id) => id \in Ids
            OBVIOUS
        <3> HIDE DEF Ids
        <3> QED BY <3>1, <3>2
    <2>10. Backfills(search, ids)
        <3>1. Len(ids) < r.limit
            <4> HIDE DEF ids, Ids
            <4>1. Len(ids) \in Nat
                BY <2>7
            <4> QED BY <1>3, <2>1, <2>2, <2>3, <2>7, <4>1
        <3> HIDE DEF ids
        <3> QED BY <2>1, <3>1 DEF Backfills
    <2>11. all = Merged(ids, Newest(r), r.limit)
        BY <2>10
    <2> HIDE DEF all, ids, Ids
    <2>12. /\ all \in Seq(Nat) /\ Len(all) <= Cardinality(Ids)
           /\ \A id \in ToSet(ids) \cup ToSet(Newest(r)) : id \in ToSet(all)
        BY <1>3, <2>3, <2>4, <2>7, <2>8, <2>9, <2>11, MergedRoomy
    <2>13. final = all
        <3>1. CASE search.plan = "balanced"
            <4>1. Len(all) \in Nat /\ RerankLimit(r, search.plan) \in Nat
                BY <1>3, <2>12, RerankLimitFacts
            <4>2. Len(all) <= RerankLimit(r, search.plan)
                BY <2>1, <2>2, <2>3, <2>12, <3>1, <4>1
            <4> QED BY <4>2 DEF final, Reranked
        <3>2. CASE search.plan = "none"
            <4>1. r.vec = << >>
                BY <1>5, <1>6, <3>2 DEF QuietHolds, PlanOf
            <4> QED BY <4>1 DEF final, Reranked
        <3> QED BY <2>1, <3>1, <3>2
    <2>14. \A row \in Filtered(r, rows) : row.id \in ToSet(final)
        <3>1. \A row \in Filtered(r, rows) : row.id \in ToSet(Newest(r))
            BY <1>2, <1>3, <2>4, AllNewest
        <3> QED BY <2>12, <2>13, <3>1
    <2>15. s.textScores = IF r.vec = << >> THEN Fts(r) ELSE << >>
        BY <1>1, <1>4, <1>5, <1>7 DEF QuietHolds, RoomyHolds
    <2> QED BY <1>4, <2>14, <2>15 DEF RoomyHolds, SameVectors
<1> QED BY <1>4, <1>5, <1>6, <1>7, QuietGoesOn

\* All text hits have their scores.
LEMMA FtsScores ==
    ASSUME NEW r, NEW row \in TextHits(Filtered(r, rows)), setup.fts
    PROVE  row.id \in DOMAIN Fts(r)
<1> DEFINE hits == TextHits(Filtered(r, rows))
<1>1. Fts(r) = TextScores(hits)
    BY DEF Fts
<1> HIDE DEF hits
<1>2. DOMAIN TextScores(hits) = {h.id : h \in hits}
    BY DEF TextScores
<1> QED BY <1>1, <1>2 DEF hits

LEMMA OverridingNothing ==
    ASSUME NEW f \in IntFunctions
    PROVE  Overriding(f, << >>) = f
<1>1. PICK D \in SUBSET Nat : f \in [D -> Int]
    BY DEF IntFunctions
<1>2. DOMAIN << >> = {}
    OBVIOUS
<1>3. Overriding(f, << >>) = [x \in D |-> f[x]]
    BY <1>1, <1>2 DEF Overriding
<1>4. f = [x \in D |-> f[x]]
    BY <1>1
<1> QED BY <1>3, <1>4

LEMMA SearchScoresQuiet ==
    ASSUME SearchAssumption, SearchInv, QuietInv, SearchScores
    PROVE  QuietInv'
<1> DEFINE r == search.req
           missing == ToSet(search.ids) \ DOMAIN search.textScores
           hits == TextHits({row \in TextIndex : row.id \in missing})
           next == [search EXCEPT !.phase = "contents"]
           scores == Overriding(TextScores(hits), search.textScores)
           none == ~setup.fts \/ missing = {} \/ SkipsTextScores(search) \/ hits = {}
<1>1. search.phase = "scores" /\ search.phase \in SearchPhases
    BY DEF SearchScores, SearchPhases
<1>2. search \in SearchState /\ TablesAgree /\ Found(search)
    BY <1>1, SearchingHolds
<1>3. r \in SearchRequest /\ r.limit \in Nat /\ search.vectors \in Seq(Nat)
    BY <1>2 DEF SearchState, SearchRequest
<1>4. PICK s : /\ Goes(s)
               /\ \/ none /\ s = next
                  \/ ~none /\ s = [next EXCEPT !.textScores = scores]
                  \/ s = [next EXCEPT !.quiet = FALSE]
    BY DEF SearchScores
<1> HIDE DEF scores, none
<1>5. s.quiet => /\ search.quiet /\ SameVectors(s) /\ s.phase = "contents" /\ s.ids = search.ids
                 /\ \/ none /\ s.textScores = search.textScores
                    \/ ~none /\ s.textScores = scores
    BY <1>2, <1>4 DEF SearchState, SameVectors
<1> SUFFICES ASSUME s.quiet PROVE QuietHolds(s)
    BY <1>4, GoesQuiet
<1>6. QuietHolds(search)
    BY <1>1, <1>5, QuietSearching
<1>7. r.text
    BY <1>1, <1>6 DEF QuietHolds, AloneHolds
<1>8. ASSUME Roomy(search) PROVE RoomyHolds(s)
    <2>1. /\ search.plan \in {"none", "balanced"} /\ r.limit > Cardinality(rows)
          /\ search.textScores = IF r.vec = << >> THEN Fts(r) ELSE << >>
          /\ \A row \in Filtered(r, rows) : row.id \in ToSet(search.ids)
        BY <1>1, <1>6, <1>8 DEF QuietHolds, RoomyHolds, Roomy
    <2>2. \A id \in ToSet(search.ids) : \E row \in Filtered(r, rows) : row.id = id
        BY <1>2, <1>6, SeenAreRows DEF Found
    <2>3. \A a, b \in rows : a.id = b.id => a = b
        BY <1>2 DEF TablesAgree, GoodTable, UniqueRows
    <2>4. Filtered(r, rows) \subseteq rows
        BY DEF Filtered
    <2>5. s.textScores = Fts(r)
        <3>1. CASE r.vec = << >> /\ setup.fts
            <4>1. search.textScores = Fts(r)
                BY <2>1, <3>1
            <4>2. hits = {}
                <5> SUFFICES ASSUME NEW h \in hits PROVE FALSE
                    OBVIOUS
                <5>1. h \in rows /\ h.id \in missing /\ Rank[h.text] # 0
                    BY DEF TextHits, TextIndex
                <5>2. PICK row \in Filtered(r, rows) : row.id = h.id
                    BY <2>2, <5>1
                <5>3. h \in TextHits(Filtered(r, rows))
                    BY <2>3, <2>4, <5>1, <5>2 DEF TextHits
                <5>4. h.id \in DOMAIN Fts(r)
                    BY <3>1, <5>3, FtsScores
                <5> QED BY <4>1, <5>1, <5>4
            <4> QED BY <1>5, <4>1, <4>2 DEF none
        <3>2. CASE ~setup.fts
            <4>1. search.textScores = << >> /\ Fts(r) = << >>
                BY <2>1, <3>2 DEF Fts
            <4> QED BY <1>5, <3>2, <4>1 DEF none
        <3>3. CASE r.vec # << >> /\ setup.fts
            <4>1. search.textScores = << >> /\ DOMAIN << >> = {}
                BY <2>1, <3>3
            <4>2. missing = ToSet(search.ids)
                BY <4>1
            <4>3. \A row \in rows : row.id \in ToSet(search.ids) <=> row \in Filtered(r, rows)
                <5> TAKE row \in rows
                <5>1. ASSUME row.id \in ToSet(search.ids) PROVE row \in Filtered(r, rows)
                    <6>1. PICK o \in Filtered(r, rows) : o.id = row.id
                        BY <2>2, <5>1
                    <6>2. o \in rows
                        BY <2>4
                    <6>3. o = row
                        BY <2>3, <6>1, <6>2
                    <6> QED BY <6>3
                <5>2. ASSUME row \in Filtered(r, rows) PROVE row.id \in ToSet(search.ids)
                    BY <2>1, <5>2
                <5> QED BY <5>1, <5>2
            <4>4. {row \in TextIndex : row.id \in missing} = Filtered(r, rows)
                <5>1. \A row : row \in {o \in TextIndex : o.id \in missing} <=> row \in Filtered(r, rows)
                    BY <2>4, <4>2, <4>3 DEF TextIndex
                <5> HIDE DEF missing
                <5> QED BY <5>1
            <4>5. hits = TextHits(Filtered(r, rows))
                BY <4>4
            <4> HIDE DEF hits, missing
            <4>6. ~SkipsTextScores(search)
                <5>1. Len(search.vectors) <= Cardinality(rows) /\ Len(search.vectors) \in Nat
                    BY <1>3, <1>6 DEF QuietHolds
                <5>2. Cardinality(rows) \in Nat
                    BY <1>2, FS_CardinalityType DEF TablesAgree, GoodTable
                <5>3. ~(Len(search.vectors) >= r.limit)
                    BY <1>3, <2>1, <5>1, <5>2
                <5> QED BY <5>3 DEF SkipsTextScores
            <4>7. CASE hits = {}
                BY <1>5, <3>3, <4>1, <4>5, <4>7 DEF none, Fts
            <4>8. CASE hits # {}
                <5>1. missing # {}
                    <6>1. PICK h \in hits : TRUE
                        BY <4>8
                    <6>2. h \in Filtered(r, rows)
                        BY <4>5 DEF TextHits
                    <6> QED BY <2>1, <4>2, <6>2
                <5>2. s.textScores = scores
                    BY <1>5, <3>3, <4>6, <4>8, <5>1 DEF none
                <5>3. GoodTable(hits)
                    BY <1>2, <2>4, <4>5, PartOfTable DEF TablesAgree, TextHits
                <5>4. TextScores(hits) \in IntFunctions
                    BY <4>8, <5>3, TextScoresFacts
                <5>5. scores = TextScores(hits)
                    BY <4>1, <5>4, OverridingNothing DEF scores
                <5> QED BY <3>3, <4>5, <4>8, <5>2, <5>5 DEF Fts
            <4> QED BY <4>7, <4>8
        <3> QED BY <3>1, <3>2, <3>3
    <2> QED BY <1>5, <2>1, <2>5 DEF RoomyHolds, SameVectors
<1>9. s.phase # "similar"
    BY <1>5
<1> QED BY <1>5, <1>6, <1>7, <1>8, <1>9, QuietGoesOn

LEMMA SearchContentsQuiet ==
    ASSUME SearchAssumption, SearchInv, QuietInv, SearchContents
    PROVE  QuietInv'
<1> DEFINE contents == OverlapsOf(ToSet(search.ids) \ DOMAIN search.textScores)
           s == [search EXCEPT !.phase = "embeddings", !.contents = contents]
<1>1. search.phase = "contents" /\ search.phase \in SearchPhases /\ Goes(s)
    BY DEF SearchContents, SearchPhases
<1>2. search \in SearchState
    BY <1>1, SearchingHolds
<1> HIDE DEF contents
<1>3. s.quiet = search.quiet /\ s.phase = "embeddings" /\ SameVectors(s) /\ s.ids = search.ids
      /\ s.textScores = search.textScores /\ s.contents = contents
    BY <1>2 DEF SearchState, SameVectors
<1> HIDE DEF s
<1> SUFFICES ASSUME search.quiet PROVE QuietHolds(s)
    BY <1>1, <1>3, GoesQuiet
<1>4. QuietHolds(search)
    BY <1>1, QuietSearching
<1>5. search.req.text
    BY <1>1, <1>4 DEF QuietHolds, AloneHolds
<1>6. ASSUME Roomy(search) PROVE RoomyHolds(s)
    <2>1. RoomyHolds(search)
        BY <1>4, <1>6 DEF QuietHolds
    <2> QED BY <1>1, <1>3, <2>1 DEF RoomyHolds, SameVectors, contents
<1>7. s.phase # "similar"
    BY <1>3
<1> QED BY <1>3, <1>4, <1>5, <1>6, <1>7, QuietGoesOn

LEMMA RowFetched ==
    ASSUME TablesAgree, NEW ids, NEW row \in rows, row.id \in ids
    PROVE  row.id \in DOMAIN RowsById(ids) /\ RowsById(ids)[row.id] = row
<1>1. \A a, b \in rows : a.id = b.id => a = b
    BY DEF TablesAgree, GoodTable, UniqueRows
<1> DEFINE of(id) == CHOOSE o \in rows : o.id = id
           there == {o.id : o \in rows} \cap ids
<1>2. of(row.id) = row
    BY <1>1
<1>3. row.id \in there
    OBVIOUS
<1>4. RowsById(ids) = [id \in there |-> of(id)]
    BY DEF RowsById
<1> HIDE DEF of, there
<1> QED BY <1>2, <1>3, <1>4

LEMMA SearchEmbeddingsQuiet ==
    ASSUME SearchAssumption, SearchInv, QuietInv, SearchEmbeddings
    PROVE  QuietInv'
<1> DEFINE r == search.req
           unscored == ToSet(search.ids) \ DOMAIN search.vectorScores
           unfound == ToSet(search.ids) \ DOMAIN search.textScores
           fetched == EmbeddingsOf(unscored)
           vector(id) == IF r.vec = << >> THEN 0
                         ELSE IF id \in DOMAIN search.vectorScores THEN search.vectorScores[id]
                         ELSE IF id \in DOMAIN fetched /\ Len(fetched[id]) = Len(r.vec)
                              THEN Similarity(r.vec, fetched[id])
                         ELSE 0
           text(id) == IF id \in DOMAIN search.textScores THEN search.textScores[id]
                       ELSE ValueAt(search.contents, id)
           scored == {[id |-> id, vector |-> vector(id), text |-> text(id)] : id \in ToSet(search.ids)}
           Vector(row) == IF r.vec # << >> /\ Len(row.vec) = Len(r.vec) THEN Similarity(r.vec, row.vec) ELSE 0
           Text(row) == IF row.id \in DOMAIN Fts(r) THEN Fts(r)[row.id] ELSE Overlap[row.text]
           every == {[id |-> row.id, vector |-> Vector(row), text |-> Text(row)] : row \in Filtered(r, rows)}
           ranked == RankedResults(r, scored, r.k)
           s == [search EXCEPT !.phase = "payload", !.results = ranked]
<1>1. search.phase = "embeddings" /\ search.phase \in SearchPhases /\ Goes(s)
    BY DEF SearchEmbeddings, SearchPhases
<1>2. search \in SearchState /\ TablesAgree /\ Found(search)
    BY <1>1, SearchingHolds
<1> HIDE DEF ranked
<1>3. s.quiet = search.quiet /\ s.phase = "payload" /\ SameVectors(s) /\ s.results = ranked
    BY <1>2 DEF SearchState, SameVectors
<1> HIDE DEF s
<1> SUFFICES ASSUME search.quiet PROVE QuietHolds(s)
    BY <1>1, <1>3, GoesQuiet
<1>4. QuietHolds(search)
    BY <1>1, QuietSearching
<1>5. r.text
    BY <1>1, <1>4 DEF QuietHolds, AloneHolds
<1>6. ASSUME Roomy(search) PROVE RoomyHolds(s)
    <2>1. /\ \A row \in Filtered(r, rows) : row.id \in ToSet(search.ids)
          /\ search.textScores = Fts(r) /\ search.contents = OverlapsOf(unfound)
        BY <1>1, <1>4, <1>6 DEF QuietHolds, RoomyHolds
    <2>2. \A id \in ToSet(search.ids) : \E row \in Filtered(r, rows) : row.id = id
        BY <1>2, <1>4, SeenAreRows DEF Found
    <2>3. \A a, b \in rows : a.id = b.id => a = b
        BY <1>2 DEF TablesAgree, GoodTable, UniqueRows
    <2>4. Filtered(r, rows) \subseteq rows
        BY DEF Filtered
    <2>5. ASSUME NEW row \in Filtered(r, rows) PROVE vector(row.id) = Vector(row)
        <3>1. row \in rows /\ row.id \in ToSet(search.ids)
            BY <2>1, <2>4
        <3>2. CASE r.vec = << >>
            BY <3>2
        <3>3. CASE r.vec # << >> /\ row.id \in DOMAIN search.vectorScores
            <4>1. vector(row.id) = search.vectorScores[row.id]
                BY <3>3
            <4>2. PICK o \in rows : o.id = row.id /\ Len(o.vec) = Len(r.vec)
                                    /\ search.vectorScores[row.id] = Similarity(r.vec, o.vec)
                BY <1>4, <3>3 DEF QuietHolds, IsScore
            <4>3. o = row
                BY <2>3, <3>1, <4>2
            <4> HIDE DEF vector
            <4> QED BY <3>3, <4>1, <4>2, <4>3
        <3>4. CASE r.vec # << >> /\ row.id \notin DOMAIN search.vectorScores
            <4>1. row.id \in unscored
                BY <3>1, <3>4
            <4> HIDE DEF unscored
            <4>2. row.id \in DOMAIN RowsById(unscored) /\ RowsById(unscored)[row.id] = row
                BY <1>2, <3>1, <4>1, RowFetched
            <4>3. row.id \in DOMAIN fetched /\ fetched[row.id] = row.vec
                BY <4>2 DEF EmbeddingsOf
            <4> HIDE DEF fetched
            <4> QED BY <3>4, <4>3
        <3> QED BY <3>2, <3>3, <3>4
    <2>6. ASSUME NEW row \in Filtered(r, rows) PROVE text(row.id) = Text(row)
        <3>1. row \in rows /\ row.id \in ToSet(search.ids)
            BY <2>1, <2>4
        <3>2. CASE row.id \in DOMAIN search.textScores
            BY <2>1, <3>2
        <3>3. CASE row.id \notin DOMAIN search.textScores
            <4>1. row.id \in unfound
                BY <3>1, <3>3
            <4> HIDE DEF unfound
            <4>2. row.id \in DOMAIN RowsById(unfound) /\ RowsById(unfound)[row.id] = row
                BY <1>2, <3>1, <4>1, RowFetched
            <4>3. row.id \in DOMAIN search.contents /\ search.contents[row.id] = Overlap[row.text]
                BY <2>1, <4>2 DEF OverlapsOf
            <4> QED BY <2>1, <3>3, <4>3 DEF ValueAt
        <3> QED BY <3>2, <3>3
    <2> HIDE DEF vector, text, Vector, Text
    <2>7. scored = every
        <3>1. ASSUME NEW e \in scored PROVE e \in every
            <4>1. PICK id \in ToSet(search.ids) : e = [id |-> id, vector |-> vector(id), text |-> text(id)]
                OBVIOUS
            <4>2. PICK row \in Filtered(r, rows) : row.id = id
                BY <2>2
            <4> QED BY <2>5, <2>6, <4>1, <4>2
        <3>2. ASSUME NEW e \in every PROVE e \in scored
            <4>1. PICK row \in Filtered(r, rows) : e = [id |-> row.id, vector |-> Vector(row), text |-> Text(row)]
                OBVIOUS
            <4> QED BY <2>1, <2>5, <2>6, <4>1
        <3> HIDE DEF scored, every
        <3> QED BY <3>1, <3>2
    <2>8. Exhaustive(r, Filtered(r, rows)) = RankedResults(r, every, r.k)
        BY DEF Exhaustive, every, Vector, Text, Fts
    <2>9. ranked = RankedResults(r, every, r.k)
        <3> HIDE DEF scored, every
        <3> QED BY <2>7 DEF ranked
    <2> QED BY <1>3, <2>8, <2>9 DEF RoomyHolds, SameVectors
<1>7. s.phase # "similar"
    BY <1>3
<1> QED BY <1>3, <1>4, <1>5, <1>6, <1>7, QuietGoesOn

\* Whatever was found is still there to be given its payload.
LEMMA SearchPayloadQuiet ==
    ASSUME SearchAssumption, SearchInv, QuietInv, SearchPayload
    PROVE  QuietInv'
<1> DEFINE results == search.results
           there == {i \in DOMAIN results : results[i].id \in {row.id : row \in rows}}
           final == IF search.req.payloads THEN SelectAt(results, there) ELSE results
           s == [search EXCEPT !.phase = "done", !.results = final]
<1>1. search.phase = "payload" /\ search.phase \in SearchPhases /\ Goes(s)
    BY DEF SearchPayload, SearchPhases
<1>2. search \in SearchState /\ InRank(results) /\ Found(search)
    BY <1>1, SearchingHolds
<1> HIDE DEF final
<1>3. s.quiet = search.quiet /\ s.phase = "done" /\ SameVectors(s) /\ s.results = final
    BY <1>2 DEF SearchState, SameVectors
<1> HIDE DEF s
<1> SUFFICES ASSUME search.quiet PROVE QuietHolds(s)
    BY <1>1, <1>3, GoesQuiet
<1>4. QuietHolds(search)
    BY <1>1, QuietSearching
<1>5. final = results
    <2>1. ASSUME NEW i \in DOMAIN results PROVE i \in there
        <3>1. InSeen(results[i].id, search.req)
            BY <1>2 DEF Found
        <3>2. PICK row \in Filtered(search.req, rows) : row.id = results[i].id
            BY <1>4, <3>1, SeenAreRows
        <3>3. row \in rows
            BY DEF Filtered
        <3> QED BY <3>2, <3>3
    <2>2. there = DOMAIN results
        BY <2>1
    <2>3. results \in Seq(AResult)
        BY <1>2 DEF InRank
    <2> HIDE DEF there, results
    <2>4. SelectAt(results, DOMAIN results) = results
        BY <2>3, SelectAll
    <2> QED BY <2>2, <2>4 DEF final
<1>6. AloneHolds(search) => AloneHolds(s)
    BY <1>1, <1>3, <1>5 DEF AloneHolds, SameVectors
<1>7. RoomyHolds(search) => RoomyHolds(s)
    BY <1>1, <1>3, <1>5 DEF RoomyHolds, SameVectors
<1>8. ~search.req.text => AloneHolds(s)
    BY <1>4, <1>6 DEF QuietHolds
<1>9. Roomy(search) => RoomyHolds(s)
    BY <1>4, <1>7 DEF QuietHolds
<1>10. s.phase # "similar"
    BY <1>3
<1> QED BY <1>3, <1>4, <1>8, <1>9, <1>10, QuietGoesOn

LEMMA SearchNextQuiet == SearchAssumption /\ SearchInv /\ QuietInv /\ [SearchNext]_searchVars => QuietInv'
<1> SUFFICES ASSUME SearchAssumption, SearchInv, QuietInv, [SearchNext]_searchVars PROVE QuietInv'
    OBVIOUS
<1>1. CASE BeginSearch
    BY <1>1, BeginSearchQuiet
<1>2. CASE SearchVectors
    BY <1>2, SearchVectorsQuiet
<1>3. CASE SearchText
    BY <1>3, SearchTextQuiet
<1>4. CASE SearchSimilar
    BY <1>4, SearchSimilarQuiet
<1>5. CASE SearchMerge
    BY <1>5, SearchMergeQuiet
<1>6. CASE SearchScores
    BY <1>6, SearchScoresQuiet
<1>7. CASE SearchContents
    BY <1>7, SearchContentsQuiet
<1>8. CASE SearchEmbeddings
    BY <1>8, SearchEmbeddingsQuiet
<1>9. CASE SearchPayload
    BY <1>9, SearchPayloadQuiet
<1>10. CASE SearchWrite
    BY <1>10, SearchWriteQuiet
<1>11. CASE UNCHANGED searchVars
    BY <1>11, QuietStutters
<1> QED BY <1>1, <1>2, <1>3, <1>4, <1>5, <1>6, <1>7, <1>8, <1>9, <1>10, <1>11 DEF SearchNext

LEMMA QuietIsExhaustive == SearchInv /\ QuietInv => RoomySearchIsExhaustive
<1> SUFFICES ASSUME SearchInv, QuietInv, search.phase = "done", search.quiet PROVE RoomySearchIsExhaustive
    BY DEF RoomySearchIsExhaustive
<1> DEFINE r == search.req
<1>1. search.phase \in SearchPhases
    BY DEF SearchPhases
<1>2. QuietHolds(search)
    BY <1>1, QuietSearching
<1>3. ~r.text => [i \in DOMAIN search.results |-> search.results[i].id]
                    = IdSeq(BySimilarity(r, Filtered(r, rows), r.k))
    <2> SUFFICES ASSUME ~r.text PROVE IdSeq(search.results) = IdSeq(BySimilarity(r, Filtered(r, rows), r.k))
        BY DEF IdSeq
    <2> QED BY <1>2 DEF QuietHolds, AloneHolds
<1>4. Roomy(search) => search.results = Exhaustive(r, Filtered(r, rows))
    BY <1>2 DEF QuietHolds, RoomyHolds
<1> QED BY <1>3, <1>4 DEF RoomySearchIsExhaustive, Roomy

(***************************************************************************)
(* While nobody writes and the text index works, a search for a vector     *)
(* alone is exact, and one by text or in the balanced plan with room for   *)
(* every row among its candidates ranks as if it had scored every row that *)
(* satisfies the filter (search() of src/src/lib.rs).                      *)
(***************************************************************************)
THEOREM RoomySearchesAreExhaustive == SearchSpec => []RoomySearchIsExhaustive
<1>1. SearchInit => QuietInv
    BY DEF SearchInit, QuietInv
<1>2. SearchInv /\ QuietInv /\ [SearchNext]_searchVars => QuietInv'
    BY SearchNextQuiet, SearchAssumption
<1>3. SearchSpec => []QuietInv
    BY <1>1, <1>2, SearchInvariant, PTL DEF SearchSpec
<1> QED BY <1>3, SearchInvariant, QuietIsExhaustive, PTL
=============================================================================
