-------------------------- MODULE ChunkStoreProofs --------------------------
(***************************************************************************)
(* Proofs about ChunkStore, for any number of handles, chunks, embeddings  *)
(* and calls: its table, its vector index, its filter index and what a     *)
(* filtered search returns.                                                *)
(***************************************************************************)
EXTENDS ChunkStore, FiniteSetTheorems, FunctionTheorems, WellFoundedInduction, TLAPS

-----------------------------------------------------------------------------
(* Least numbers, and where an id comes first and last in a batch.         *)

LEMMA LeastNumber ==
    ASSUME NEW T \in SUBSET Nat, T # {}
    PROVE  \E x \in T : \A y \in T : x <= y
<1>1. PICK x \in T : \A y \in T : <<y, x>> \notin OpToRel(<, Nat)
  BY WFMin, NatLessThanWellFounded, Zenon
<1>2. \A y \in T : ~(y < x)
  BY <1>1, Zenon DEF OpToRel
<1> QED
  BY <1>2

LEMMA FirstPosition ==
    ASSUME NEW batch \in Seq(Input), NEW c \in InputIds(batch)
    PROVE  /\ FirstAt(batch, c) \in 1..Len(batch)
           /\ batch[FirstAt(batch, c)].id = c
<1> DEFINE T == {i \in 1..Len(batch) : batch[i].id = c}
<1>1. T \in SUBSET Nat /\ T # {}
  BY DEF InputIds, Inputs
<1>2. PICK x \in T : \A y \in T : x <= y
  BY <1>1, LeastNumber
<1>3. x \in 1..Len(batch) /\ batch[x].id = c /\ \A j \in 1..(x - 1) : batch[j].id # c
  BY <1>2
<1> QED
  BY <1>3 DEF FirstAt

LEMMA LastOne ==
    ASSUME NEW batch \in Seq(Input), NEW c \in InputIds(batch)
    PROVE  LastInput(batch, c) \in Inputs(batch) /\ LastInput(batch, c).id = c
<1> DEFINE n == Len(batch)
           T == {i \in 0..n : i < n /\ batch[n - i].id = c}
<1>1. T \in SUBSET Nat
  OBVIOUS
<1>2. PICK l \in 1..n : batch[l].id = c
  BY DEF InputIds, Inputs
<1>3. n - l \in T
  <2>1. n \in Nat /\ n - l \in 0..n /\ n - l < n /\ n - (n - l) = l
    OBVIOUS
  <2> QED
    BY <1>2, <2>1
<1>4. PICK x \in T : \A y \in T : x <= y
  BY <1>1, <1>3, LeastNumber
<1>5. ASSUME NEW j \in (n - x + 1)..n
      PROVE  batch[j].id # c
  <2>1. n \in Nat /\ n - j \in 0..n /\ n - j < n /\ n - (n - j) = j /\ n - j < x
    BY <1>4
  <2> QED
    BY <1>4, <2>1
<1>6. n - x \in 1..n /\ batch[n - x].id = c
  BY <1>4
<1>7. \E i \in 1..n : batch[i].id = c /\ \A j \in (i + 1)..n : batch[j].id # c
  BY <1>5, <1>6
<1> QED
  BY <1>7 DEF LastInput, Inputs

LEMMA InputsAreInputs ==
    ASSUME NEW batch \in Seq(Input)
    PROVE  /\ Inputs(batch) \subseteq Input
           /\ InputIds(batch) \subseteq Chunk
           /\ IsFiniteSet(InputIds(batch))
<1> DEFINE f == [i \in 1..Len(batch) |-> batch[i].id]
<1>1. Inputs(batch) \subseteq Input
  BY DEF Inputs
<1>2. InputIds(batch) \subseteq Chunk
  BY <1>1 DEF InputIds, Input
<1>3. f \in Surjection(1..Len(batch), InputIds(batch))
  BY DEF Surjection, InputIds, Inputs
<1>4. IsFiniteSet(1..Len(batch))
  BY FS_Interval
<1>5. IsFiniteSet(InputIds(batch))
  BY <1>3, <1>4, FS_Surjection
<1> QED
  BY <1>1, <1>2, <1>5

-----------------------------------------------------------------------------
(* The table: an upsert keeps the rows' ids and keys apart.                *)

ApartRows(t) == \A r, s \in t : r.id = s.id \/ r.key = s.key => r = s
KeysBelow(t, k) == \A r \in t : r.key < k

LEMMA RowOfStored ==
    ASSUME NEW t \in SUBSET Row, NEW c \in StoredIds(t)
    PROVE  RowOf(t, c) \in t /\ RowOf(t, c).id = c
BY DEF StoredIds, RowOf

\* The keys that new chunks get follow the order in which they come.
LEMMA NewKeys ==
    ASSUME NEW t \in SUBSET Row, NEW k \in Nat, NEW batch \in Seq(Input),
           NEW c \in InputIds(batch) \ StoredIds(t)
    PROVE  /\ KeyFor(t, k, batch, c) \in Nat
           /\ KeyFor(t, k, batch, c) >= k
           /\ KeyFor(t, k, batch, c) < k + Cardinality(InputIds(batch) \ StoredIds(t))
           /\ \A d \in InputIds(batch) \ StoredIds(t) :
                 KeyFor(t, k, batch, c) = KeyFor(t, k, batch, d) => c = d
<1> DEFINE New == InputIds(batch) \ StoredIds(t)
           Before(x) == {d \in New : FirstAt(batch, d) < FirstAt(batch, x)}
<1>1. IsFiniteSet(New) /\ Cardinality(New) \in Nat
  <2>1. IsFiniteSet(InputIds(batch)) /\ New \in SUBSET InputIds(batch)
    BY InputsAreInputs
  <2> QED
    BY <2>1, FS_Subset, FS_CardinalityType
<1>2. \A x : IsFiniteSet(Before(x)) /\ Cardinality(Before(x)) \in Nat
  <2> TAKE x
  <2>1. Before(x) \in SUBSET New
    OBVIOUS
  <2> HIDE DEF New, Before
  <2> QED
    BY <1>1, <2>1, FS_Subset, FS_CardinalityType
<1>3. \A x \in New : FirstAt(batch, x) \in Nat /\ batch[FirstAt(batch, x)].id = x
  BY FirstPosition
<1>4. \A x, y \in New : FirstAt(batch, x) < FirstAt(batch, y)
         => Cardinality(Before(x)) < Cardinality(Before(y))
  <2> TAKE x, y \in New
  <2> HAVE FirstAt(batch, x) < FirstAt(batch, y)
  <2>1. Before(x) \in SUBSET Before(y) /\ x \in Before(y) /\ x \notin Before(x)
    BY <1>3
  <2>2. Before(x) # Before(y)
    BY <2>1
  <2> HIDE DEF Before, New
  <2>3. Cardinality(Before(x)) <= Cardinality(Before(y))
        /\ (Cardinality(Before(y)) = Cardinality(Before(x)) => Before(y) = Before(x))
    BY <1>2, <2>1, FS_Subset
  <2> QED
    BY <1>2, <2>2, <2>3
<1>5. \A x \in New : Cardinality(Before(x)) < Cardinality(New)
  <2> TAKE x \in New
  <2>1. Before(x) \in SUBSET New /\ x \notin Before(x)
    BY <1>3
  <2>2. Before(x) # New
    BY <2>1
  <2> HIDE DEF Before, New
  <2>3. Cardinality(Before(x)) <= Cardinality(New)
        /\ (Cardinality(New) = Cardinality(Before(x)) => New = Before(x))
    BY <1>1, <2>1, FS_Subset
  <2> QED
    BY <1>1, <1>2, <2>2, <2>3
<1>6. \A x, y \in New : Cardinality(Before(x)) = Cardinality(Before(y)) => x = y
  <2> TAKE x, y \in New
  <2> HAVE Cardinality(Before(x)) = Cardinality(Before(y))
  <2>1. FirstAt(batch, x) = FirstAt(batch, y)
    <3> HIDE DEF Before, New
    <3> QED
      BY <1>2, <1>3, <1>4
  <2> QED
    BY <1>3, <2>1
<1>7. \A x \in New : KeyFor(t, k, batch, x) = k + Cardinality(Before(x))
  BY DEF KeyFor
<1>8. c \in New
  OBVIOUS
<1> HIDE DEF Before, New
<1>9. /\ KeyFor(t, k, batch, c) \in Nat
      /\ KeyFor(t, k, batch, c) >= k
      /\ KeyFor(t, k, batch, c) < k + Cardinality(New)
  BY <1>1, <1>2, <1>5, <1>7, <1>8
<1>10. \A d \in New : KeyFor(t, k, batch, c) = KeyFor(t, k, batch, d) => c = d
  BY <1>2, <1>6, <1>7, <1>8
<1> QED
  BY <1>9, <1>10 DEF New

\* What an upsert makes of table t with next key k.
UpsertedTo(t, k, batch, new, n) ==
    /\ n \in Nat
    /\ new \in SUBSET Row
    /\ ApartRows(new)
    /\ KeysBelow(new, k + n)
    /\ StoredIds(new) = StoredIds(t) \cup InputIds(batch)
    /\ \A r \in new : (\E s \in t : s.id = r.id /\ s.key = r.key)
                      \/ (r.key >= k /\ r.id \notin StoredIds(t))
    /\ \A r \in new : r.id \in InputIds(batch) => r.emb = LastInput(batch, r.id).emb
    /\ \A r : r.id \notin InputIds(batch) => (r \in new <=> r \in t)

LEMMA UpsertedRows ==
    ASSUME NEW t \in SUBSET Row, NEW k \in Nat, NEW batch \in Seq(Input),
           ApartRows(t), KeysBelow(t, k)
    PROVE  UpsertedTo(t, k, batch, Upserted(t, k, batch), Cardinality(InputIds(batch) \ StoredIds(t)))
<1> PICK n : n = Cardinality(InputIds(batch) \ StoredIds(t))
  OBVIOUS
<1> PICK new : new = Upserted(t, k, batch)
  OBVIOUS
<1> DEFINE Put(c) == [id |-> c, key |-> KeyFor(t, k, batch, c), doc |-> LastInput(batch, c).doc,
                      meta |-> LastInput(batch, c).meta, emb |-> LastInput(batch, c).emb]
<1>1. \A r : r \in new <=> \/ r \in t /\ r.id \notin InputIds(batch)
                           \/ \E c \in InputIds(batch) : r = Put(c)
  BY DEF Upserted
<1>2. n \in Nat
  <2>1. IsFiniteSet(InputIds(batch)) /\ InputIds(batch) \ StoredIds(t) \in SUBSET InputIds(batch)
    BY InputsAreInputs
  <2> QED
    BY <2>1, FS_Subset, FS_CardinalityType
<1>3. \A c \in InputIds(batch) : c \in StoredIds(t) =>
         /\ KeyFor(t, k, batch, c) \in Nat /\ KeyFor(t, k, batch, c) < k
         /\ \E s \in t : s.id = c /\ s.key = KeyFor(t, k, batch, c)
  BY RowOfStored DEF KeyFor, KeysBelow, Row
<1>4. \A c \in InputIds(batch) : c \notin StoredIds(t) =>
         /\ KeyFor(t, k, batch, c) \in Nat
         /\ KeyFor(t, k, batch, c) >= k /\ KeyFor(t, k, batch, c) < k + n
         /\ \A d \in InputIds(batch) \ StoredIds(t) :
               KeyFor(t, k, batch, c) = KeyFor(t, k, batch, d) => c = d
  BY NewKeys
<1>5. \A c \in InputIds(batch) : LastInput(batch, c) \in Input /\ c \in Chunk
  BY LastOne, InputsAreInputs
<1> HIDE DEF Put
<1>6. \A c \in InputIds(batch) : Put(c) \in Row
  BY <1>3, <1>4, <1>5 DEF Put, Row, Input
<1>7. \A c : Put(c).id = c /\ Put(c).key = KeyFor(t, k, batch, c) /\ Put(c).emb = LastInput(batch, c).emb
  BY DEF Put
<1>8. new \in SUBSET Row
  BY <1>1, <1>6
<1>9. \A c \in InputIds(batch) : KeyFor(t, k, batch, c) \in Nat /\ KeyFor(t, k, batch, c) < k + n
  <2> TAKE c \in InputIds(batch)
  <2>1. CASE c \in StoredIds(t)
    <3>1. KeyFor(t, k, batch, c) \in Nat /\ KeyFor(t, k, batch, c) < k
      BY <1>3, <2>1
    <3> QED
      BY <1>2, <3>1
  <2>2. CASE c \notin StoredIds(t)
    BY <1>4, <2>2
  <2> QED
    BY <2>1, <2>2
<1>15. KeysBelow(new, k + n)
  <2> SUFFICES ASSUME NEW r \in new PROVE r.key < k + n
    BY DEF KeysBelow
  <2>1. CASE r \in t
    BY <1>2, <2>1 DEF KeysBelow, Row
  <2>2. ASSUME NEW c \in InputIds(batch), r = Put(c) PROVE r.key < k + n
    BY <1>7, <1>9, <2>2
  <2> QED
    BY <1>1, <2>1, <2>2
<1>10. \A r \in new : (\E s \in t : s.id = r.id /\ s.key = r.key) \/ (r.key >= k /\ r.id \notin StoredIds(t))
  <2> TAKE r \in new
  <2>1. CASE r \in t
    BY <2>1
  <2>2. ASSUME NEW c \in InputIds(batch), r = Put(c)
        PROVE  (\E s \in t : s.id = r.id /\ s.key = r.key) \/ (r.key >= k /\ r.id \notin StoredIds(t))
    BY <1>3, <1>4, <1>7, <2>2
  <2> QED
    BY <1>1, <2>1, <2>2
<1>11. ApartRows(new)
  <2> SUFFICES ASSUME NEW r \in new, NEW s \in new, r.id = s.id \/ r.key = s.key PROVE r = s
    BY DEF ApartRows
  <2>1. r.id = s.id
    <3>1. CASE r.id = s.id
      BY <3>1
    <3>2. CASE r.key = s.key
      <4>1. \A x \in t : x.key < k /\ x.key \in Nat
        BY DEF KeysBelow, Row
      <4>2. CASE r.id \in StoredIds(t) \/ s.id \in StoredIds(t)
        <5>1. (\E x \in t : x.id = r.id /\ x.key = r.key) \/ (r.key >= k /\ r.id \notin StoredIds(t))
          BY <1>10
        <5>2. (\E x \in t : x.id = s.id /\ x.key = s.key) \/ (s.key >= k /\ s.id \notin StoredIds(t))
          BY <1>10
        <5>3. /\ \E x \in t : x.id = r.id /\ x.key = r.key
              /\ \E x \in t : x.id = s.id /\ x.key = s.key
          BY <3>2, <4>1, <4>2, <5>1, <5>2
        <5> QED
          BY <3>2, <5>3 DEF ApartRows
      <4>3. CASE r.id \notin StoredIds(t) /\ s.id \notin StoredIds(t)
        <5>1. r \notin t /\ s \notin t
          BY <4>3 DEF StoredIds
        <5>2. PICK c \in InputIds(batch) : r = Put(c)
          BY <1>1, <5>1
        <5>3. PICK d \in InputIds(batch) : s = Put(d)
          BY <1>1, <5>1
        <5>4. r.id = c /\ s.id = d /\ r.key = KeyFor(t, k, batch, c) /\ s.key = KeyFor(t, k, batch, d)
          BY <1>7, <5>2, <5>3
        <5> QED
          BY <1>4, <3>2, <4>3, <5>4
      <4> QED
        BY <4>2, <4>3
    <3> QED
      BY <3>1, <3>2
  <2> QED
    BY <1>1, <1>7, <2>1 DEF ApartRows
<1>12. StoredIds(new) = StoredIds(t) \cup InputIds(batch)
  <2>1. \A c : c \in StoredIds(new) <=> \E r \in new : r.id = c
    BY DEF StoredIds
  <2>2. \A c : c \in StoredIds(t) <=> \E r \in t : r.id = c
    BY DEF StoredIds
  <2> QED
    BY <1>1, <1>7, <2>1, <2>2
<1>13. \A r \in new : r.id \in InputIds(batch) => r.emb = LastInput(batch, r.id).emb
  BY <1>1, <1>7
<1>14. \A r : r.id \notin InputIds(batch) => (r \in new <=> r \in t)
  BY <1>1, <1>7
<1> QED
  BY <1>2, <1>8, <1>10, <1>11, <1>12, <1>13, <1>14, <1>15 DEF UpsertedTo

-----------------------------------------------------------------------------
(* What the steps put into the indexes is well-typed.                      *)

\* Where an entry of a rebuilt index comes from.
LEMMA ImageEntries ==
    ASSUME NEW t \in SUBSET Row
    PROVE  /\ \E d : \A e \in Image(t) : e.emb.dim = d
           /\ \A e \in Image(t) : \E r \in Embedded(t) :
                 \/ e = [key |-> r.key, id |-> r.id, emb |-> r.emb]
                 \/ e = [key |-> r.key, id |-> r.id, emb |-> e.emb] /\ e.emb.vec = Garbled
           /\ \A r \in Embedded(t) : \E e \in Image(t) :
                 \/ e = [key |-> r.key, id |-> r.id, emb |-> r.emb]
                 \/ e.id = r.id /\ e.emb.vec = Garbled
           /\ Image(t) \in SUBSET Entry
<1> DEFINE first == CHOOSE s \in Embedded(t) : \A x \in Embedded(t) : s.key <= x.key
           whole(r) == [key |-> r.key, id |-> r.id, emb |-> r.emb]
           cut(r) == [key |-> r.key, id |-> r.id, emb |-> [dim |-> first.emb.dim, vec |-> Garbled]]
           inStep(r) == \A s \in Embedded(t) : s.key <= r.key => s.emb.dim = first.emb.dim
<1>1. \A e : e \in Image(t) <=> \E r \in Embedded(t) : e = [key |-> r.key, id |-> r.id,
            emb |-> IF inStep(r) THEN r.emb ELSE [dim |-> first.emb.dim, vec |-> Garbled]]
  BY DEF Image
<1>2. \A r \in Embedded(t) : r \in Row /\ r.emb \in Embedding /\ r.key \in Nat /\ r.id \in Chunk
  BY DEF Embedded, Row
<1>3. Embedded(t) # {} => first \in Embedded(t)
  <2> DEFINE Keys == {s.key : s \in Embedded(t)}
  <2> HAVE Embedded(t) # {}
  <2>1. Keys \in SUBSET Nat /\ Keys # {}
    BY <1>2
  <2>2. PICK k \in Keys : \A l \in Keys : k <= l
    BY <2>1, LeastNumber
  <2>3. \E s \in Embedded(t) : \A x \in Embedded(t) : s.key <= x.key
    BY <2>2
  <2> QED
    BY <2>3
<1>4. \A r \in Embedded(t) : inStep(r) => r.emb.dim = first.emb.dim
  BY <1>2
<1> HIDE DEF first, inStep
<1>5. \A e : e \in Image(t) <=> \E r \in Embedded(t) : e = IF inStep(r) THEN whole(r) ELSE cut(r)
  BY <1>1
<1>6. \A r \in Embedded(t) : /\ whole(r) \in Entry /\ cut(r) \in Entry
                             /\ whole(r).emb = r.emb
                             /\ cut(r).emb.dim = first.emb.dim /\ cut(r).emb.vec = Garbled
                             /\ cut(r) = [key |-> r.key, id |-> r.id, emb |-> cut(r).emb]
  BY <1>2, <1>3 DEF Entry, Embedding
<1>7. \A r : cut(r).id = r.id
  OBVIOUS
<1> HIDE DEF whole, cut
<1>8. \A e \in Image(t) : e.emb.dim = first.emb.dim
  BY <1>4, <1>5, <1>6
<1>9. Image(t) \in SUBSET Entry
  BY <1>5, <1>6
<1>10. \A r \in Embedded(t) : \E e \in Image(t) : e = whole(r) \/ (e.id = r.id /\ e.emb.vec = Garbled)
  BY <1>5, <1>6, <1>7
<1>11. \A e \in Image(t) : \E r \in Embedded(t) :
          e = whole(r) \/ (e = [key |-> r.key, id |-> r.id, emb |-> e.emb] /\ e.emb.vec = Garbled)
  BY <1>5, <1>6
<1> QED
  BY <1>8, <1>9, <1>10, <1>11 DEF whole

LEMMA FilterImageTyped ==
    ASSUME NEW t \in SUBSET Row
    PROVE  FilterImage(t) \in SUBSET FilterEntry
BY DEF FilterImage, Row, FilterEntry

LEMMA WiderSeq ==
    ASSUME NEW S, NEW T, S \subseteq T, NEW b \in Seq(S)
    PROVE  /\ b \in Seq(T)
           /\ \A i \in 1..Len(b) : b[i] \in S
OBVIOUS

LEMMA BatchesAreInputs == \A b \in Batches \cup Texts : b \in Seq(Input)
<1>1. ASSUME NEW b \in Batches PROVE b \in Seq(Input)
  <2>1. b \in Seq([id : Chunk, doc : Doc, meta : Meta, emb : Embedding])
    BY DataAssumption
  <2>2. [id : Chunk, doc : Doc, meta : Meta, emb : Embedding] \subseteq Input
    BY DEF Input
  <2> QED
    BY <2>1, <2>2, WiderSeq
<1>2. ASSUME NEW b \in Texts PROVE b \in Seq(Input)
  <2>1. b \in Seq([id : Chunk, doc : Doc, meta : Meta, emb : {NoEmb}])
    BY DataAssumption
  <2>2. [id : Chunk, doc : Doc, meta : Meta, emb : {NoEmb}] \subseteq Input
    BY DEF Input
  <2> QED
    BY <2>1, <2>2, WiderSeq
<1> QED
  BY <1>1, <1>2

LEMMA BatchEmbeddings ==
    /\ \A b \in Batches : \A i \in Inputs(b) : i.emb \in Embedding
    /\ \A b \in Texts : \A i \in Inputs(b) : i.emb = NoEmb
<1>1. ASSUME NEW b \in Batches, NEW i \in Inputs(b) PROVE i.emb \in Embedding
  <2>1. b \in Seq([id : Chunk, doc : Doc, meta : Meta, emb : Embedding])
    BY DataAssumption
  <2>2. PICK l \in 1..Len(b) : i = b[l]
    BY DEF Inputs
  <2>3. b[l] \in [id : Chunk, doc : Doc, meta : Meta, emb : Embedding]
    BY <2>1, WiderSeq
  <2> QED
    BY <2>2, <2>3
<1>2. ASSUME NEW b \in Texts, NEW i \in Inputs(b) PROVE i.emb = NoEmb
  <2>1. b \in Seq([id : Chunk, doc : Doc, meta : Meta, emb : {NoEmb}])
    BY DataAssumption
  <2>2. PICK l \in 1..Len(b) : i = b[l]
    BY DEF Inputs
  <2>3. b[l] \in [id : Chunk, doc : Doc, meta : Meta, emb : {NoEmb}]
    BY <2>1, WiderSeq
  <2> QED
    BY <2>2, <2>3
<1> QED
  BY <1>1, <1>2

LEMMA NewTyped ==
    ASSUME rows \in SUBSET Row
    PROVE  /\ \A b \in Batches : NewEntries(b) \in SUBSET Entry
           /\ \A b \in Batches \cup Texts : NewFilters(b) \in SUBSET FilterEntry
<1>1. ASSUME NEW b \in Batches \cup Texts, NEW i \in FetchedKeys(b)
      PROVE  /\ i \in Inputs(b) /\ i \in Input
             /\ RowOf(rows, i.id) \in Row
  <2>1. b \in Seq(Input)
    BY BatchesAreInputs
  <2>2. i \in Inputs(b) /\ i.id \in StoredIds(rows)
    BY <2>1, LastOne DEF FetchedKeys
  <2>3. i \in Input
    BY <2>1, <2>2, InputsAreInputs
  <2> QED
    BY <2>2, <2>3, RowOfStored
<1>2. ASSUME NEW b \in Batches, NEW i \in FetchedKeys(b)
      PROVE  [key |-> RowOf(rows, i.id).key, id |-> i.id, emb |-> i.emb] \in Entry
  BY <1>1, BatchEmbeddings DEF Entry, Row, Input
<1>3. ASSUME NEW b \in Batches \cup Texts, NEW i \in FetchedKeys(b)
      PROVE  [key |-> RowOf(rows, i.id).key, id |-> i.id, doc |-> i.doc, meta |-> i.meta] \in FilterEntry
  BY <1>1 DEF FilterEntry, Row, Input
<1> QED
  BY <1>2, <1>3 DEF NewEntries, NewFilters
-----------------------------------------------------------------------------
(* The types, and what the table keeps: ids and keys apart, keys used once. *)

\* Only the first step of a call looks at its argument.
First == {"index", "filter", "metadata", "embed", "docrow"}
ArgOf(step) ==
    {a \in Batches : step = "index"} \cup {a \in Texts : step = "filter"}
    \cup {<<a>> : a \in {x \in [id : Chunk, meta : Meta] : step = "metadata"}}
    \cup {<<a>> : a \in {x \in Entry : step = "embed"}}
    \cup {<<a>> : a \in {x \in Doc : step = "docrow"}}
    \cup {a \in {<< >>} : step \notin First}
Args == {<< >>} \cup UNION {ArgOf(step) : step \in Step}
Later == Step \ First

HandleState ==
    [open : BOOLEAN, index : SUBSET Entry, filter : SUBSET FilterEntry, todo : Seq(Step), arg : Args]

ArgFits(s) == s.todo # << >> => s.arg \in ArgOf(Head(s.todo)) /\ Tail(s.todo) \in Seq(Later)

TableInv ==
    /\ rows \in SUBSET Row
    /\ nextKey \in 1..(MaxKey + 1)
    /\ ApartRows(rows)
    /\ KeysBelow(rows, nextKey)

TypeInv ==
    /\ config \in Configs
    /\ TableInv
    /\ docs \in SUBSET Doc
    /\ wal \in BOOLEAN /\ fresh \in BOOLEAN
    /\ side \in [entries : SUBSET Entry, whole : BOOLEAN]
    /\ handle \in [Handle -> HandleState]
    /\ \A h \in Handle : ArgFits(handle[h])
    /\ foreign \in [Handle -> SUBSET Chunk]

\* Chunks cs change in the table and no others, and no key is given a second time.
Evolves(cs) ==
    /\ TableInv'
    /\ nextKey' >= nextKey
    /\ \A r : r.id \notin cs => (r \in rows' <=> r \in rows)
    /\ \A r \in rows' : \/ \E s \in rows : s.id = r.id /\ s.key = r.key
                        \/ r.key >= nextKey /\ r.id \notin StoredIds(rows)

LEMMA UpsertsEvolve ==
    ASSUME TypeInv, NEW h \in Handle, NEW batch \in Batches \cup Texts, Upserts(h, batch)
    PROVE  /\ Evolves(InputIds(batch))
           /\ docs' \in SUBSET Doc
           /\ StoredIds(rows)' = StoredIds(rows) \cup InputIds(batch)
           /\ \A r \in rows' : r.id \in InputIds(batch) => r.emb = LastInput(batch, r.id).emb
<1> PICK n : n = Cardinality(InputIds(batch) \ StoredIds(rows))
  OBVIOUS
<1> PICK new : new = rows'
  OBVIOUS
<1>1. batch \in Seq(Input)
  BY BatchesAreInputs
<1>2. /\ rows \in SUBSET Row /\ nextKey \in Nat /\ MaxKey \in Nat /\ nextKey >= 1
      /\ ApartRows(rows) /\ KeysBelow(rows, nextKey)
  BY DataAssumption DEF TypeInv, TableInv
<1>3. /\ rows' = Upserted(rows, nextKey, batch)
      /\ nextKey' = nextKey + n
      /\ nextKey + n <= MaxKey + 1
      /\ docs' = docs \cup {i.doc : i \in Inputs(batch)}
  BY DEF Upserts
<1>4. UpsertedTo(rows, nextKey, batch, new, n)
  <2>1. new = Upserted(rows, nextKey, batch)
    BY <1>3
  <2>2. UpsertedTo(rows, nextKey, batch, Upserted(rows, nextKey, batch),
                   Cardinality(InputIds(batch) \ StoredIds(rows)))
    BY <1>1, <1>2, UpsertedRows
  <2> QED
    BY <2>1, <2>2
<1> USE <1>4 DEF UpsertedTo
<1>5. TableInv'
  <2>1. nextKey' \in 1..(MaxKey + 1)
    BY <1>2, <1>3, <1>4
  <2> QED
    BY <1>3, <1>4, <2>1 DEF TableInv, ApartRows, KeysBelow
<1>6. docs' \in SUBSET Doc
  BY <1>1, <1>3, InputsAreInputs DEF TypeInv, Input
<1> QED
  BY <1>2, <1>3, <1>4, <1>5, <1>6 DEF Evolves, StoredIds

\* An update of one chunk's metadata or embedding.
LEMMA UpdateEvolves ==
    ASSUME TableInv, NEW c \in Chunk, NEW f \in [rows -> Row],
           \A r \in rows : f[r].id = r.id /\ f[r].key = r.key /\ (r.id # c => f[r] = r),
           rows' = {f[r] : r \in rows}, UNCHANGED nextKey
    PROVE  Evolves({c})
<1>1. rows' \in SUBSET Row
  OBVIOUS
<1>2. ApartRows(rows)' /\ KeysBelow(rows, nextKey)'
  BY DEF TableInv, ApartRows, KeysBelow
<1>3. \A r : r.id \notin {c} => (r \in rows' <=> r \in rows)
  OBVIOUS
<1>4. \A r \in rows' : \E s \in rows : s.id = r.id /\ s.key = r.key
  OBVIOUS
<1>5. nextKey \in Nat /\ nextKey' >= nextKey
  BY DataAssumption DEF TableInv
<1> QED
  BY <1>1, <1>2, <1>3, <1>4, <1>5 DEF TableInv, Evolves

LEMMA RemovalEvolves ==
    ASSUME TableInv, NEW gone \in SUBSET Row, rows' = rows \ gone, UNCHANGED nextKey
    PROVE  Evolves(StoredIds(gone))
<1>1. TableInv'
  BY DEF TableInv, ApartRows, KeysBelow
<1>2. \A r : r.id \notin StoredIds(gone) => (r \in rows' <=> r \in rows)
  BY DEF StoredIds
<1>3. nextKey \in Nat /\ nextKey' >= nextKey
  BY DataAssumption DEF TableInv
<1> QED
  BY <1>1, <1>2, <1>3 DEF Evolves

-----------------------------------------------------------------------------
(* What is left of a call.                                                 *)

Rebuilds(steps) == \E i \in 1..Len(steps) : steps[i] = "rebuild"

LEMMA LaterSteps ==
    ASSUME NEW s \in Seq(Later)
    PROVE  /\ s \in Seq(Step)
           /\ s # << >> => Head(s) \in Later /\ Tail(s) \in Seq(Later)
           /\ s # << >> /\ Head(s) # "rebuild" => (Rebuilds(Tail(s)) <=> Rebuilds(s))
<1>1. Later \subseteq Step
  BY DEF Later
<1>2. s \in Seq(Step)
  BY <1>1, WiderSeq
<1>3. ASSUME s # << >> PROVE Head(s) \in Later /\ Tail(s) \in Seq(Later)
  BY <1>3
<1>4. ASSUME s # << >>, Head(s) # "rebuild" PROVE Rebuilds(Tail(s)) <=> Rebuilds(s)
  <2>1. /\ Len(s) \in Nat \ {0} /\ Head(s) = s[1]
        /\ Len(Tail(s)) = Len(s) - 1
        /\ \A i \in 1..(Len(s) - 1) : Tail(s)[i] = s[i + 1]
    BY <1>4
  <2>2. ASSUME NEW i \in 1..Len(s), s[i] = "rebuild" PROVE Rebuilds(Tail(s))
    <3>1. i - 1 \in 1..(Len(s) - 1) /\ (i - 1) + 1 = i
      BY <1>4, <2>1, <2>2
    <3>2. Tail(s)[i - 1] = s[i]
      BY <2>1, <3>1
    <3> QED
      BY <2>1, <2>2, <3>1, <3>2 DEF Rebuilds
  <2>3. ASSUME NEW i \in 1..Len(Tail(s)), Tail(s)[i] = "rebuild" PROVE Rebuilds(s)
    <3>1. i + 1 \in 1..Len(s) /\ s[i + 1] = "rebuild"
      BY <2>1, <2>3
    <3> QED
      BY <3>1 DEF Rebuilds
  <2> QED
    BY <2>2, <2>3 DEF Rebuilds
<1> QED
  BY <1>2, <1>3, <1>4

LEMMA Joined ==
    ASSUME NEW s \in Seq(Later), NEW t \in Seq(Later)
    PROVE  /\ s \o t \in Seq(Later)
           /\ Rebuilds(s \o t) <=> Rebuilds(s) \/ Rebuilds(t)
<1>1. s \o t \in Seq(Later)
  OBVIOUS
<1>2. /\ Len(s) \in Nat /\ Len(t) \in Nat
      /\ Len(s \o t) = Len(s) + Len(t)
      /\ \A i \in 1..Len(s) : (s \o t)[i] = s[i]
      /\ \A i \in 1..Len(t) : (s \o t)[Len(s) + i] = t[i]
  OBVIOUS
<1>3. ASSUME Rebuilds(s \o t) PROVE Rebuilds(s) \/ Rebuilds(t)
  <2>1. PICK i \in 1..Len(s \o t) : (s \o t)[i] = "rebuild"
    BY <1>3 DEF Rebuilds
  <2>2. CASE i <= Len(s)
    BY <1>2, <2>1, <2>2 DEF Rebuilds
  <2>3. CASE i > Len(s)
    <3>1. i - Len(s) \in 1..Len(t) /\ Len(s) + (i - Len(s)) = i
      BY <1>2, <2>3
    <3>2. t[i - Len(s)] = "rebuild"
      BY <1>2, <2>1, <3>1
    <3> QED
      BY <3>1, <3>2 DEF Rebuilds
  <2> QED
    BY <1>2, <2>2, <2>3
<1>4. ASSUME Rebuilds(s) \/ Rebuilds(t) PROVE Rebuilds(s \o t)
  <2>1. ASSUME NEW i \in 1..Len(s), s[i] = "rebuild" PROVE Rebuilds(s \o t)
    <3>1. i \in 1..Len(s \o t) /\ (s \o t)[i] = "rebuild"
      BY <1>2, <2>1
    <3> QED
      BY <3>1 DEF Rebuilds
  <2>2. ASSUME NEW i \in 1..Len(t), t[i] = "rebuild" PROVE Rebuilds(s \o t)
    <3>1. Len(s) + i \in 1..Len(s \o t) /\ (s \o t)[Len(s) + i] = "rebuild"
      BY <1>2, <2>2
    <3> QED
      BY <3>1 DEF Rebuilds
  <2> QED
    BY <1>4, <2>1, <2>2 DEF Rebuilds
<1> QED
  BY <1>1, <1>3, <1>4

LEMMA SaveSteps ==
    /\ Save \in Seq(Later)
    /\ ~Rebuilds(Save)
    /\ Refresh \in Seq(Later)
    /\ Rebuilds(Refresh)
<1>1. Save \in Seq(Later) /\ ~Rebuilds(Save)
  <2>1. Save = << >> \/ Save = <<"truncate", "write">>
    BY DEF Save
  <2>2. << >> \in Seq(Later) /\ ~Rebuilds(<< >>)
    BY DEF Rebuilds
  <2>3. <<"truncate", "write">> \in Seq(Later)
    BY DEF Later, Step, First
  <2>4. ~Rebuilds(<<"truncate", "write">>)
    <3> PICK s : s = <<"truncate", "write">>
      OBVIOUS
    <3>1. Len(s) = 2 /\ s[1] = "truncate" /\ s[2] = "write"
      OBVIOUS
    <3>2. \A i \in 1..2 : i = 1 \/ i = 2
      OBVIOUS
    <3> QED
      BY <3>1, <3>2 DEF Rebuilds
  <2> QED
    BY <2>1, <2>2, <2>3, <2>4
<1>2. <<"rebuild", "refilter">> \in Seq(Later)
  BY DEF Later, Step, First
<1>3. 1 \in 1..2 /\ Len(<<"rebuild", "refilter">>) = 2 /\ <<"rebuild", "refilter">>[1] = "rebuild"
  OBVIOUS
<1>4. Rebuilds(<<"rebuild", "refilter">>)
  BY <1>3 DEF Rebuilds
<1>5. Refresh = <<"rebuild", "refilter">> \o Save
  BY DEF Refresh
<1> QED
  BY <1>1, <1>2, <1>4, <1>5, Joined

\* A call that begins with a step that looks at the argument.
LEMMA FirstThen ==
    ASSUME NEW x \in Step, NEW s \in Seq(Later)
    PROVE  /\ <<x>> \o s \in Seq(Step)
           /\ <<x>> \o s # << >>
           /\ Head(<<x>> \o s) = x
           /\ Tail(<<x>> \o s) = s
           /\ x # "rebuild" => (Rebuilds(<<x>> \o s) <=> Rebuilds(s))
<1>1. s \in Seq(Step)
  BY LaterSteps
<1>2. <<x>> \o s \in Seq(Step) /\ <<x>> \o s # << >> /\ Head(<<x>> \o s) = x
  BY <1>1
<1>3. Tail(<<x>> \o s) = s
  BY <1>1
<1>4. /\ Len(s) \in Nat
      /\ Len(<<x>> \o s) = Len(s) + 1
      /\ (<<x>> \o s)[1] = x
      /\ \A i \in 1..Len(s) : (<<x>> \o s)[i + 1] = s[i]
  BY <1>1
<1>5. ASSUME x # "rebuild", Rebuilds(<<x>> \o s) PROVE Rebuilds(s)
  <2>1. PICK i \in 1..(Len(s) + 1) : (<<x>> \o s)[i] = "rebuild"
    BY <1>4, <1>5 DEF Rebuilds
  <2>2. i # 1
    BY <1>4, <1>5, <2>1
  <2>3. i - 1 \in 1..Len(s) /\ (i - 1) + 1 = i
    BY <1>4, <2>2
  <2>4. s[i - 1] = "rebuild"
    BY <1>4, <2>1, <2>3
  <2> QED
    BY <2>3, <2>4 DEF Rebuilds
<1>6. ASSUME Rebuilds(s) PROVE Rebuilds(<<x>> \o s)
  <2>1. PICK i \in 1..Len(s) : s[i] = "rebuild"
    BY <1>6 DEF Rebuilds
  <2>2. i + 1 \in 1..Len(<<x>> \o s) /\ (<<x>> \o s)[i + 1] = "rebuild"
    BY <1>4, <2>1
  <2> QED
    BY <2>2 DEF Rebuilds
<1> QED
  BY <1>2, <1>3, <1>5, <1>6

-----------------------------------------------------------------------------
(* How an action changes the handles.                                      *)

HandleInv ==
    /\ handle \in [Handle -> HandleState]
    /\ \A h \in Handle : ArgFits(handle[h])

\* Handle h is left with these indexes, steps and argument; no other changes.
Becomes(h, open, index, filter, steps, arg) ==
    /\ \A g \in Handle \ {h} : handle'[g] = handle[g]
    /\ handle'[h].open = open
    /\ handle'[h].index = index
    /\ handle'[h].filter = filter
    /\ handle'[h].todo = steps
    /\ handle'[h].arg = arg

LEMMA ArgsOfSteps ==
    /\ \A step \in Step : ArgOf(step) \subseteq Args
    /\ \A step \in Later : ArgOf(step) = {<< >>}
    /\ \A a \in Batches : a \in ArgOf("index")
    /\ \A a \in Texts : a \in ArgOf("filter")
    /\ \A a \in [id : Chunk, meta : Meta] : <<a>> \in ArgOf("metadata")
    /\ \A a \in Entry : <<a>> \in ArgOf("embed")
    /\ \A a \in Doc : <<a>> \in ArgOf("docrow")
    /\ First \subseteq Step
<1>1. /\ \A step \in Step : ArgOf(step) \subseteq Args
      /\ First \subseteq Step
  BY DEF Args, First, Step
<1>2. \A step \in Later : ArgOf(step) = {<< >>}
  BY DEF ArgOf, Later, First
<1>3. /\ \A a \in Batches : a \in ArgOf("index")
      /\ \A a \in Texts : a \in ArgOf("filter")
      /\ \A a \in [id : Chunk, meta : Meta] : <<a>> \in ArgOf("metadata")
      /\ \A a \in Entry : <<a>> \in ArgOf("embed")
      /\ \A a \in Doc : <<a>> \in ArgOf("docrow")
  BY DEF ArgOf
<1> QED
  BY <1>1, <1>2, <1>3

LEMMA ArgOfFirst ==
    /\ ArgOf("index") = Batches
    /\ ArgOf("filter") = Texts
    /\ ArgOf("metadata") = {<<a>> : a \in [id : Chunk, meta : Meta]}
    /\ ArgOf("embed") = {<<a>> : a \in Entry}
    /\ ArgOf("docrow") = {<<a>> : a \in Doc}
BY DEF ArgOf, First

LEMMA HandleSet ==
    ASSUME HandleInv, NEW h \in Handle, NEW s \in HandleState, ArgFits(s),
           handle' = [handle EXCEPT ![h] = s]
    PROVE  HandleInv' /\ Becomes(h, s.open, s.index, s.filter, s.todo, s.arg)
BY DEF HandleInv, Becomes

LEMMA CallStarts ==
    ASSUME HandleInv, NEW h \in Handle, NEW steps \in Seq(Step), NEW arg \in Args,
           steps # << >> => arg \in ArgOf(Head(steps)) /\ Tail(steps) \in Seq(Later),
           Starts(h, steps, arg)
    PROVE  HandleInv' /\ Becomes(h, handle[h].open, handle[h].index, handle[h].filter, steps, arg)
<1> DEFINE s == [handle[h] EXCEPT !.todo = steps, !.arg = arg]
<1>1. handle[h] \in HandleState
  BY DEF HandleInv
<1>2. /\ s \in HandleState
      /\ s.open = handle[h].open /\ s.index = handle[h].index /\ s.filter = handle[h].filter
      /\ s.todo = steps /\ s.arg = arg
  BY <1>1 DEF HandleState
<1>3. handle' = [handle EXCEPT ![h] = s]
  BY <1>1 DEF Starts, HandleInv, HandleState
<1>4. ArgFits(s)
  BY <1>2 DEF ArgFits
<1> QED
  BY <1>2, <1>3, <1>4, HandleSet

LEMMA Remaining ==
    ASSUME HandleInv, NEW h \in Handle, handle[h].todo # << >>
    PROVE  /\ handle[h] \in HandleState
           /\ Head(handle[h].todo) \in Step
           /\ handle[h].arg \in ArgOf(Head(handle[h].todo))
           /\ Tail(handle[h].todo) \in Seq(Later)
           /\ Tail(handle[h].todo) # << >> => << >> \in ArgOf(Head(Tail(handle[h].todo)))
                                              /\ Tail(Tail(handle[h].todo)) \in Seq(Later)
<1>1. /\ handle[h] \in HandleState
      /\ handle[h].arg \in ArgOf(Head(handle[h].todo))
      /\ Tail(handle[h].todo) \in Seq(Later)
  BY DEF HandleInv, ArgFits
<1>2. handle[h].todo \in Seq(Step)
  BY <1>1 DEF HandleState
<1>3. Head(handle[h].todo) \in Step
  BY <1>2
<1>4. Tail(handle[h].todo) # << >> => Head(Tail(handle[h].todo)) \in Later /\ Tail(Tail(handle[h].todo)) \in Seq(Later)
  BY <1>1, LaterSteps
<1> QED
  BY <1>1, <1>3, <1>4, ArgsOfSteps

LEMMA StepUpdates ==
    ASSUME HandleInv, NEW h \in Handle, handle[h].todo # << >>,
           NEW index \in SUBSET Entry, NEW filter \in SUBSET FilterEntry,
           handle' = [handle EXCEPT ![h] =
              [@ EXCEPT !.todo = Tail(handle[h].todo), !.arg = << >>, !.index = index, !.filter = filter]]
    PROVE  HandleInv' /\ Becomes(h, handle[h].open, index, filter, Tail(handle[h].todo), << >>)
<1> DEFINE s == [handle[h] EXCEPT !.todo = Tail(@), !.arg = << >>, !.index = index, !.filter = filter]
<1>1. handle[h] \in HandleState /\ Tail(handle[h].todo) \in Seq(Step) /\ << >> \in Args
  BY Remaining, LaterSteps DEF Args
<1>2. /\ s \in HandleState
      /\ s.open = handle[h].open /\ s.index = index /\ s.filter = filter
      /\ s.todo = Tail(handle[h].todo) /\ s.arg = << >>
  BY <1>1 DEF HandleState
<1>3. handle' = [handle EXCEPT ![h] = s]
  OBVIOUS
<1>4. ArgFits(s)
  BY <1>2, Remaining DEF ArgFits
<1> QED
  BY <1>2, <1>3, <1>4, HandleSet

LEMMA StepContinues ==
    ASSUME HandleInv, NEW h \in Handle, handle[h].todo # << >>, Continues(h)
    PROVE  HandleInv' /\ Becomes(h, handle[h].open, handle[h].index, handle[h].filter,
                                 Tail(handle[h].todo), << >>)
<1> DEFINE s == [handle[h] EXCEPT !.todo = Tail(@), !.arg = << >>]
<1>1. handle[h] \in HandleState /\ Tail(handle[h].todo) \in Seq(Step) /\ << >> \in Args
  BY Remaining, LaterSteps DEF Args
<1>2. /\ s \in HandleState
      /\ s.open = handle[h].open /\ s.index = handle[h].index /\ s.filter = handle[h].filter
      /\ s.todo = Tail(handle[h].todo) /\ s.arg = << >>
  BY <1>1 DEF HandleState
<1>3. handle' = [handle EXCEPT ![h] = s]
  BY <1>1 DEF Continues, HandleInv, HandleState
<1>4. ArgFits(s)
  BY <1>2, Remaining DEF ArgFits
<1> QED
  BY <1>2, <1>3, <1>4, HandleSet

-----------------------------------------------------------------------------
(* What each action does to the table, to the handle that takes it and to  *)
(* what the others have been told.                                         *)

Noted(h, cs) ==
    /\ foreign'[h] = foreign[h]
    /\ \A g \in Handle \ {h} : handle[g].open => foreign'[g] = foreign[g] \cup cs

Effect(h, cs, index, filter, steps, arg) ==
    /\ TypeInv'
    /\ Evolves(cs)
    /\ Noted(h, cs)
    /\ Becomes(h, handle[h].open, index, filter, steps, arg)

LEMMA TypeParts == TypeInv => HandleInv /\ TableInv
BY DEF TypeInv, HandleInv

LEMMA CommitNoted ==
    ASSUME TypeInv, NEW h \in Handle, NEW cs \in SUBSET Chunk, Commits(h, cs)
    PROVE  /\ Noted(h, cs)
           /\ foreign' \in [Handle -> SUBSET Chunk]
           /\ wal' \in BOOLEAN /\ fresh' \in BOOLEAN
BY DEF TypeInv, Commits, Noted

LEMMA NothingNoted ==
    ASSUME TypeInv, NEW h \in Handle, UNCHANGED foreign
    PROVE  Noted(h, {}) /\ foreign' \in [Handle -> SUBSET Chunk]
BY DEF TypeInv, Noted

LEMMA NothingEvolves ==
    ASSUME TypeInv, UNCHANGED <<rows, nextKey>>
    PROVE  Evolves({})
<1>1. TableInv'
  BY DEF TypeInv, TableInv, ApartRows, KeysBelow
<1>2. nextKey \in Nat
  BY DataAssumption DEF TypeInv, TableInv
<1> QED
  BY <1>1, <1>2 DEF Evolves

LEMMA TypesAgain ==
    ASSUME TypeInv, config' \in Configs, HandleInv', TableInv', docs' \in SUBSET Doc,
           wal' \in BOOLEAN, fresh' \in BOOLEAN, side' \in [entries : SUBSET Entry, whole : BOOLEAN],
           foreign' \in [Handle -> SUBSET Chunk]
    PROVE  TypeInv'
BY DEF TypeInv, HandleInv

LEMMA IngestEffect ==
    ASSUME TypeInv, NEW h \in Handle, NEW batch \in Batches, Ingest(h, batch)
    PROVE  /\ Effect(h, InputIds(batch), handle[h].index, handle[h].filter, <<"index">> \o Save, batch)
           /\ StoredIds(rows)' = StoredIds(rows) \cup InputIds(batch)
           /\ \A r \in rows' : r.id \in InputIds(batch) => r.emb = LastInput(batch, r.id).emb
<1>1. /\ Upserts(h, batch) /\ Starts(h, <<"index">> \o Save, batch)
      /\ UNCHANGED <<config, side>> /\ Commits(h, InputIds(batch))
  BY DEF Ingest, Upserts
<1>2. /\ Evolves(InputIds(batch))
      /\ docs' \in SUBSET Doc
      /\ StoredIds(rows)' = StoredIds(rows) \cup InputIds(batch)
      /\ \A r \in rows' : r.id \in InputIds(batch) => r.emb = LastInput(batch, r.id).emb
  BY <1>1, UpsertsEvolve
<1>3. "index" \in Step /\ Save \in Seq(Later)
  BY SaveSteps DEF Step
<1>4. HandleInv' /\ Becomes(h, handle[h].open, handle[h].index, handle[h].filter, <<"index">> \o Save, batch)
  <2>1. /\ <<"index">> \o Save \in Seq(Step)
        /\ Head(<<"index">> \o Save) = "index"
        /\ Tail(<<"index">> \o Save) \in Seq(Later)
    BY <1>3, FirstThen
  <2>2. batch \in ArgOf("index") /\ batch \in Args
    BY <1>3, ArgsOfSteps
  <2> QED
    BY <1>1, <2>1, <2>2, TypeParts, CallStarts
<1>5. /\ Noted(h, InputIds(batch)) /\ foreign' \in [Handle -> SUBSET Chunk]
      /\ wal' \in BOOLEAN /\ fresh' \in BOOLEAN
  <2>1. InputIds(batch) \in SUBSET Chunk
    BY BatchesAreInputs, InputsAreInputs
  <2> QED
    BY <1>1, <2>1, CommitNoted
<1>6. TypeInv'
  <2>1. TableInv'
    BY <1>2 DEF Evolves
  <2> QED
    BY <1>1, <1>2, <1>4, <1>5, <2>1, TypesAgain DEF TypeInv
<1> QED
  BY <1>2, <1>4, <1>5, <1>6 DEF Effect

LEMMA IngestTextEffect ==
    ASSUME TypeInv, NEW h \in Handle, NEW batch \in Texts, IngestText(h, batch)
    PROVE  /\ Effect(h, InputIds(batch), handle[h].index, handle[h].filter, <<"filter">>, batch)
           /\ StoredIds(rows)' = StoredIds(rows) \cup InputIds(batch)
           /\ \A r \in rows' : r.id \in InputIds(batch) => r.emb = NoEmb
<1>1. /\ Upserts(h, batch) /\ Starts(h, <<"filter">>, batch)
      /\ UNCHANGED <<config, side>> /\ Commits(h, InputIds(batch))
  BY DEF IngestText, Upserts
<1>2. /\ Evolves(InputIds(batch))
      /\ docs' \in SUBSET Doc
      /\ StoredIds(rows)' = StoredIds(rows) \cup InputIds(batch)
      /\ \A r \in rows' : r.id \in InputIds(batch) => r.emb = LastInput(batch, r.id).emb
  BY <1>1, UpsertsEvolve
<1>3. \A r \in rows' : r.id \in InputIds(batch) => r.emb = NoEmb
  <2>1. batch \in Seq(Input)
    BY BatchesAreInputs
  <2>2. \A c \in InputIds(batch) : LastInput(batch, c) \in Inputs(batch)
    BY <2>1, LastOne
  <2> QED
    BY <1>2, <2>2, BatchEmbeddings
<1>4. HandleInv' /\ Becomes(h, handle[h].open, handle[h].index, handle[h].filter, <<"filter">>, batch)
  <2>1. /\ <<"filter">> \in Seq(Step) /\ Head(<<"filter">>) = "filter"
        /\ Tail(<<"filter">>) \in Seq(Later)
    BY DEF Step
  <2>2. batch \in ArgOf("filter") /\ batch \in Args
    BY ArgsOfSteps DEF Step
  <2> QED
    BY <1>1, <2>1, <2>2, TypeParts, CallStarts
<1>5. /\ Noted(h, InputIds(batch)) /\ foreign' \in [Handle -> SUBSET Chunk]
      /\ wal' \in BOOLEAN /\ fresh' \in BOOLEAN
  <2>1. InputIds(batch) \in SUBSET Chunk
    BY BatchesAreInputs, InputsAreInputs
  <2> QED
    BY <1>1, <2>1, CommitNoted
<1>6. TypeInv'
  <2>1. TableInv'
    BY <1>2 DEF Evolves
  <2> QED
    BY <1>1, <1>2, <1>4, <1>5, <2>1, TypesAgain DEF TypeInv
<1> QED
  BY <1>2, <1>3, <1>4, <1>5, <1>6 DEF Effect

LEMMA UpdateMetadataEffect ==
    ASSUME TypeInv, NEW h \in Handle, NEW c \in Chunk, NEW m \in Meta, UpdateMetadata(h, c, m)
    PROVE  /\ Effect(h, {c}, handle[h].index, handle[h].filter, <<"metadata">>, <<[id |-> c, meta |-> m]>>)
           /\ \A r \in rows' : \E s \in rows : s.id = r.id /\ s.key = r.key /\ s.emb = r.emb
           /\ \A s \in rows : \E r \in rows' : s.id = r.id
<1> DEFINE f == [r \in rows |-> IF r.id = c THEN [r EXCEPT !.meta = m] ELSE r]
           arg == <<[id |-> c, meta |-> m]>>
<1>1. /\ Starts(h, <<"metadata">>, arg) /\ UNCHANGED <<config, docs, nextKey, side>>
      /\ Commits(h, {c}) /\ rows' = {f[r] : r \in rows}
  BY DEF UpdateMetadata
<1>2. /\ f \in [rows -> Row]
      /\ \A r \in rows : /\ f[r].id = r.id /\ f[r].key = r.key /\ f[r].emb = r.emb
                         /\ r.id # c => f[r] = r
  BY DEF TypeInv, TableInv, Row
<1> HIDE DEF f
<1>3. Evolves({c})
  BY <1>1, <1>2, UpdateEvolves DEF TypeInv
<1>4. HandleInv' /\ Becomes(h, handle[h].open, handle[h].index, handle[h].filter, <<"metadata">>, arg)
  <2>1. /\ <<"metadata">> \in Seq(Step) /\ Head(<<"metadata">>) = "metadata"
        /\ Tail(<<"metadata">>) \in Seq(Later)
    BY DEF Step
  <2>2. arg \in ArgOf("metadata") /\ arg \in Args
    BY ArgsOfSteps DEF Step
  <2> QED
    BY <1>1, <2>1, <2>2, TypeParts, CallStarts
<1>5. /\ Noted(h, {c}) /\ foreign' \in [Handle -> SUBSET Chunk]
      /\ wal' \in BOOLEAN /\ fresh' \in BOOLEAN
  BY <1>1, CommitNoted
<1>6. TypeInv'
  <2>1. TableInv'
    BY <1>3 DEF Evolves
  <2> QED
    BY <1>1, <1>4, <1>5, <2>1, TypesAgain DEF TypeInv
<1>7. /\ \A r \in rows' : \E s \in rows : s.id = r.id /\ s.key = r.key /\ s.emb = r.emb
      /\ \A s \in rows : \E r \in rows' : s.id = r.id
  BY <1>1, <1>2
<1> QED
  BY <1>3, <1>4, <1>5, <1>6, <1>7 DEF Effect

LEMMA UpdateEmbeddingEffect ==
    ASSUME TypeInv, NEW h \in Handle, NEW c \in Chunk, NEW e \in Embeddings, UpdateEmbedding(h, c, e)
    PROVE  /\ UNCHANGED rows
           /\ \E r \in rows : /\ r.id = c
                              /\ Effect(h, {}, handle[h].index, handle[h].filter, <<"embed">>,
                                        <<[key |-> r.key, id |-> c, emb |-> e]>>)
<1>1. c \in StoredIds(rows) /\ rows \in SUBSET Row
  BY DEF UpdateEmbedding, TypeInv, TableInv
<1>2. PICK r \in rows : r = RowOf(rows, c) /\ r.id = c
  BY <1>1, RowOfStored
<1> DEFINE arg == <<[key |-> r.key, id |-> c, emb |-> e]>>
<1>3. /\ Starts(h, <<"embed">>, arg)
      /\ UNCHANGED <<config, rows, docs, nextKey, wal, side, fresh, foreign>>
  BY <1>2 DEF UpdateEmbedding
<1>4. [key |-> r.key, id |-> c, emb |-> e] \in Entry
  BY <1>1, <1>2, DataAssumption DEF Row, Entry
<1>5. HandleInv' /\ Becomes(h, handle[h].open, handle[h].index, handle[h].filter, <<"embed">>, arg)
  <2>1. /\ <<"embed">> \in Seq(Step) /\ Head(<<"embed">>) = "embed" /\ Tail(<<"embed">>) \in Seq(Later)
    BY DEF Step
  <2>2. arg \in ArgOf("embed") /\ arg \in Args
    BY <1>4, ArgsOfSteps DEF Step
  <2> QED
    BY <1>3, <2>1, <2>2, TypeParts, CallStarts
<1>6. Evolves({}) /\ Noted(h, {}) /\ foreign' \in [Handle -> SUBSET Chunk]
  BY <1>3, NothingEvolves, NothingNoted
<1>7. TypeInv'
  <2>1. TableInv'
    BY <1>6 DEF Evolves
  <2> QED
    BY <1>3, <1>5, <1>6, <2>1, TypesAgain DEF TypeInv
<1> QED
  BY <1>2, <1>3, <1>5, <1>6, <1>7 DEF Effect

LEMMA JoinedAgain ==
    ASSUME NEW a \in Seq(Step), NEW b \in Seq(Step), NEW c \in Seq(Step)
    PROVE  a \o b \o c = a \o (b \o c)
OBVIOUS

\* A deletion has begun: h has the steps before, what refreshes, and after to take.
Deleting(h, gone, before, middle, after, arg) ==
    \E steps : /\ Effect(h, StoredIds(gone), handle[h].index, handle[h].filter, steps, arg)
               /\ gone # {} => Rebuilds(steps)
               /\ steps = before \o (middle \o after)
               /\ steps # << >> => Head(steps) \notin {"index", "filter", "metadata", "embed"}

\* The steps of a deletion: nothing to rebuild if nothing was removed.
LEMMA DeletesEffect ==
    ASSUME TypeInv, NEW h \in Handle, NEW gone \in SUBSET rows, NEW before \in Seq(Step), NEW after \in Seq(Later),
           NEW arg \in Args, Deletes(h, gone, before, after, arg),
           NEW middle, middle = IF gone = {} THEN << >> ELSE Refresh,
           \/ before = << >> /\ arg = << >>
           \/ before = <<"docrow">> /\ arg \in ArgOf("docrow")
           \/ before = <<"prune">> /\ arg = << >>
    PROVE  Deleting(h, gone, before, middle, after, arg)
<1> DEFINE steps == before \o middle \o after
<1>1. /\ Starts(h, steps, arg) /\ UNCHANGED <<config, docs, nextKey, side>>
      /\ rows' = rows \ gone
      /\ IF gone = {} THEN UNCHANGED <<wal, fresh, foreign>> ELSE Commits(h, StoredIds(gone))
  BY DEF Deletes
<1>2. middle \in Seq(Later) /\ (gone # {} => Rebuilds(middle))
  BY SaveSteps
<1>3. middle \o after \in Seq(Later) /\ (gone # {} => Rebuilds(middle \o after))
  BY <1>2, Joined
<1>4. steps = before \o (middle \o after)
  <2>1. middle \in Seq(Step) /\ after \in Seq(Step)
    BY <1>2, LaterSteps
  <2> QED
    BY <2>1, JoinedAgain, Zenon
<1>5. /\ steps \in Seq(Step)
      /\ gone # {} => Rebuilds(steps)
      /\ steps # << >> => /\ arg \in ArgOf(Head(steps)) /\ Tail(steps) \in Seq(Later)
                          /\ Head(steps) \notin {"index", "filter", "metadata", "embed"}
  <2> PICK rest : rest = middle \o after
    OBVIOUS
  <2>1. steps = before \o rest /\ rest \in Seq(Later) /\ (gone # {} => Rebuilds(rest))
    BY <1>3, <1>4
  <2> HIDE DEF steps
  <2>2. CASE before = << >> /\ arg = << >>
    <3>1. steps = rest
      BY <2>1, <2>2
    <3>2. rest # << >> => Head(rest) \in Later /\ ArgOf(Head(rest)) = {<< >>}
      BY <2>1, LaterSteps, ArgsOfSteps
    <3> QED
      BY <2>1, <2>2, <3>1, <3>2, LaterSteps DEF Later, First
  <2>3. ASSUME NEW x \in {"docrow", "prune"}, before = <<x>>, arg \in ArgOf(x)
        PROVE  /\ steps \in Seq(Step)
               /\ gone # {} => Rebuilds(steps)
               /\ steps # << >> => /\ arg \in ArgOf(Head(steps)) /\ Tail(steps) \in Seq(Later)
                                   /\ Head(steps) \notin {"index", "filter", "metadata", "embed"}
    <3>1. x \in Step
      BY DEF Step
    <3> QED
      BY <2>1, <2>3, <3>1, FirstThen
  <2>4. "prune" \in Later
    BY DEF Later, Step, First
  <2> QED
    BY <2>2, <2>3, <2>4, ArgsOfSteps
<1> HIDE DEF steps
<1>6. HandleInv' /\ Becomes(h, handle[h].open, handle[h].index, handle[h].filter, steps, arg)
  BY <1>1, <1>5, TypeParts, CallStarts
<1>7. gone \in SUBSET Row /\ Evolves(StoredIds(gone))
  <2>1. gone \in SUBSET Row /\ TableInv
    BY DEF TypeInv, TableInv
  <2> QED
    BY <1>1, <2>1, RemovalEvolves
<1>8. /\ Noted(h, StoredIds(gone)) /\ foreign' \in [Handle -> SUBSET Chunk]
      /\ wal' \in BOOLEAN /\ fresh' \in BOOLEAN
  <2>1. CASE gone = {}
    <3>1. StoredIds(gone) = {}
      BY <2>1 DEF StoredIds
    <3>2. Noted(h, {}) /\ foreign' \in [Handle -> SUBSET Chunk]
      BY <1>1, <2>1, NothingNoted
    <3> QED
      BY <1>1, <2>1, <3>1, <3>2 DEF TypeInv
  <2>2. CASE gone # {}
    <3>1. StoredIds(gone) \in SUBSET Chunk
      BY <1>7 DEF StoredIds, Row
    <3> QED
      BY <1>1, <2>2, <3>1, CommitNoted
  <2> QED
    BY <2>1, <2>2
<1>9. TypeInv'
  <2>1. TableInv'
    BY <1>7 DEF Evolves
  <2> QED
    BY <1>1, <1>6, <1>8, <2>1, TypesAgain DEF TypeInv
<1>10. steps = before \o (middle \o after)
  BY <1>4
<1> QED
  BY <1>5, <1>6, <1>7, <1>8, <1>9, <1>10 DEF Effect, Deleting

\* What is left of a deletion that has removed rows.
Refreshing ==
    {Refresh, Refresh \o <<"vacuum">>, <<"docrow">> \o Refresh, <<"prune">> \o (Refresh \o <<"vacuum">>)}

LEMMA OneStep ==
    ASSUME NEW x \in Step, x # "rebuild"
    PROVE  ~Rebuilds(<<x>>)
<1> PICK s : s = <<x>>
  OBVIOUS
<1>1. Len(s) = 1 /\ s[1] = x /\ \A i \in 1..1 : i = 1
  OBVIOUS
<1> QED
  BY <1>1 DEF Rebuilds

LEMMA DeletionSteps ==
    ASSUME NEW gone, NEW middle, middle = IF gone = {} THEN << >> ELSE Refresh
    PROVE  /\ Rebuilds(<<"docrow">> \o (middle \o << >>)) => <<"docrow">> \o (middle \o << >>) \in Refreshing
           /\ Rebuilds(<< >> \o (middle \o << >>)) => << >> \o (middle \o << >>) \in Refreshing
           /\ Rebuilds(<<"prune">> \o (middle \o <<"vacuum">>)) =>
                 <<"prune">> \o (middle \o <<"vacuum">>) \in Refreshing
<1>1. Refresh \in Seq(Later) /\ Refresh \in Seq(Step)
  BY SaveSteps, LaterSteps
<1>2. middle \in Seq(Step) /\ middle \o << >> = middle /\ << >> \o (middle \o << >>) = middle
  BY <1>1
<1>3. CASE gone # {}
  BY <1>2, <1>3 DEF Refreshing
<1>4. CASE gone = {}
  <2>1. middle = << >>
    BY <1>4
  <2>2. <<"docrow">> \o << >> = <<"docrow">> /\ << >> \o <<"vacuum">> = <<"vacuum">>
    OBVIOUS
  <2>3. ~Rebuilds(<<"docrow">>) /\ ~Rebuilds(<< >>) /\ ~Rebuilds(<<"vacuum">>)
    BY OneStep DEF Rebuilds, Step
  <2>4. ~Rebuilds(<<"prune">> \o <<"vacuum">>)
    <3>1. "prune" \in Step /\ <<"vacuum">> \in Seq(Later)
      BY DEF Step, Later, First
    <3> QED
      BY <2>3, <3>1, FirstThen
  <2> QED
    BY <1>2, <2>1, <2>2, <2>3, <2>4
<1> QED
  BY <1>3, <1>4

LEMMA DeletionsEffect ==
    ASSUME TypeInv, NEW h \in Handle,
           \/ \E d \in Doc : DeleteByDocId(h, d)
           \/ \E m \in Meta : DeleteByMetadata(h, m)
           \/ Compact(h)
    PROVE  \E gone, steps, arg :
              /\ Effect(h, StoredIds(gone), handle[h].index, handle[h].filter, steps, arg)
              /\ rows' = rows \ gone
              /\ gone # {} => Rebuilds(steps)
              /\ Rebuilds(steps) => steps \in Refreshing
              /\ steps # << >> => Head(steps) \notin {"index", "filter", "metadata", "embed"}
<1>1. ASSUME NEW d \in Doc, DeleteByDocId(h, d)
      PROVE  \E gone, steps, arg :
                /\ Effect(h, StoredIds(gone), handle[h].index, handle[h].filter, steps, arg)
                /\ rows' = rows \ gone
                /\ gone # {} => Rebuilds(steps)
                /\ Rebuilds(steps) => steps \in Refreshing
                /\ steps # << >> => Head(steps) \notin {"index", "filter", "metadata", "embed"}
  <2> PICK gone : gone = {r \in rows : r.doc = d}
    OBVIOUS
  <2>1. /\ gone \in SUBSET rows /\ <<"docrow">> \in Seq(Step) /\ << >> \in Seq(Later)
        /\ <<d>> \in ArgOf("docrow") /\ <<d>> \in Args
    BY ArgsOfSteps DEF Step
  <2>2. Deletes(h, gone, <<"docrow">>, << >>, <<d>>)
    BY <1>1 DEF DeleteByDocId
  <2> PICK middle : middle = IF gone = {} THEN << >> ELSE Refresh
    OBVIOUS
  <2>3. PICK steps : /\ Effect(h, StoredIds(gone), handle[h].index, handle[h].filter, steps, <<d>>)
                     /\ gone # {} => Rebuilds(steps)
                     /\ steps = <<"docrow">> \o (middle \o << >>)
                     /\ steps # << >> => Head(steps) \notin {"index", "filter", "metadata", "embed"}
    <3>1. Deleting(h, gone, <<"docrow">>, middle, << >>, <<d>>)
      BY <2>1, <2>2, DeletesEffect
    <3> QED
      BY <3>1, Zenon DEF Deleting
  <2>4. Rebuilds(steps) => steps \in Refreshing
    BY <2>3, DeletionSteps
  <2>5. rows' = rows \ gone
    BY <2>2 DEF Deletes
  <2> QED
    BY <2>3, <2>4, <2>5
<1>2. ASSUME NEW m \in Meta, DeleteByMetadata(h, m)
      PROVE  \E gone, steps, arg :
                /\ Effect(h, StoredIds(gone), handle[h].index, handle[h].filter, steps, arg)
                /\ rows' = rows \ gone
                /\ gone # {} => Rebuilds(steps)
                /\ Rebuilds(steps) => steps \in Refreshing
                /\ steps # << >> => Head(steps) \notin {"index", "filter", "metadata", "embed"}
  <2> PICK gone : gone = {r \in rows : r.meta = m}
    OBVIOUS
  <2>1. gone \in SUBSET rows /\ << >> \in Seq(Step) /\ << >> \in Seq(Later) /\ << >> \in Args
    BY DEF Args
  <2>2. Deletes(h, gone, << >>, << >>, << >>)
    BY <1>2 DEF DeleteByMetadata
  <2> PICK middle : middle = IF gone = {} THEN << >> ELSE Refresh
    OBVIOUS
  <2>3. PICK steps : /\ Effect(h, StoredIds(gone), handle[h].index, handle[h].filter, steps, << >>)
                     /\ gone # {} => Rebuilds(steps)
                     /\ steps = << >> \o (middle \o << >>)
                     /\ steps # << >> => Head(steps) \notin {"index", "filter", "metadata", "embed"}
    <3>1. Deleting(h, gone, << >>, middle, << >>, << >>)
      BY <2>1, <2>2, DeletesEffect
    <3> QED
      BY <3>1, Zenon DEF Deleting
  <2>4. Rebuilds(steps) => steps \in Refreshing
    BY <2>3, DeletionSteps
  <2>5. rows' = rows \ gone
    BY <2>2 DEF Deletes
  <2> QED
    BY <2>3, <2>4, <2>5
<1>3. ASSUME Compact(h)
      PROVE  \E gone, steps, arg :
                /\ Effect(h, StoredIds(gone), handle[h].index, handle[h].filter, steps, arg)
                /\ rows' = rows \ gone
                /\ gone # {} => Rebuilds(steps)
                /\ Rebuilds(steps) => steps \in Refreshing
                /\ steps # << >> => Head(steps) \notin {"index", "filter", "metadata", "embed"}
  <2> PICK gone : gone = Duplicates(rows)
    OBVIOUS
  <2>1. gone \in SUBSET rows /\ <<"prune">> \in Seq(Step) /\ <<"vacuum">> \in Seq(Later) /\ << >> \in Args
    BY DEF Duplicates, Step, Later, First, Args
  <2>2. Deletes(h, gone, <<"prune">>, <<"vacuum">>, << >>)
    BY <1>3 DEF Compact
  <2> PICK middle : middle = IF gone = {} THEN << >> ELSE Refresh
    OBVIOUS
  <2>3. PICK steps : /\ Effect(h, StoredIds(gone), handle[h].index, handle[h].filter, steps, << >>)
                     /\ gone # {} => Rebuilds(steps)
                     /\ steps = <<"prune">> \o (middle \o <<"vacuum">>)
                     /\ steps # << >> => Head(steps) \notin {"index", "filter", "metadata", "embed"}
    <3>1. Deleting(h, gone, <<"prune">>, middle, <<"vacuum">>, << >>)
      BY <2>1, <2>2, DeletesEffect
    <3> QED
      BY <3>1, Zenon DEF Deleting
  <2>4. Rebuilds(steps) => steps \in Refreshing
    BY <2>3, DeletionSteps
  <2>5. rows' = rows \ gone
    BY <2>2 DEF Deletes
  <2> QED
    BY <2>3, <2>4, <2>5
<1> QED
  BY <1>1, <1>2, <1>3

\* A step that leaves the table alone and hands the indexes on.
LEMMA UpdatesEffect ==
    ASSUME TypeInv, NEW h \in Handle, handle[h].todo # << >>,
           NEW index \in SUBSET Entry, NEW filter \in SUBSET FilterEntry,
           Updates(h, index, filter)
    PROVE  /\ HandleInv' /\ Becomes(h, handle[h].open, index, filter, Tail(handle[h].todo), << >>)
           /\ Evolves({})
           /\ foreign' \in [Handle -> SUBSET Chunk] => TypeInv'
           /\ UNCHANGED foreign => Effect(h, {}, index, filter, Tail(handle[h].todo), << >>)
<1>1. HandleInv' /\ Becomes(h, handle[h].open, index, filter, Tail(handle[h].todo), << >>)
  BY TypeParts, StepUpdates DEF Updates
<1>2. Evolves({})
  BY NothingEvolves DEF Updates
<1>3. ASSUME foreign' \in [Handle -> SUBSET Chunk] PROVE TypeInv'
  <2>1. TableInv'
    BY <1>2 DEF Evolves
  <2> QED
    BY <1>1, <1>3, <2>1, TypesAgain DEF Updates, TypeInv
<1> QED
  BY <1>1, <1>2, <1>3, NothingNoted DEF Effect

\* Writing the sidecar, or compacting the file.
LEMMA ContinuesEffect ==
    ASSUME TypeInv, NEW h \in Handle, handle[h].todo # << >>, Continues(h),
           UNCHANGED <<config, rows, docs, nextKey, foreign>>,
           wal' \in BOOLEAN, fresh' \in BOOLEAN, side' \in [entries : SUBSET Entry, whole : BOOLEAN]
    PROVE  Effect(h, {}, handle[h].index, handle[h].filter, Tail(handle[h].todo), << >>)
<1>1. HandleInv' /\ Becomes(h, handle[h].open, handle[h].index, handle[h].filter, Tail(handle[h].todo), << >>)
  BY TypeParts, StepContinues
<1>2. Evolves({}) /\ Noted(h, {}) /\ foreign' \in [Handle -> SUBSET Chunk]
  BY NothingEvolves, NothingNoted
<1>3. TypeInv'
  <2>1. TableInv'
    BY <1>2 DEF Evolves
  <2> QED
    BY <1>1, <1>2, <2>1, TypesAgain DEF TypeInv
<1> QED
  BY <1>1, <1>2, <1>3 DEF Effect

\* The removal of document rows that no chunk refers to.
LEMMA OrphansHaveNoRows ==
    ASSUME NEW h, NEW gone, DropDocs(h, gone), \A d \in gone : \A r \in rows : r.doc # d
    PROVE  rows' = rows
BY DEF DropDocs

LEMMA DropDocsEffect ==
    ASSUME TypeInv, NEW h \in Handle, DeleteDocumentRow(h) \/ PruneDocuments(h)
    PROVE  /\ rows' = rows
           /\ Effect(h, {}, handle[h].index, handle[h].filter, Tail(handle[h].todo), << >>)
<1>1. PICK gone : DropDocs(h, gone) /\ \A d \in gone : \A r \in rows : r.doc # d
  BY DEF DeleteDocumentRow, PruneDocuments, Orphans
<1>2. rows' = rows
  BY <1>1, OrphansHaveNoRows
<1>3. /\ docs' \in SUBSET Doc /\ Continues(h) /\ UNCHANGED <<config, nextKey, side>>
      /\ IF gone = {} THEN UNCHANGED <<wal, fresh, foreign>> ELSE Commits(h, {})
  BY <1>1 DEF DropDocs, TypeInv
<1>4. handle[h].todo # << >>
  BY DEF DeleteDocumentRow, PruneDocuments, Doing
<1>5. HandleInv' /\ Becomes(h, handle[h].open, handle[h].index, handle[h].filter, Tail(handle[h].todo), << >>)
  BY <1>3, <1>4, TypeParts, StepContinues
<1>6. Evolves({})
  BY <1>2, <1>3, NothingEvolves
<1>7. Noted(h, {}) /\ foreign' \in [Handle -> SUBSET Chunk] /\ wal' \in BOOLEAN /\ fresh' \in BOOLEAN
  BY <1>3, CommitNoted, NothingNoted DEF TypeInv
<1>8. TypeInv'
  <2>1. TableInv'
    BY <1>6 DEF Evolves
  <2> QED
    BY <1>3, <1>5, <1>7, <2>1, TypesAgain DEF TypeInv
<1> QED
  BY <1>2, <1>5, <1>6, <1>7, <1>8 DEF Effect

\* The steps of a call that leave the handle's vector index and the table alone.
LEMMA SideStepEffect ==
    ASSUME TypeInv, NEW h \in Handle,
           \/ FilterText(h) \/ FilterMetadata(h) \/ RebuildFilterIndex(h)
           \/ TruncateSidecar(h) \/ WriteSidecar(h) \/ Vacuum(h)
    PROVE  /\ UNCHANGED rows
           /\ handle[h].open /\ handle[h].todo # << >>
           /\ Head(handle[h].todo) \in {"filter", "metadata", "refilter", "truncate", "write", "vacuum"}
           /\ \E filter : Effect(h, {}, handle[h].index, filter, Tail(handle[h].todo), << >>)
<1> DEFINE Goal == \E filter : Effect(h, {}, handle[h].index, filter, Tail(handle[h].todo), << >>)
<1>1. /\ handle[h].open /\ handle[h].todo # << >> /\ UNCHANGED rows
      /\ Head(handle[h].todo) \in {"filter", "metadata", "refilter", "truncate", "write", "vacuum"}
  BY DEF FilterText, FilterMetadata, RebuildFilterIndex, TruncateSidecar, WriteSidecar, Vacuum,
         Doing, Updates
<1>2. /\ handle[h].arg \in ArgOf(Head(handle[h].todo))
      /\ handle[h].index \in SUBSET Entry /\ handle[h].filter \in SUBSET FilterEntry
  BY <1>1, Remaining, TypeParts DEF HandleState
<1>3. rows \in SUBSET Row
  BY DEF TypeInv, TableInv
<1>4. \A new \in SUBSET FilterEntry : PutFilter(handle[h].filter, new) \in SUBSET FilterEntry
  BY <1>2 DEF PutFilter
<1>5. ASSUME NEW filter \in SUBSET FilterEntry, Updates(h, handle[h].index, filter), UNCHANGED foreign
      PROVE  Goal
  BY <1>1, <1>2, <1>5, UpdatesEffect
<1>6. ASSUME FilterText(h) PROVE Goal
  <2>1. handle[h].arg \in Texts
    BY <1>2, <1>6, ArgOfFirst DEF FilterText, Doing
  <2>2. PutFilter(handle[h].filter, NewFilters(handle[h].arg)) \in SUBSET FilterEntry
    BY <1>3, <1>4, <2>1, NewTyped
  <2> QED
    BY <1>5, <1>6, <2>2 DEF FilterText
<1>7. ASSUME FilterMetadata(h) PROVE Goal
  <2>1. PICK a \in [id : Chunk, meta : Meta] : handle[h].arg = <<a>>
    BY <1>2, <1>7, ArgOfFirst DEF FilterMetadata, Doing
  <2>2. handle[h].arg[1] = a
    BY <2>1
  <2>3. PICK filter : /\ Updates(h, handle[h].index, filter) /\ UNCHANGED foreign
                      /\ filter = IF a.id \in StoredIds(rows)
                                  THEN PutFilter(handle[h].filter,
                                          {[key |-> RowOf(rows, a.id).key, id |-> a.id,
                                            doc |-> RowOf(rows, a.id).doc, meta |-> a.meta]})
                                  ELSE handle[h].filter
    BY <1>7, <2>2 DEF FilterMetadata
  <2>4. a.id \in StoredIds(rows) =>
           [key |-> RowOf(rows, a.id).key, id |-> a.id,
            doc |-> RowOf(rows, a.id).doc, meta |-> a.meta] \in FilterEntry
    <3> HAVE a.id \in StoredIds(rows)
    <3>1. RowOf(rows, a.id) \in Row
      BY <1>3, RowOfStored
    <3> QED
      BY <3>1 DEF Row, FilterEntry
  <2>5. filter \in SUBSET FilterEntry
    BY <1>2, <1>4, <2>3, <2>4
  <2> QED
    BY <1>5, <2>3, <2>5
<1>8. ASSUME RebuildFilterIndex(h) PROVE Goal
  BY <1>3, <1>5, <1>8, FilterImageTyped DEF RebuildFilterIndex
<1>9. ASSUME TruncateSidecar(h) \/ WriteSidecar(h) \/ Vacuum(h) PROVE Goal
  <2>1. /\ UNCHANGED <<config, rows, docs, nextKey, foreign>> /\ Continues(h)
        /\ wal' \in BOOLEAN /\ fresh' \in BOOLEAN /\ side' \in [entries : SUBSET Entry, whole : BOOLEAN]
    <3>1. CASE TruncateSidecar(h)
      BY <3>1 DEF TruncateSidecar, TypeInv
    <3>2. CASE WriteSidecar(h)
      BY <1>2, <3>2 DEF WriteSidecar, TypeInv
    <3>3. CASE Vacuum(h)
      <4>1. config.wal \in BOOLEAN
        BY DataAssumption DEF TypeInv, Config
      <4>2. wal' = config.wal /\ fresh' \in IF wal \/ ~config.wal THEN {FALSE} ELSE {fresh, FALSE}
        BY <3>3 DEF Vacuum
      <4>3. fresh \in BOOLEAN
        BY DEF TypeInv
      <4>4. wal' \in BOOLEAN /\ fresh' \in BOOLEAN
        BY <4>1, <4>2, <4>3
      <4> QED
        BY <3>3, <4>4 DEF Vacuum, TypeInv
    <3> QED
      BY <1>9, <3>1, <3>2, <3>3
  <2> QED
    BY <1>1, <2>1, ContinuesEffect
<1> QED
  BY <1>1, <1>6, <1>7, <1>8, <1>9

LEMMA IndexBatchEffect ==
    ASSUME TypeInv, NEW h \in Handle, IndexBatch(h)
    PROVE  /\ handle[h].open /\ handle[h].arg \in Batches
           /\ NewEntries(handle[h].arg) \in SUBSET Entry
           /\ UNCHANGED rows
           /\ \E filter : Effect(h, {}, PutEntries(handle[h].index, NewEntries(handle[h].arg)), filter,
                                 Tail(handle[h].todo), << >>)
<1>1. /\ handle[h].open /\ handle[h].todo # << >> /\ Head(handle[h].todo) = "index" /\ UNCHANGED foreign
      /\ Updates(h, PutEntries(handle[h].index, NewEntries(handle[h].arg)),
                    PutFilter(handle[h].filter, NewFilters(handle[h].arg)))
  BY DEF IndexBatch, Doing
<1>2. /\ handle[h].arg \in Batches
      /\ handle[h].index \in SUBSET Entry /\ handle[h].filter \in SUBSET FilterEntry
  BY <1>1, Remaining, TypeParts, ArgOfFirst DEF HandleState
<1>3. rows \in SUBSET Row
  BY DEF TypeInv, TableInv
<1>4. NewEntries(handle[h].arg) \in SUBSET Entry /\ NewFilters(handle[h].arg) \in SUBSET FilterEntry
  BY <1>2, <1>3, NewTyped
<1>5. /\ PutEntries(handle[h].index, NewEntries(handle[h].arg)) \in SUBSET Entry
      /\ PutFilter(handle[h].filter, NewFilters(handle[h].arg)) \in SUBSET FilterEntry
  BY <1>2, <1>4 DEF PutEntries, PutFilter
<1>6. Effect(h, {}, PutEntries(handle[h].index, NewEntries(handle[h].arg)),
             PutFilter(handle[h].filter, NewFilters(handle[h].arg)), Tail(handle[h].todo), << >>)
  BY <1>1, <1>5, UpdatesEffect
<1> QED
  BY <1>1, <1>2, <1>4, <1>6 DEF Updates

LEMMA EmbedEffect ==
    ASSUME TypeInv, NEW h \in Handle, Embed(h)
    PROVE  \E new, cs :
              /\ new \in Entry
              /\ handle[h].open /\ handle[h].todo # << >> /\ handle[h].arg = <<new>>
              /\ rows' = {IF r.id = new.id THEN [r EXCEPT !.emb = new.emb] ELSE r : r \in rows}
              /\ \/ /\ Dimension(handle[h].index) \in {0, new.emb.dim}
                    /\ Effect(h, cs, PutEntries(handle[h].index, {new}), handle[h].filter, Save, << >>)
                 \/ /\ Dimension(handle[h].index) \notin {0, new.emb.dim}
                    /\ Effect(h, cs, handle[h].index, handle[h].filter, << >>, << >>)
<1>1. /\ handle[h].open /\ handle[h].todo # << >> /\ Head(handle[h].todo) = "embed"
      /\ UNCHANGED <<config, docs, nextKey, side>>
  BY DEF Embed, Doing
<1>2. /\ handle[h] \in HandleState
      /\ handle[h].arg \in {<<a>> : a \in Entry}
  BY <1>1, Remaining, TypeParts, ArgOfFirst
<1>3. PICK new \in Entry : handle[h].arg = <<new>> /\ handle[h].arg[1] = new
  BY <1>2
<1>4. /\ rows' = {IF r.id = new.id THEN [r EXCEPT !.emb = new.emb] ELSE r : r \in rows}
      /\ IF new.id \in StoredIds(rows) THEN Commits(h, {new.id}) ELSE UNCHANGED <<wal, fresh, foreign>>
      /\ handle' = [handle EXCEPT ![h] =
            IF Dimension(handle[h].index) \in {0, new.emb.dim}
            THEN [handle[h] EXCEPT !.index = PutEntries(handle[h].index, {new}), !.todo = Save, !.arg = << >>]
            ELSE [handle[h] EXCEPT !.todo = << >>, !.arg = << >>]]
  BY <1>3 DEF Embed
<1>5. new.id \in Chunk /\ new.emb \in Embedding /\ rows \in SUBSET Row
  BY DEF Entry, TypeInv, TableInv
<1>6. PICK cs : /\ Evolves(cs) /\ Noted(h, cs) /\ foreign' \in [Handle -> SUBSET Chunk]
                /\ wal' \in BOOLEAN /\ fresh' \in BOOLEAN
  <2>1. CASE new.id \notin StoredIds(rows)
    <3>1. rows' = rows /\ UNCHANGED <<wal, fresh, foreign>>
      BY <1>4, <2>1 DEF StoredIds
    <3> QED
      BY <1>1, <3>1, NothingNoted, NothingEvolves DEF TypeInv
  <2>2. CASE new.id \in StoredIds(rows)
    <3> DEFINE f == [r \in rows |-> IF r.id = new.id THEN [r EXCEPT !.emb = new.emb] ELSE r]
    <3>1. /\ f \in [rows -> Row] /\ rows' = {f[r] : r \in rows}
          /\ \A r \in rows : f[r].id = r.id /\ f[r].key = r.key /\ (r.id # new.id => f[r] = r)
      BY <1>4, <1>5 DEF Row
    <3> HIDE DEF f
    <3>2. Evolves({new.id})
      BY <1>1, <1>5, <3>1, UpdateEvolves DEF TypeInv
    <3> QED
      BY <1>4, <1>5, <2>2, <3>2, CommitNoted
  <2> QED
    BY <2>1, <2>2
<1>7. PICK s \in HandleState :
         /\ handle' = [handle EXCEPT ![h] = s] /\ ArgFits(s)
         /\ s.open = handle[h].open /\ s.filter = handle[h].filter /\ s.arg = << >>
         /\ \/ /\ Dimension(handle[h].index) \in {0, new.emb.dim}
               /\ s.index = PutEntries(handle[h].index, {new}) /\ s.todo = Save
            \/ /\ Dimension(handle[h].index) \notin {0, new.emb.dim}
               /\ s.index = handle[h].index /\ s.todo = << >>
  <2>1. << >> \in Args /\ << >> \in Seq(Step)
    BY DEF Args
  <2>2. CASE Dimension(handle[h].index) \in {0, new.emb.dim}
    <3> DEFINE s == [handle[h] EXCEPT !.index = PutEntries(handle[h].index, {new}), !.todo = Save, !.arg = << >>]
    <3>1. PutEntries(handle[h].index, {new}) \in SUBSET Entry
      BY <1>2 DEF PutEntries, HandleState
    <3>2. Save \in Seq(Later) /\ Save \in Seq(Step)
      BY SaveSteps, LaterSteps
    <3>3. /\ s \in HandleState /\ s.open = handle[h].open /\ s.filter = handle[h].filter /\ s.arg = << >>
          /\ s.index = PutEntries(handle[h].index, {new}) /\ s.todo = Save
      BY <1>2, <2>1, <3>1, <3>2 DEF HandleState
    <3>4. ArgFits(s)
      BY <3>2, <3>3, LaterSteps, ArgsOfSteps DEF ArgFits
    <3>5. handle' = [handle EXCEPT ![h] = s]
      BY <1>4, <2>2
    <3> QED
      BY <2>2, <3>3, <3>4, <3>5
  <2>3. CASE Dimension(handle[h].index) \notin {0, new.emb.dim}
    <3> DEFINE s == [handle[h] EXCEPT !.todo = << >>, !.arg = << >>]
    <3>1. /\ s \in HandleState /\ s.open = handle[h].open /\ s.filter = handle[h].filter /\ s.arg = << >>
          /\ s.index = handle[h].index /\ s.todo = << >>
      BY <1>2, <2>1 DEF HandleState
    <3>2. handle' = [handle EXCEPT ![h] = s]
      BY <1>4, <2>3
    <3> QED
      BY <2>3, <3>1, <3>2 DEF ArgFits
  <2> QED
    BY <2>2, <2>3
<1>8. HandleInv' /\ Becomes(h, s.open, s.index, s.filter, s.todo, s.arg)
  BY <1>7, TypeParts, HandleSet
<1>9. TypeInv'
  <2>1. TableInv'
    BY <1>6 DEF Evolves
  <2> QED
    BY <1>1, <1>6, <1>8, <2>1, TypesAgain DEF TypeInv
<1>10. Effect(h, cs, s.index, s.filter, s.todo, s.arg)
  BY <1>6, <1>7, <1>8, <1>9 DEF Effect
<1>11. \/ /\ Dimension(handle[h].index) \in {0, new.emb.dim}
          /\ Effect(h, cs, PutEntries(handle[h].index, {new}), handle[h].filter, Save, << >>)
       \/ /\ Dimension(handle[h].index) \notin {0, new.emb.dim}
          /\ Effect(h, cs, handle[h].index, handle[h].filter, << >>, << >>)
  <2>1. CASE s.index = PutEntries(handle[h].index, {new}) /\ s.todo = Save
             /\ Dimension(handle[h].index) \in {0, new.emb.dim}
    BY <1>7, <1>10, <2>1
  <2>2. CASE s.index = handle[h].index /\ s.todo = << >>
             /\ Dimension(handle[h].index) \notin {0, new.emb.dim}
    BY <1>7, <1>10, <2>2
  <2> QED
    BY <1>7, <2>1, <2>2
<1> QED
  BY <1>1, <1>3, <1>4, <1>11

LEMMA RebuildEffect ==
    ASSUME TypeInv, NEW h \in Handle, RebuildVectorIndex(h)
    PROVE  /\ TypeInv' /\ Evolves({}) /\ UNCHANGED rows
           /\ handle[h].open
           /\ Tail(handle[h].todo) \in Seq(Later)
           /\ Becomes(h, TRUE, Image(rows), handle[h].filter, Tail(handle[h].todo), << >>)
           /\ foreign'[h] = {} /\ \A g \in Handle \ {h} : foreign'[g] = foreign[g]
<1>1. /\ handle[h].open /\ handle[h].todo # << >> /\ Updates(h, Image(rows), handle[h].filter)
      /\ foreign' = [foreign EXCEPT ![h] = {}]
  BY DEF RebuildVectorIndex, Doing
<1>2. Image(rows) \in SUBSET Entry /\ handle[h].filter \in SUBSET FilterEntry
  BY <1>1, ImageEntries, Remaining, TypeParts DEF TypeInv, TableInv, HandleState
<1>3. foreign' \in [Handle -> SUBSET Chunk] /\ foreign'[h] = {} /\ \A g \in Handle \ {h} : foreign'[g] = foreign[g]
  BY <1>1 DEF TypeInv
<1>4. handle[h].open = TRUE
  BY <1>1, Remaining, TypeParts DEF HandleState
<1>5. Tail(handle[h].todo) \in Seq(Later)
  BY <1>1, Remaining, TypeParts
<1>6. /\ Becomes(h, handle[h].open, Image(rows), handle[h].filter, Tail(handle[h].todo), << >>)
      /\ Evolves({}) /\ TypeInv'
  BY <1>1, <1>2, <1>3, UpdatesEffect
<1> QED
  BY <1>1, <1>3, <1>4, <1>5, <1>6 DEF Updates

LEMMA ClosedTyped == Closed \in HandleState /\ ArgFits(Closed) /\ Closed.open = FALSE
BY DEF Closed, HandleState, Args, ArgFits

LEMMA OpenEffect ==
    ASSUME TypeInv, NEW h \in Handle, Open(h)
    PROVE  /\ TypeInv' /\ Evolves({}) /\ UNCHANGED rows
           /\ \E steps \in Seq(Later) :
                /\ Becomes(h, TRUE, IF LoadsSidecar THEN side.entries ELSE Image(rows), {}, steps, << >>)
                /\ steps = IF LoadsSidecar THEN <<"refilter">> ELSE Save \o <<"refilter">>
           /\ foreign'[h] = {} /\ \A g \in Handle \ {h} : foreign'[g] = foreign[g]
<1> DEFINE entries == IF LoadsSidecar THEN side.entries ELSE Image(rows)
           steps == IF LoadsSidecar THEN <<"refilter">> ELSE Save \o <<"refilter">>
           s == [Closed EXCEPT !.open = TRUE, !.index = entries, !.todo = steps]
<1>1. /\ handle' = [handle EXCEPT ![h] = s]
      /\ foreign' = [foreign EXCEPT ![h] = {}]
      /\ UNCHANGED <<config, rows, docs, nextKey, wal, side, fresh>>
  BY DEF Open
<1>2. entries \in SUBSET Entry
  BY ImageEntries DEF TypeInv, TableInv
<1>3. steps \in Seq(Later) /\ steps \in Seq(Step)
  <2>1. <<"refilter">> \in Seq(Later)
    BY DEF Later, Step, First
  <2>2. steps \in Seq(Later)
    BY <2>1, SaveSteps, Joined
  <2> HIDE DEF steps
  <2> QED
    BY <2>2, LaterSteps
<1> HIDE DEF entries, steps
<1>4. /\ s \in HandleState /\ s.open = TRUE /\ s.index = entries /\ s.filter = {} /\ s.todo = steps /\ s.arg = << >>
  BY <1>2, <1>3 DEF Closed, HandleState, Args
<1>5. ArgFits(s)
  BY <1>3, <1>4, LaterSteps, ArgsOfSteps DEF ArgFits
<1> HIDE DEF s
<1>6. HandleInv' /\ Becomes(h, TRUE, entries, {}, steps, << >>)
  BY <1>1, <1>4, <1>5, TypeParts, HandleSet
<1>7. Evolves({})
  BY <1>1, NothingEvolves
<1>8. /\ foreign' \in [Handle -> SUBSET Chunk]
      /\ foreign'[h] = {} /\ \A g \in Handle \ {h} : foreign'[g] = foreign[g]
  BY <1>1 DEF TypeInv
<1>9. TypeInv'
  <2>1. TableInv'
    BY <1>7 DEF Evolves
  <2> QED
    BY <1>1, <1>6, <1>8, <2>1, TypesAgain DEF TypeInv
<1> QED
  BY <1>1, <1>3, <1>6, <1>7, <1>8, <1>9 DEF entries, steps

LEMMA CloseEffect ==
    ASSUME TypeInv, NEW h \in Handle, Close(h)
    PROVE  /\ TypeInv' /\ Evolves({}) /\ UNCHANGED <<rows, foreign>>
           /\ handle'[h].open = FALSE /\ \A g \in Handle \ {h} : handle'[g] = handle[g]
<1>1. /\ handle' = [handle EXCEPT ![h] = Closed]
      /\ UNCHANGED <<config, rows, docs, nextKey, side, foreign>>
      /\ wal' \in BOOLEAN /\ fresh' \in BOOLEAN
  BY DEF Close, TypeInv
<1>2. HandleInv' /\ Becomes(h, Closed.open, Closed.index, Closed.filter, Closed.todo, Closed.arg)
  BY <1>1, ClosedTyped, TypeParts, HandleSet
<1>3. Evolves({})
  BY <1>1, NothingEvolves
<1>4. TypeInv'
  <2>1. TableInv'
    BY <1>3 DEF Evolves
  <2> QED
    BY <1>1, <1>2, <2>1, TypesAgain DEF TypeInv
<1> QED
  BY <1>1, <1>2, <1>3, <1>4, ClosedTyped DEF Becomes

LEMMA CrashEffect ==
    ASSUME TypeInv, Crash
    PROVE  TypeInv' /\ Evolves({}) /\ UNCHANGED rows /\ \A h \in Handle : handle'[h].open = FALSE
<1>1. /\ handle' = [h \in Handle |-> Closed] /\ foreign' = [h \in Handle |-> {}]
      /\ UNCHANGED <<config, rows, docs, nextKey, wal, side, fresh>>
  BY DEF Crash
<1>2. HandleInv' /\ \A h \in Handle : handle'[h].open = FALSE
  BY <1>1, ClosedTyped DEF HandleInv
<1>3. Evolves({})
  BY <1>1, NothingEvolves
<1>4. TypeInv'
  <2>1. TableInv'
    BY <1>3 DEF Evolves
  <2> QED
    BY <1>1, <1>2, <2>1, TypesAgain DEF TypeInv
<1> QED
  BY <1>1, <1>2, <1>3, <1>4

-----------------------------------------------------------------------------
\* Every state keeps the types, ids and keys apart, and keys below the next one.
LEMMA TypesKept ==
    ASSUME TypeInv, [Next]_vars
    PROVE  TypeInv'
<1>1. CASE Crash
  BY <1>1, CrashEffect
<1>2. ASSUME NEW h \in Handle, Open(h) \/ Close(h) PROVE TypeInv'
  BY <1>2, OpenEffect, CloseEffect
<1>3. ASSUME NEW h \in Handle, NEW batch \in Batches, Ingest(h, batch) PROVE TypeInv'
  BY <1>3, IngestEffect DEF Effect
<1>4. ASSUME NEW h \in Handle, NEW batch \in Texts, IngestText(h, batch) PROVE TypeInv'
  BY <1>4, IngestTextEffect DEF Effect
<1>5. ASSUME NEW h \in Handle, NEW c \in Chunk, NEW m \in Meta, UpdateMetadata(h, c, m) PROVE TypeInv'
  BY <1>5, UpdateMetadataEffect DEF Effect
<1>6. ASSUME NEW h \in Handle, NEW c \in Chunk, NEW e \in Embeddings, UpdateEmbedding(h, c, e) PROVE TypeInv'
  BY <1>6, UpdateEmbeddingEffect DEF Effect
<1>7. ASSUME NEW h \in Handle,
             \/ \E d \in Doc : DeleteByDocId(h, d)
             \/ \E m \in Meta : DeleteByMetadata(h, m)
             \/ Compact(h)
      PROVE  TypeInv'
  BY <1>7, DeletionsEffect DEF Effect
<1>8. ASSUME NEW h \in Handle,
             \/ FilterText(h) \/ FilterMetadata(h) \/ RebuildFilterIndex(h)
             \/ TruncateSidecar(h) \/ WriteSidecar(h) \/ Vacuum(h)
      PROVE  TypeInv'
  BY <1>8, SideStepEffect DEF Effect
<1>9. ASSUME NEW h \in Handle,
             IndexBatch(h) \/ Embed(h) \/ DeleteDocumentRow(h) \/ PruneDocuments(h) \/ RebuildVectorIndex(h)
      PROVE  TypeInv'
  BY <1>9, IndexBatchEffect, EmbedEffect, DropDocsEffect, RebuildEffect DEF Effect
<1>10. CASE UNCHANGED vars
  BY <1>10 DEF vars, TypeInv, TableInv, ApartRows, KeysBelow
<1> QED
  BY <1>1, <1>2, <1>3, <1>4, <1>5, <1>6, <1>7, <1>8, <1>9, <1>10 DEF Next

LEMMA TypesAtFirst == Init => TypeInv
<1> SUFFICES ASSUME Init PROVE TypeInv
  OBVIOUS
<1>1. TableInv
  BY DataAssumption DEF Init, TableInv, ApartRows, KeysBelow
<1>2. \A h \in Handle : handle[h] \in HandleState /\ ArgFits(handle[h])
  BY ClosedTyped DEF Init
<1> QED
  BY <1>1, <1>2 DEF Init, TypeInv

(***************************************************************************)
(* What the tables and the calls in progress always satisfy: ids and keys  *)
(* tell the rows apart, no rowid is given out twice (AUTOINCREMENT), and a *)
(* call carries the argument that its next step reads.                     *)
(***************************************************************************)
THEOREM TypesInvariant == Spec => []TypeInv
<1>1. TypeInv /\ [Next]_vars => TypeInv'
  BY TypesKept
<1> QED
  BY <1>1, TypesAtFirst, PTL DEF Spec

(***************************************************************************)
(* The tables, the sidecar and what each handle holds keep their types,    *)
(* and no more keys are given out than the bound allows.                   *)
(***************************************************************************)
THEOREM StoreTypeCorrect == Spec => []TypeOK
<1>1. TypeInv => TypeOK
  BY DEF TypeInv, TableInv, HandleState, TypeOK
<1> QED
  BY <1>1, TypesInvariant, PTL

(***************************************************************************)
(* delete_by_doc_id() and compact() remove document rows without their     *)
(* chunks having been looked at before: no chunk goes along, whatever      *)
(* other handles have ingested into the document in the meantime.          *)
(***************************************************************************)
THEOREM OrphansGoAlone == Spec => OrphanRemovalKeepsChunks
<1>1. (\E h \in Handle : DeleteDocumentRow(h) \/ PruneDocuments(h)) => rows' = rows
  <2> SUFFICES ASSUME NEW h \in Handle, DeleteDocumentRow(h) \/ PruneDocuments(h) PROVE rows' = rows
    OBVIOUS
  <2>1. PICK gone : DropDocs(h, gone) /\ \A d \in gone : \A r \in rows : r.doc # d
    BY DEF DeleteDocumentRow, PruneDocuments, Orphans
  <2> QED
    BY <2>1, OrphansHaveNoRows
<1> QED
  BY <1>1, PTL DEF OrphanRemovalKeepsChunks

-----------------------------------------------------------------------------
(* The vector index of a handle and the table, while calls are under way.  *)

EntryOf(r) == [key |-> r.key, id |-> r.id, emb |-> r.emb]

\* A key in the index stands for one entry, and for the chunk it stands for in the table.
Keyed(index, t, k) ==
    \A e \in index : /\ e.key < k
                     /\ \A r \in t : r.key = e.key => r.id = e.id
                     /\ \A f \in index : f.key = e.key => f = e

OneLength(index) == \A e, f \in index : e.emb.dim = f.emb.dim

\* An entry of chunk c has the key of its row, and there is none without a row.
Tracked(index, t, c) ==
    /\ \A r \in t, e \in index : r.id = c /\ e.id = c => e.key = r.key
    /\ c \notin StoredIds(t) => \A e \in index : e.id # c

\* The embedding of chunk c is in the index, or the index cannot hold it.
Covered(index, r) ==
    \/ EntryOf(r) \in index
    \/ \E e \in index : e.emb.dim # r.emb.dim
    \/ \E e \in index : e.id = r.id /\ e.emb.vec = Garbled

Follows(index, t, c) == \A r \in Embedded(t) : r.id = c => Covered(index, r)

\* A batch that has been stored and not yet indexed.
Batched(index, t, others, batch) ==
    /\ ValidBatch(index, batch)
    /\ \A c \in InputIds(batch) \ others : \E r \in t : r.id = c /\ r.emb = LastInput(batch, c).emb

\* An entry whose key has been read and that is about to be stored.
Aimed(index, t, k, others, x) ==
    /\ x.key < k
    /\ \A r \in t : r.key = x.key => r.id = x.id
    /\ \A e \in index : e.key = x.key => e.id = x.id
    /\ x.id \notin others => \E r \in t : r.id = x.id /\ r.key = x.key

Begins(s, step) == s.todo # << >> /\ Head(s.todo) = step
Pending(s) == IF Begins(s, "index") THEN InputIds(s.arg) ELSE {}

Tracking(index, t, others, pending) ==
    \A c \in Chunk \ others : /\ Tracked(index, t, c)
                              /\ c \notin pending => Follows(index, t, c)

InTouch(s, t, k, others) ==
    /\ Keyed(s.index, t, k)
    /\ OneLength(s.index)
    /\ ~Rebuilds(s.todo) => Tracking(s.index, t, others, Pending(s))
    /\ Begins(s, "index") => ~Rebuilds(s.todo) /\ Batched(s.index, t, others, s.arg)
    /\ Begins(s, "embed") => ~Rebuilds(s.todo) /\ Aimed(s.index, t, k, others, s.arg[1])

IndexInv == \A h \in Handle : handle[h].open => InTouch(handle[h], rows, nextKey, foreign[h])

-----------------------------------------------------------------------------
(* How the table's changes carry over.                                     *)

LEMMA KeyedStays ==
    ASSUME TypeInv, NEW cs, Evolves(cs), NEW index \in SUBSET Entry, Keyed(index, rows, nextKey)
    PROVE  Keyed(index, rows', nextKey')
<1>1. /\ nextKey \in Nat /\ nextKey' \in Nat /\ nextKey' >= nextKey
      /\ rows \in SUBSET Row /\ rows' \in SUBSET Row
  BY DataAssumption DEF TypeInv, TableInv, Evolves
<1>2. ASSUME NEW e \in index PROVE e.key < nextKey'
  BY <1>1 DEF Keyed, Entry
<1>3. ASSUME NEW e \in index, NEW r \in rows', r.key = e.key PROVE r.id = e.id
  <2>1. e.key < nextKey /\ e.key \in Nat /\ r.key \in Nat
    BY <1>1 DEF Keyed, Entry, Row
  <2>2. PICK s \in rows : s.id = r.id /\ s.key = r.key
    BY <1>1, <1>3, <2>1 DEF Evolves
  <2> QED
    BY <1>3, <2>2 DEF Keyed
<1> QED
  BY <1>2, <1>3 DEF Keyed

\* Chunks that do not change.
LEMMA TrackedElsewhere ==
    ASSUME NEW cs, Evolves(cs), NEW index, NEW c, c \notin cs
    PROVE  /\ Tracked(index, rows, c) => Tracked(index, rows', c)
           /\ Follows(index, rows, c) => Follows(index, rows', c)
<1>1. \A r : r.id = c => (r \in rows' <=> r \in rows)
  BY DEF Evolves
<1>2. c \in StoredIds(rows) => c \in StoredIds(rows')
  BY <1>1 DEF StoredIds
<1> QED
  BY <1>1, <1>2 DEF Tracked, Follows, Embedded

\* Chunks that are replaced.
LEMMA TrackedAgain ==
    ASSUME NEW cs, Evolves(cs), NEW index, NEW c \in StoredIds(rows'), Tracked(index, rows, c)
    PROVE  Tracked(index, rows', c)
BY DEF Evolves, Tracked

LEMMA TouchKept ==
    ASSUME TypeInv, NEW g \in Handle, handle'[g] = handle[g], NEW cs, Evolves(cs),
           foreign'[g] = foreign[g] \cup cs,
           InTouch(handle[g], rows, nextKey, foreign[g])
    PROVE  InTouch(handle'[g], rows', nextKey', foreign'[g])
<1> PICK s : s = handle[g]
  OBVIOUS
<1> PICK others : others = foreign[g]
  OBVIOUS
<1>1. s \in HandleState /\ s.index \in SUBSET Entry
  BY DEF TypeInv, HandleState
<1>2. Keyed(s.index, rows', nextKey')
  BY <1>1, KeyedStays DEF InTouch
<1>3. ASSUME Tracking(s.index, rows, others, Pending(s))
      PROVE  Tracking(s.index, rows', others \cup cs, Pending(s))
  BY <1>3, TrackedElsewhere DEF Tracking
<1>4. ASSUME Batched(s.index, rows, others, s.arg)
      PROVE  Batched(s.index, rows', others \cup cs, s.arg)
  BY <1>4 DEF Batched, Evolves
<1>5. ASSUME Begins(s, "embed"), Aimed(s.index, rows, nextKey, others, s.arg[1])
      PROVE  Aimed(s.index, rows', nextKey', others \cup cs, s.arg[1])
  <2>1. PICK x \in Entry : s.arg = <<x>> /\ s.arg[1] = x
    <3>1. s.arg \in ArgOf("embed")
      BY <1>5 DEF TypeInv, ArgFits, Begins
    <3> QED
      BY <3>1, ArgOfFirst
  <2>2. /\ nextKey \in Nat /\ nextKey' \in Nat /\ nextKey' >= nextKey
        /\ rows \in SUBSET Row /\ rows' \in SUBSET Row /\ x.key \in Nat /\ x.key < nextKey
    BY <1>5, <2>1, DataAssumption DEF TypeInv, TableInv, Evolves, Entry, Aimed
  <2>3. ASSUME NEW r \in rows', r.key = x.key PROVE r.id = x.id
    <3>1. r.key \in Nat
      BY <2>2 DEF Row
    <3>2. PICK p \in rows : p.id = r.id /\ p.key = r.key
      BY <2>2, <2>3, <3>1 DEF Evolves
    <3> QED
      BY <1>5, <2>1, <2>3, <3>2 DEF Aimed
  <2>4. x.id \notin others \cup cs => \E r \in rows' : r.id = x.id /\ r.key = x.key
    BY <1>5, <2>1 DEF Aimed, Evolves
  <2> QED
    BY <1>5, <2>1, <2>2, <2>3, <2>4 DEF Aimed
<1> QED
  BY <1>2, <1>3, <1>4, <1>5 DEF InTouch

-----------------------------------------------------------------------------
(* The steps of the handle itself.                                         *)

LEMMA TailSteps ==
    ASSUME HandleInv, NEW h \in Handle, handle[h].todo # << >>, Head(handle[h].todo) # "rebuild"
    PROVE  /\ Rebuilds(Tail(handle[h].todo)) <=> Rebuilds(handle[h].todo)
           /\ Tail(handle[h].todo) # << >> => Head(Tail(handle[h].todo)) \notin {"index", "embed"}
<1>1. /\ handle[h].todo \in Seq(Step) /\ Head(handle[h].todo) \in Step
      /\ Tail(handle[h].todo) \in Seq(Later)
  BY Remaining DEF HandleState
<1>2. handle[h].todo = <<Head(handle[h].todo)>> \o Tail(handle[h].todo)
  BY <1>1
<1>3. Rebuilds(Tail(handle[h].todo)) <=> Rebuilds(handle[h].todo)
  <2> PICK x, rest, todo : x = Head(handle[h].todo) /\ rest = Tail(handle[h].todo) /\ todo = handle[h].todo
    OBVIOUS
  <2>1. x \in Step /\ rest \in Seq(Later) /\ x # "rebuild" /\ todo = <<x>> \o rest
    BY <1>1, <1>2
  <2>2. Rebuilds(rest) <=> Rebuilds(<<x>> \o rest)
    BY <2>1, FirstThen
  <2> QED
    BY <2>1, <2>2
<1>4. Tail(handle[h].todo) # << >> => Head(Tail(handle[h].todo)) \in Later
  BY <1>1, LaterSteps
<1> QED
  BY <1>3, <1>4 DEF Later, First

LEMMA NoSteps ==
    ASSUME NEW s, s.todo = << >>
    PROVE  ~Rebuilds(s.todo) /\ Pending(s) = {} /\ ~Begins(s, "index") /\ ~Begins(s, "embed")
BY DEF Rebuilds, Pending, Begins

\* A step that leaves the table and the vector index alone.
LEMMA StepsOn ==
    ASSUME TypeInv, NEW h \in Handle, InTouch(handle[h], rows, nextKey, foreign[h]),
           UNCHANGED rows, Evolves({}), foreign'[h] = foreign[h],
           handle'[h].index = handle[h].index,
           ~Begins(handle[h], "index"),
           ~Begins(handle'[h], "index"), ~Begins(handle'[h], "embed"),
           Rebuilds(handle[h].todo) => Rebuilds(handle'[h].todo)
    PROVE  InTouch(handle'[h], rows', nextKey', foreign'[h])
<1>1. handle[h].index \in SUBSET Entry
  BY DEF TypeInv, HandleState
<1>2. Keyed(handle[h].index, rows', nextKey')
  BY <1>1, KeyedStays DEF InTouch
<1> QED
  BY <1>2 DEF InTouch, Pending

LEMMA SideStepTouch ==
    ASSUME TypeInv, NEW h \in Handle, InTouch(handle[h], rows, nextKey, foreign[h]),
           \/ FilterText(h) \/ FilterMetadata(h) \/ RebuildFilterIndex(h)
           \/ TruncateSidecar(h) \/ WriteSidecar(h) \/ Vacuum(h)
           \/ DeleteDocumentRow(h) \/ PruneDocuments(h)
    PROVE  InTouch(handle'[h], rows', nextKey', foreign'[h])
<1>1. /\ handle[h].todo # << >> /\ Head(handle[h].todo) \notin {"index", "rebuild"}
      /\ UNCHANGED rows
      /\ \E filter : Effect(h, {}, handle[h].index, filter, Tail(handle[h].todo), << >>)
  <2>1. CASE DeleteDocumentRow(h) \/ PruneDocuments(h)
    <3>1. handle[h].todo # << >> /\ Head(handle[h].todo) \in {"docrow", "prune"}
      BY <2>1 DEF DeleteDocumentRow, PruneDocuments, Doing
    <3> QED
      BY <2>1, <3>1, DropDocsEffect
  <2>2. CASE \/ FilterText(h) \/ FilterMetadata(h) \/ RebuildFilterIndex(h)
             \/ TruncateSidecar(h) \/ WriteSidecar(h) \/ Vacuum(h)
    BY <2>2, SideStepEffect
  <2> QED
    BY <2>1, <2>2
<1>2. /\ Evolves({}) /\ foreign'[h] = foreign[h]
      /\ handle'[h].index = handle[h].index /\ handle'[h].todo = Tail(handle[h].todo)
  BY <1>1 DEF Effect, Noted, Becomes
<1>3. /\ Rebuilds(handle'[h].todo) <=> Rebuilds(handle[h].todo)
      /\ ~Begins(handle'[h], "index") /\ ~Begins(handle'[h], "embed")
  BY <1>1, <1>2, TypeParts, TailSteps DEF Begins
<1>4. ~Begins(handle[h], "index")
  BY <1>1 DEF Begins
<1> QED
  BY <1>1, <1>2, <1>3, <1>4, StepsOn

LEMMA DeletionTouch ==
    ASSUME TypeInv, NEW h \in Handle, InTouch(handle[h], rows, nextKey, foreign[h]), Idle(h),
           \/ \E d \in Doc : DeleteByDocId(h, d)
           \/ \E m \in Meta : DeleteByMetadata(h, m)
           \/ Compact(h)
    PROVE  InTouch(handle'[h], rows', nextKey', foreign'[h])
<1>1. PICK gone, steps, arg :
              /\ Effect(h, StoredIds(gone), handle[h].index, handle[h].filter, steps, arg)
              /\ rows' = rows \ gone
              /\ gone # {} => Rebuilds(steps)
              /\ steps # << >> => Head(steps) \notin {"index", "embed"}
  BY DeletionsEffect
<1>2. /\ Evolves(StoredIds(gone)) /\ foreign'[h] = foreign[h]
      /\ handle'[h].index = handle[h].index /\ handle'[h].todo = steps
  BY <1>1 DEF Effect, Noted, Becomes
<1>3. ~Begins(handle'[h], "index") /\ ~Begins(handle'[h], "embed")
  BY <1>1, <1>2 DEF Begins
<1>4. /\ ~Rebuilds(handle[h].todo) /\ Pending(handle[h]) = {}
      /\ ~Begins(handle[h], "index")
  BY NoSteps DEF Idle
<1>5. CASE gone = {}
  <2>1. rows' = rows /\ StoredIds(gone) = {}
    BY <1>1, <1>5 DEF StoredIds
  <2> QED
    BY <1>2, <1>3, <1>4, <2>1, StepsOn
<1>6. CASE gone # {}
  <2>1. handle[h].index \in SUBSET Entry
    BY DEF TypeInv, HandleState
  <2>2. Keyed(handle[h].index, rows', nextKey')
    BY <1>2, <2>1, KeyedStays DEF InTouch
  <2> QED
    BY <1>1, <1>2, <1>3, <1>6, <2>2 DEF InTouch
<1> QED
  BY <1>5, <1>6

LEMMA IngestTouch ==
    ASSUME TypeInv, NEW h \in Handle, InTouch(handle[h], rows, nextKey, foreign[h]),
           NEW batch \in Batches, Ingest(h, batch)
    PROVE  InTouch(handle'[h], rows', nextKey', foreign'[h])
<1> PICK index : index = handle[h].index
  OBVIOUS
<1>1. /\ Effect(h, InputIds(batch), handle[h].index, handle[h].filter, <<"index">> \o Save, batch)
      /\ StoredIds(rows)' = StoredIds(rows) \cup InputIds(batch)
      /\ \A r \in rows' : r.id \in InputIds(batch) => r.emb = LastInput(batch, r.id).emb
      /\ ValidBatch(index, batch) /\ Idle(h)
  BY IngestEffect DEF Ingest
<1>2. /\ Evolves(InputIds(batch)) /\ foreign'[h] = foreign[h]
      /\ handle'[h].index = index /\ handle'[h].todo = <<"index">> \o Save /\ handle'[h].arg = batch
  BY <1>1 DEF Effect, Noted, Becomes
<1>3. /\ Begins(handle'[h], "index") /\ ~Begins(handle'[h], "embed")
      /\ Pending(handle'[h]) = InputIds(batch) /\ ~Rebuilds(handle'[h].todo)
  <2>1. "index" \in Step
    BY DEF Step
  <2> QED
    BY <1>2, <2>1, SaveSteps, FirstThen DEF Begins, Pending
<1>4. Keyed(index, rows', nextKey')
  <2>1. index \in SUBSET Entry
    BY DEF TypeInv, HandleState
  <2> QED
    BY <1>2, <2>1, KeyedStays DEF InTouch
<1>5. Tracking(index, rows, foreign[h], {})
  BY <1>1, NoSteps DEF Idle, InTouch
<1>6. Tracking(index, rows', foreign[h], InputIds(batch))
  <2> SUFFICES ASSUME NEW c \in Chunk \ foreign[h]
               PROVE  /\ Tracked(index, rows', c)
                      /\ c \notin InputIds(batch) => Follows(index, rows', c)
    BY DEF Tracking
  <2>1. Tracked(index, rows, c) /\ Follows(index, rows, c)
    BY <1>5 DEF Tracking
  <2>2. CASE c \in InputIds(batch)
    BY <1>1, <1>2, <2>1, <2>2, TrackedAgain
  <2>3. CASE c \notin InputIds(batch)
    BY <1>2, <2>1, <2>3, TrackedElsewhere
  <2> QED
    BY <2>2, <2>3
<1>7. Batched(index, rows', foreign[h], batch)
  <2>1. \A c \in InputIds(batch) : \E r \in rows' : r.id = c /\ r.emb = LastInput(batch, c).emb
    BY <1>1 DEF StoredIds
  <2> QED
    BY <1>1, <2>1 DEF Batched
<1> QED
  BY <1>2, <1>3, <1>4, <1>6, <1>7 DEF InTouch

LEMMA IngestTextTouch ==
    ASSUME TypeInv, NEW h \in Handle, InTouch(handle[h], rows, nextKey, foreign[h]),
           NEW batch \in Texts, IngestText(h, batch)
    PROVE  InTouch(handle'[h], rows', nextKey', foreign'[h])
<1> PICK index : index = handle[h].index
  OBVIOUS
<1>1. /\ Effect(h, InputIds(batch), handle[h].index, handle[h].filter, <<"filter">>, batch)
      /\ StoredIds(rows)' = StoredIds(rows) \cup InputIds(batch)
      /\ \A r \in rows' : r.id \in InputIds(batch) => r.emb = NoEmb
      /\ Idle(h)
  BY IngestTextEffect DEF IngestText
<1>2. /\ Evolves(InputIds(batch)) /\ foreign'[h] = foreign[h]
      /\ handle'[h].index = index /\ handle'[h].todo = <<"filter">>
  BY <1>1 DEF Effect, Noted, Becomes
<1>3. /\ ~Begins(handle'[h], "index") /\ ~Begins(handle'[h], "embed") /\ Pending(handle'[h]) = {}
  BY <1>2 DEF Begins, Pending
<1>4. Keyed(index, rows', nextKey')
  <2>1. index \in SUBSET Entry
    BY DEF TypeInv, HandleState
  <2> QED
    BY <1>2, <2>1, KeyedStays DEF InTouch
<1>5. Tracking(index, rows, foreign[h], {})
  BY <1>1, NoSteps DEF Idle, InTouch
<1>6. Tracking(index, rows', foreign[h], {})
  <2> SUFFICES ASSUME NEW c \in Chunk \ foreign[h]
               PROVE  Tracked(index, rows', c) /\ Follows(index, rows', c)
    BY DEF Tracking
  <2>1. Tracked(index, rows, c) /\ Follows(index, rows, c)
    BY <1>5 DEF Tracking
  <2>2. CASE c \in InputIds(batch)
    BY <1>1, <1>2, <2>1, <2>2, TrackedAgain DEF Follows, Embedded
  <2>3. CASE c \notin InputIds(batch)
    BY <1>2, <2>1, <2>3, TrackedElsewhere
  <2> QED
    BY <2>2, <2>3
<1> QED
  BY <1>2, <1>3, <1>4, <1>6 DEF InTouch

LEMMA UpdateMetadataTouch ==
    ASSUME TypeInv, NEW h \in Handle, InTouch(handle[h], rows, nextKey, foreign[h]),
           NEW c \in Chunk, NEW m \in Meta, UpdateMetadata(h, c, m)
    PROVE  InTouch(handle'[h], rows', nextKey', foreign'[h])
<1> PICK index : index = handle[h].index
  OBVIOUS
<1>1. /\ Effect(h, {c}, handle[h].index, handle[h].filter, <<"metadata">>, <<[id |-> c, meta |-> m]>>)
      /\ \A r \in rows' : \E s \in rows : s.id = r.id /\ s.key = r.key /\ s.emb = r.emb
      /\ \A s \in rows : \E r \in rows' : s.id = r.id
      /\ Idle(h)
  BY UpdateMetadataEffect DEF UpdateMetadata
<1>2. /\ Evolves({c}) /\ foreign'[h] = foreign[h]
      /\ handle'[h].index = index /\ handle'[h].todo = <<"metadata">>
  BY <1>1 DEF Effect, Noted, Becomes
<1>3. /\ ~Begins(handle'[h], "index") /\ ~Begins(handle'[h], "embed") /\ Pending(handle'[h]) = {}
  BY <1>2 DEF Begins, Pending
<1>4. Keyed(index, rows', nextKey')
  <2>1. index \in SUBSET Entry
    BY DEF TypeInv, HandleState
  <2> QED
    BY <1>2, <2>1, KeyedStays DEF InTouch
<1>5. Tracking(index, rows, foreign[h], {})
  BY <1>1, NoSteps DEF Idle, InTouch
<1>6. Tracking(index, rows', foreign[h], {})
  <2> SUFFICES ASSUME NEW d \in Chunk \ foreign[h]
               PROVE  Tracked(index, rows', d) /\ Follows(index, rows', d)
    BY DEF Tracking
  <2>1. Tracked(index, rows, d) /\ Follows(index, rows, d)
    BY <1>5 DEF Tracking
  <2>2. Tracked(index, rows', d)
    BY <1>1, <2>1 DEF Tracked, StoredIds
  <2>3. ASSUME NEW r \in Embedded(rows'), r.id = d PROVE Covered(index, r)
    <3>1. PICK s \in rows : s.id = r.id /\ s.key = r.key /\ s.emb = r.emb
      BY <1>1 DEF Embedded
    <3>2. s \in Embedded(rows) /\ Covered(index, s)
      BY <2>1, <2>3, <3>1 DEF Embedded, Follows
    <3> QED
      BY <3>1, <3>2 DEF Covered, EntryOf
  <2> QED
    BY <2>2, <2>3 DEF Follows
<1> QED
  BY <1>2, <1>3, <1>4, <1>6 DEF InTouch

LEMMA UpdateEmbeddingTouch ==
    ASSUME TypeInv, NEW h \in Handle, InTouch(handle[h], rows, nextKey, foreign[h]),
           NEW c \in Chunk, NEW e \in Embeddings, UpdateEmbedding(h, c, e)
    PROVE  InTouch(handle'[h], rows', nextKey', foreign'[h])
<1> PICK index : index = handle[h].index
  OBVIOUS
<1>1. /\ Idle(h) /\ UNCHANGED <<rows, nextKey, foreign>>
  BY DEF UpdateEmbedding
<1>2. PICK r \in rows :
         /\ r.id = c
         /\ Effect(h, {}, handle[h].index, handle[h].filter, <<"embed">>,
                   <<[key |-> r.key, id |-> c, emb |-> e]>>)
  BY UpdateEmbeddingEffect
<1> PICK x : x = [key |-> r.key, id |-> c, emb |-> e]
  OBVIOUS
<1>3. /\ handle'[h].index = index /\ handle'[h].todo = <<"embed">> /\ handle'[h].arg = <<x>>
      /\ x.key = r.key /\ x.id = r.id
  BY <1>2 DEF Effect, Becomes
<1>4. /\ ~Begins(handle'[h], "index") /\ Pending(handle'[h]) = {}
      /\ ~Rebuilds(handle'[h].todo) /\ handle'[h].arg[1] = x
  <2>1. ~Rebuilds(<<"embed">>)
    <3>1. "embed" \in Step /\ << >> \in Seq(Later) /\ <<"embed">> \o << >> = <<"embed">>
      BY DEF Step
    <3> QED
      BY <3>1, FirstThen, NoSteps DEF Rebuilds
  <2> QED
    BY <1>3, <2>1 DEF Begins, Pending
<1>5. Tracking(index, rows, foreign[h], {})
  BY <1>1, NoSteps DEF Idle, InTouch
<1>6. Aimed(index, rows, nextKey, foreign[h], x)
  <2>1. \A s \in rows : s.key = r.key => s = r
    BY DEF TypeInv, TableInv, ApartRows
  <2>2. r.key < nextKey
    BY DEF TypeInv, TableInv, KeysBelow
  <2>3. \A f \in index : f.key = r.key => f.id = r.id
    BY DEF InTouch, Keyed
  <2> QED
    BY <1>3, <2>1, <2>2, <2>3 DEF Aimed
<1> QED
  BY <1>1, <1>3, <1>4, <1>5, <1>6 DEF InTouch

-----------------------------------------------------------------------------
(* The steps that change the vector index.                                 *)

\* New entries of one length that stand for chunks as the table has them.
Fitting(new, index, t, k) ==
    /\ \A n \in new : /\ n.key < k
                      /\ \A r \in t : r.key = n.key => r.id = n.id
                      /\ \A e \in index : e.key = n.key => e.id = n.id
                      /\ \A m \in new : m.key = n.key => m = n
    /\ \A n \in new, m \in new \cup index : m.emb.dim = n.emb.dim

LEMMA PutKeeps ==
    ASSUME NEW index, NEW new, NEW t, NEW k,
           Keyed(index, t, k), OneLength(index), Fitting(new, index, t, k)
    PROVE  /\ Keyed(PutEntries(index, new), t, k)
           /\ OneLength(PutEntries(index, new))
           /\ new \subseteq PutEntries(index, new)
           /\ \A e \in PutEntries(index, new) : e \in new \/ e \in index
           /\ \A c : (\A n \in new : n.id # c) =>
                /\ Tracked(index, t, c) => Tracked(PutEntries(index, new), t, c)
                /\ Follows(index, t, c) => Follows(PutEntries(index, new), t, c)
<1> PICK put : put = PutEntries(index, new)
  OBVIOUS
<1>1. \A e : e \in put <=> e \in new \/ (e \in index /\ \A n \in new : n.key # e.key)
  BY DEF PutEntries
<1>2. Keyed(put, t, k)
  BY <1>1 DEF Keyed, Fitting
<1>3. OneLength(put)
  BY <1>1 DEF OneLength, Fitting
<1>4. \A e \in index : \E f \in put : f.emb.dim = e.emb.dim
  BY <1>1 DEF Fitting
<1>5. ASSUME NEW c, \A n \in new : n.id # c
      PROVE  /\ Tracked(index, t, c) => Tracked(put, t, c)
             /\ Follows(index, t, c) => Follows(put, t, c)
  <2>1. \A e : e.id = c => (e \in put <=> e \in index)
    BY <1>1, <1>5 DEF Fitting
  <2>2. ASSUME Tracked(index, t, c) PROVE Tracked(put, t, c)
    BY <2>1, <2>2 DEF Tracked
  <2>3. ASSUME NEW r, r.id = c, Covered(index, r) PROVE Covered(put, r)
    <3>1. EntryOf(r).id = c
      BY <2>3 DEF EntryOf
    <3> QED
      BY <1>4, <2>1, <2>3, <3>1 DEF Covered
  <2> QED
    BY <2>2, <2>3 DEF Follows
<1> QED
  BY <1>1, <1>2, <1>3, <1>5

LEMMA NewEntriesAre ==
    ASSUME TypeInv, NEW batch \in Batches
    PROVE  /\ \A n \in NewEntries(batch) : \E r \in rows :
                 /\ r.id \in InputIds(batch)
                 /\ n = [key |-> r.key, id |-> r.id, emb |-> LastInput(batch, r.id).emb]
           /\ \A r \in rows : r.id \in InputIds(batch) =>
                 [key |-> r.key, id |-> r.id, emb |-> LastInput(batch, r.id).emb] \in NewEntries(batch)
           /\ \A c \in InputIds(batch) : LastInput(batch, c) \in Inputs(batch)
<1>1. batch \in Seq(Input) /\ rows \in SUBSET Row /\ ApartRows(rows)
  BY BatchesAreInputs DEF TypeInv, TableInv
<1>2. \A c \in InputIds(batch) : LastInput(batch, c) \in Inputs(batch) /\ LastInput(batch, c).id = c
  BY <1>1, LastOne
<1>3. ASSUME NEW n \in NewEntries(batch)
      PROVE  \E r \in rows : /\ r.id \in InputIds(batch)
                             /\ n = [key |-> r.key, id |-> r.id, emb |-> LastInput(batch, r.id).emb]
  <2>1. PICK i \in FetchedKeys(batch) : n = [key |-> RowOf(rows, i.id).key, id |-> i.id, emb |-> i.emb]
    BY DEF NewEntries
  <2>2. PICK c \in InputIds(batch) : i = LastInput(batch, c) /\ i.id \in StoredIds(rows) /\ i.id = c
    BY <1>2 DEF FetchedKeys
  <2>3. PICK r \in rows : r = RowOf(rows, c) /\ r.id = c
    BY <1>1, <2>2, RowOfStored
  <2> QED
    BY <2>1, <2>2, <2>3
<1>4. ASSUME NEW r \in rows, r.id \in InputIds(batch)
      PROVE  [key |-> r.key, id |-> r.id, emb |-> LastInput(batch, r.id).emb] \in NewEntries(batch)
  <2>1. PICK i : i = LastInput(batch, r.id)
    OBVIOUS
  <2>2. i.id = r.id /\ r.id \in StoredIds(rows)
    BY <1>2, <1>4, <2>1 DEF StoredIds
  <2>3. i \in FetchedKeys(batch)
    BY <1>4, <2>1, <2>2 DEF FetchedKeys
  <2>4. RowOf(rows, i.id) = r
    BY <1>1, <2>2, RowOfStored DEF ApartRows
  <2> QED
    BY <2>1, <2>2, <2>3, <2>4 DEF NewEntries
<1> QED
  BY <1>2, <1>3, <1>4

\* The dimension of an index is that of each of its entries.
LEMMA DimensionOf ==
    ASSUME NEW index \in SUBSET Entry, OneLength(index)
    PROVE  \A e \in index : Dimension(index) = e.emb.dim /\ Dimension(index) # 0
<1> SUFFICES ASSUME NEW e \in index PROVE Dimension(index) = e.emb.dim /\ Dimension(index) # 0
  OBVIOUS
<1>1. PICK f : f = CHOOSE x \in index : TRUE
  OBVIOUS
<1>2. f \in index
  BY <1>1
<1>3. Dimension(index) = f.emb.dim
  BY <1>1 DEF Dimension
<1>4. f.emb.dim = e.emb.dim /\ e.emb.dim \in Nat \ {0}
  BY <1>2 DEF OneLength, Entry, Embedding
<1> QED
  BY <1>3, <1>4

LEMMA IndexBatchTouch ==
    ASSUME TypeInv, NEW h \in Handle, InTouch(handle[h], rows, nextKey, foreign[h]), IndexBatch(h)
    PROVE  InTouch(handle'[h], rows', nextKey', foreign'[h])
<1> PICK index, batch, new, put, others :
       /\ index = handle[h].index /\ batch = handle[h].arg /\ new = NewEntries(batch)
       /\ put = PutEntries(index, new) /\ others = foreign[h]
  OBVIOUS
<1>1. /\ batch \in Batches /\ new \in SUBSET Entry /\ UNCHANGED rows
      /\ \E filter : Effect(h, {}, put, filter, Tail(handle[h].todo), << >>)
  BY IndexBatchEffect
<1>2. /\ Begins(handle[h], "index") /\ handle[h].todo # << >> /\ Head(handle[h].todo) # "rebuild"
      /\ Pending(handle[h]) = InputIds(batch)
      /\ UNCHANGED nextKey
  BY DEF IndexBatch, Doing, Begins, Pending, Updates
<1>3. /\ handle'[h].index = put /\ handle'[h].todo = Tail(handle[h].todo) /\ foreign'[h] = others
  BY <1>1 DEF Effect, Becomes, Noted
<1>4. /\ Keyed(index, rows, nextKey) /\ OneLength(index) /\ index \in SUBSET Entry
      /\ Tracking(index, rows, others, InputIds(batch))
      /\ Batched(index, rows, others, batch)
      /\ ~Rebuilds(handle[h].todo)
  BY <1>2 DEF InTouch, TypeInv, HandleState
<1>5. /\ ~Rebuilds(handle'[h].todo) /\ ~Begins(handle'[h], "index") /\ ~Begins(handle'[h], "embed")
      /\ Pending(handle'[h]) = {}
  BY <1>2, <1>3, <1>4, TypeParts, TailSteps DEF Begins, Pending
<1>6. Fitting(new, index, rows, nextKey)
  <2>1. ApartRows(rows) /\ KeysBelow(rows, nextKey)
    BY DEF TypeInv, TableInv
  <2>2. ASSUME NEW n \in new
        PROVE  /\ n.key < nextKey
               /\ \A r \in rows : r.key = n.key => r.id = n.id
               /\ \A e \in index : e.key = n.key => e.id = n.id
               /\ \A m \in new : m.key = n.key => m = n
    <3>1. PICK r \in rows : /\ r.id \in InputIds(batch)
                            /\ n = [key |-> r.key, id |-> r.id, emb |-> LastInput(batch, r.id).emb]
      BY <1>1, NewEntriesAre
    <3>2. n.key = r.key /\ n.id = r.id
      BY <3>1
    <3>3. \A m \in new : m.key = n.key => m = n
      <4> SUFFICES ASSUME NEW m \in new, m.key = n.key PROVE m = n
        OBVIOUS
      <4>1. PICK q \in rows : m = [key |-> q.key, id |-> q.id, emb |-> LastInput(batch, q.id).emb]
        BY <1>1, NewEntriesAre
      <4>2. q = r
        BY <2>1, <3>2, <4>1 DEF ApartRows
      <4> QED
        BY <3>1, <4>1, <4>2
    <3> QED
      BY <1>4, <2>1, <3>2, <3>3 DEF ApartRows, KeysBelow, Keyed
  <2>3. ASSUME NEW n \in new, NEW m \in new \cup index PROVE m.emb.dim = n.emb.dim
    <3>1. PICK d : Dimension(index) \in {0, d} /\ \A i \in Inputs(batch) : i.emb.dim = d
      BY <1>4 DEF Batched, ValidBatch
    <3>2. \A x \in new : x.emb.dim = d
      <4> SUFFICES ASSUME NEW x \in new PROVE x.emb.dim = d
        OBVIOUS
      <4>1. PICK r \in rows : /\ r.id \in InputIds(batch)
                              /\ x = [key |-> r.key, id |-> r.id, emb |-> LastInput(batch, r.id).emb]
        BY <1>1, NewEntriesAre
      <4>2. LastInput(batch, r.id) \in Inputs(batch)
        BY <1>1, <4>1, NewEntriesAre
      <4> QED
        BY <3>1, <4>1, <4>2
    <3>3. \A e \in index : e.emb.dim = d
      BY <1>4, <3>1, DimensionOf
    <3> QED
      BY <3>2, <3>3
  <2> QED
    BY <2>2, <2>3 DEF Fitting
<1>7. /\ Keyed(put, rows, nextKey) /\ OneLength(put) /\ new \subseteq put
      /\ \A e \in put : e \in new \/ e \in index
      /\ \A c : (\A n \in new : n.id # c) =>
                /\ Tracked(index, rows, c) => Tracked(put, rows, c)
                /\ Follows(index, rows, c) => Follows(put, rows, c)
  BY <1>4, <1>6, PutKeeps
<1>8. Tracking(put, rows, others, {})
  <2> SUFFICES ASSUME NEW c \in Chunk \ others
               PROVE  Tracked(put, rows, c) /\ Follows(put, rows, c)
    BY DEF Tracking
  <2>1. Tracked(index, rows, c) /\ (c \notin InputIds(batch) => Follows(index, rows, c))
    BY <1>4 DEF Tracking
  <2>2. CASE c \notin InputIds(batch)
    <3>1. \A n \in new : n.id # c
      BY <1>1, <2>2, NewEntriesAre
    <3> QED
      BY <1>7, <2>1, <2>2, <3>1
  <2>3. CASE c \in InputIds(batch)
    <3>1. PICK r \in rows : r.id = c /\ r.emb = LastInput(batch, c).emb
      BY <1>4, <2>3 DEF Batched
    <3>2. \A s \in rows : s.id = c => s = r
      BY <3>1 DEF TypeInv, TableInv, ApartRows
    <3>3. EntryOf(r) \in new
      BY <1>1, <2>3, <3>1, NewEntriesAre DEF EntryOf
    <3>4. \A e \in put : e.id = c => e.key = r.key
      <4> SUFFICES ASSUME NEW e \in put, e.id = c PROVE e.key = r.key
        OBVIOUS
      <4>1. CASE e \in index
        BY <2>1, <3>1, <4>1 DEF Tracked
      <4>2. CASE e \in new
        <5>1. PICK q \in rows : e = [key |-> q.key, id |-> q.id, emb |-> LastInput(batch, q.id).emb]
          BY <1>1, <4>2, NewEntriesAre
        <5> QED
          BY <3>2, <5>1
      <4> QED
        BY <1>7, <4>1, <4>2
    <3>5. c \in StoredIds(rows)
      BY <3>1 DEF StoredIds
    <3> QED
      BY <1>7, <3>2, <3>3, <3>4, <3>5 DEF Tracked, Follows, Covered, Embedded
  <2> QED
    BY <2>2, <2>3
<1> QED
  BY <1>1, <1>2, <1>3, <1>5, <1>7, <1>8 DEF InTouch

LEMMA EmbedTouch ==
    ASSUME TypeInv, NEW h \in Handle, InTouch(handle[h], rows, nextKey, foreign[h]), Embed(h)
    PROVE  InTouch(handle'[h], rows', nextKey', foreign'[h])
<1>1. PICK x, cs :
              /\ x \in Entry
              /\ handle[h].open /\ handle[h].todo # << >> /\ handle[h].arg = <<x>>
              /\ rows' = {IF r.id = x.id THEN [r EXCEPT !.emb = x.emb] ELSE r : r \in rows}
              /\ \/ /\ Dimension(handle[h].index) \in {0, x.emb.dim}
                    /\ Effect(h, cs, PutEntries(handle[h].index, {x}), handle[h].filter, Save, << >>)
                 \/ /\ Dimension(handle[h].index) \notin {0, x.emb.dim}
                    /\ Effect(h, cs, handle[h].index, handle[h].filter, << >>, << >>)
  BY EmbedEffect
<1> PICK index, put, others :
       index = handle[h].index /\ put = PutEntries(index, {x}) /\ others = foreign[h]
  OBVIOUS
<1>2. Begins(handle[h], "embed") /\ UNCHANGED nextKey /\ handle[h].arg[1] = x
  BY <1>1 DEF Embed, Doing, Begins
<1>3. /\ Keyed(index, rows, nextKey) /\ OneLength(index) /\ index \in SUBSET Entry
      /\ Tracking(index, rows, others, {})
      /\ Aimed(index, rows, nextKey, others, x)
  <2>1. Pending(handle[h]) = {}
    BY <1>2 DEF Pending, Begins
  <2> QED
    BY <1>2, <2>1 DEF InTouch, TypeInv, HandleState
<1>4. /\ Evolves(cs) /\ foreign'[h] = others
  BY <1>1 DEF Effect, Noted
<1>5. rows \in SUBSET Row /\ ApartRows(rows) /\ x \in Entry /\ x.emb \in Embedding /\ x.emb # NoEmb
  BY <1>1, DataAssumption DEF TypeInv, TableInv, Entry
<1>6. Keyed(index, rows', nextKey')
  BY <1>3, <1>4, KeyedStays
\* The rows after the UPDATE.
<1>7. /\ \A c : c # x.id => (Tracked(index, rows, c) => Tracked(index, rows', c))
                            /\ (Follows(index, rows, c) => Follows(index, rows', c))
      /\ \A r \in rows' : \E s \in rows : s.id = r.id /\ s.key = r.key
      /\ \A s \in rows : \E r \in rows' : s.id = r.id /\ s.key = r.key
      /\ \A r \in rows' : r.id = x.id => r.emb = x.emb
  <2>1. /\ \A r \in rows' : \E s \in rows : s.id = r.id /\ s.key = r.key
        /\ \A s \in rows : \E r \in rows' : s.id = r.id /\ s.key = r.key
        /\ \A r \in rows' : r.id = x.id => r.emb = x.emb
        /\ \A r : r.id # x.id => (r \in rows' <=> r \in rows)
    <3> DEFINE upd(r) == IF r.id = x.id THEN [r EXCEPT !.emb = x.emb] ELSE r
    <3>1. rows' = {upd(r) : r \in rows}
      BY <1>1
    <3>2. \A r \in rows : /\ upd(r).id = r.id /\ upd(r).key = r.key
                          /\ r.id = x.id => upd(r).emb = x.emb
                          /\ r.id # x.id => upd(r) = r
      BY <1>5 DEF Row
    <3> HIDE DEF upd
    <3>3. \A r \in rows' : \E s \in rows : r = upd(s)
      BY <3>1
    <3>4. \A s \in rows : upd(s) \in rows'
      BY <3>1
    <3>5. /\ \A r \in rows' : \E s \in rows : s.id = r.id /\ s.key = r.key
          /\ \A s \in rows : \E r \in rows' : s.id = r.id /\ s.key = r.key
          /\ \A r \in rows' : r.id = x.id => r.emb = x.emb
      BY <3>2, <3>3, <3>4
    <3>6. \A r : r.id # x.id => (r \in rows' <=> r \in rows)
      <4>1. \A r \in rows' : r.id # x.id => r \in rows
        BY <3>2, <3>3
      <4>2. \A r \in rows : r.id # x.id => r \in rows'
        BY <3>2, <3>4
      <4> QED
        BY <4>1, <4>2
    <3> QED
      BY <3>5, <3>6
  <2>3. ASSUME NEW c, c # x.id
        PROVE  /\ Tracked(index, rows, c) => Tracked(index, rows', c)
               /\ Follows(index, rows, c) => Follows(index, rows', c)
    <3>1. \A r : r.id = c => (r \in rows' <=> r \in rows)
      BY <2>1, <2>3
    <3>2. c \in StoredIds(rows) => c \in StoredIds(rows')
      BY <3>1 DEF StoredIds
    <3> QED
      BY <3>1, <3>2 DEF Tracked, Follows, Embedded
  <2> QED
    BY <2>1, <2>3
<1>8. Tracked(index, rows, x.id) => Tracked(index, rows', x.id)
  BY <1>7 DEF Tracked, StoredIds
<1>9. CASE Dimension(index) \in {0, x.emb.dim}
  <2>1. /\ handle'[h].index = put /\ handle'[h].todo = Save
    BY <1>1, <1>9 DEF Effect, Becomes
  <2>2. /\ ~Rebuilds(handle'[h].todo) /\ ~Begins(handle'[h], "index") /\ ~Begins(handle'[h], "embed")
        /\ Pending(handle'[h]) = {}
    <3>1. Save # << >> => Head(Save) \in Later
      BY SaveSteps, LaterSteps
    <3> QED
      BY <2>1, <3>1, SaveSteps DEF Begins, Pending, Later, First
  <2>3. Fitting({x}, index, rows', nextKey')
    <3>1. x.key < nextKey' /\ \A r \in rows' : r.key = x.key => r.id = x.id
      BY <1>2, <1>3, <1>7 DEF Aimed
    <3>2. \A e \in index : e.key = x.key => e.id = x.id
      BY <1>3 DEF Aimed
    <3>3. \A e \in index : e.emb.dim = x.emb.dim
      BY <1>3, <1>9, DimensionOf
    <3> QED
      BY <3>1, <3>2, <3>3 DEF Fitting
  <2>4. /\ Keyed(put, rows', nextKey') /\ OneLength(put) /\ x \in put
        /\ \A e \in put : e = x \/ e \in index
        /\ \A c : c # x.id => (Tracked(index, rows', c) => Tracked(put, rows', c))
                              /\ (Follows(index, rows', c) => Follows(put, rows', c))
    BY <1>3, <1>6, <2>3, PutKeeps
  <2>5. Tracking(put, rows', others, {})
    <3> SUFFICES ASSUME NEW c \in Chunk \ others
                 PROVE  Tracked(put, rows', c) /\ Follows(put, rows', c)
      BY DEF Tracking
    <3>1. Tracked(index, rows, c) /\ Follows(index, rows, c)
      BY <1>3 DEF Tracking
    <3>2. CASE c # x.id
      BY <1>7, <2>4, <3>1, <3>2
    <3>3. CASE c = x.id
      <4>1. PICK s \in rows : s.id = c /\ s.key = x.key
        BY <1>3, <3>3 DEF Aimed
      <4>2. \A r \in rows' : r.id = c => r.key = x.key /\ r.emb = x.emb
        BY <1>5, <1>7, <3>3, <4>1 DEF ApartRows
      <4>3. Tracked(index, rows', c) /\ c \in StoredIds(rows')
        BY <1>7, <1>8, <3>1, <3>3, <4>1 DEF StoredIds
      <4>4. \A r \in rows' : r.id = c => EntryOf(r) = x
        BY <1>5, <3>3, <4>2 DEF EntryOf, Entry
      <4>5. Tracked(put, rows', c)
        BY <2>4, <4>2, <4>3 DEF Tracked
      <4>6. Follows(put, rows', c)
        BY <2>4, <4>4 DEF Follows, Covered, Embedded
      <4> QED
        BY <4>5, <4>6
    <3> QED
      BY <3>2, <3>3
  <2> QED
    BY <1>4, <2>1, <2>2, <2>4, <2>5 DEF InTouch
<1>10. CASE Dimension(index) \notin {0, x.emb.dim}
  <2>1. /\ handle'[h].index = index /\ handle'[h].todo = << >>
    BY <1>1, <1>10 DEF Effect, Becomes
  <2>2. PICK e \in index : e.emb.dim # x.emb.dim
    <3>1. index # {}
      BY <1>10 DEF Dimension
    <3> QED
      BY <1>3, <1>10, <3>1, DimensionOf
  <2>3. Tracking(index, rows', others, {})
    <3> SUFFICES ASSUME NEW c \in Chunk \ others
                 PROVE  Tracked(index, rows', c) /\ Follows(index, rows', c)
      BY DEF Tracking
    <3>1. Tracked(index, rows, c) /\ Follows(index, rows, c)
      BY <1>3 DEF Tracking
    <3>2. CASE c # x.id
      BY <1>7, <3>1, <3>2
    <3>3. CASE c = x.id
      BY <1>7, <1>8, <2>2, <3>1, <3>3 DEF Follows, Covered, Embedded
    <3> QED
      BY <3>2, <3>3
  <2> QED
    BY <1>3, <1>4, <1>6, <2>1, <2>3, NoSteps DEF InTouch
<1> QED
  BY <1>9, <1>10

\* An index that has just been read from the table.
LEMMA ImageInTouch ==
    ASSUME TypeInv
    PROVE  /\ Keyed(Image(rows), rows, nextKey)
           /\ OneLength(Image(rows))
           /\ Tracking(Image(rows), rows, {}, {})
<1> PICK index : index = Image(rows)
  OBVIOUS
<1>1. rows \in SUBSET Row /\ ApartRows(rows) /\ KeysBelow(rows, nextKey)
  BY DEF TypeInv, TableInv
<1>2. /\ \E d : \A e \in index : e.emb.dim = d
      /\ \A e \in index : \E r \in Embedded(rows) :
                 \/ e = [key |-> r.key, id |-> r.id, emb |-> r.emb]
                 \/ e = [key |-> r.key, id |-> r.id, emb |-> e.emb] /\ e.emb.vec = Garbled
      /\ \A r \in Embedded(rows) : \E e \in index :
                 \/ e = [key |-> r.key, id |-> r.id, emb |-> r.emb]
                 \/ e.id = r.id /\ e.emb.vec = Garbled
  BY <1>1, ImageEntries
<1>3. OneLength(index)
  BY <1>2 DEF OneLength
<1>4. \A e \in index : \E r \in rows : e.key = r.key /\ e.id = r.id
  BY <1>2 DEF Embedded
<1>5. \A e, f \in index : e.key = f.key => e = f
  <2> DEFINE first == CHOOSE s \in Embedded(rows) : \A y \in Embedded(rows) : s.key <= y.key
             inStep(r) == \A s \in Embedded(rows) : s.key <= r.key => s.emb.dim = first.emb.dim
             entry(r) == [key |-> r.key, id |-> r.id,
                          emb |-> IF inStep(r) THEN r.emb ELSE [dim |-> first.emb.dim, vec |-> Garbled]]
  <2>1. index = {entry(r) : r \in Embedded(rows)}
    BY DEF Image
  <2>2. \A r \in Embedded(rows) : entry(r).key = r.key
    OBVIOUS
  <2> HIDE DEF entry
  <2>3. \A r, s \in Embedded(rows) : r.key = s.key => r = s
    BY <1>1 DEF ApartRows, Embedded
  <2> QED
    BY <2>1, <2>2, <2>3
<1>6. Keyed(index, rows, nextKey)
  BY <1>1, <1>4, <1>5 DEF Keyed, ApartRows, KeysBelow
<1>7. \A c : Tracked(index, rows, c)
  BY <1>1, <1>4 DEF Tracked, ApartRows, StoredIds
<1>8. \A c : Follows(index, rows, c)
  BY <1>2 DEF Follows, Covered, EntryOf
<1> QED
  BY <1>3, <1>6, <1>7, <1>8 DEF Tracking

LEMMA RebuildTouch ==
    ASSUME TypeInv, NEW h \in Handle, RebuildVectorIndex(h)
    PROVE  InTouch(handle'[h], rows', nextKey', foreign'[h])
<1>1. /\ UNCHANGED <<rows, nextKey>> /\ handle'[h].index = Image(rows) /\ foreign'[h] = {}
      /\ handle'[h].todo = Tail(handle[h].todo) /\ Tail(handle[h].todo) \in Seq(Later)
  BY RebuildEffect DEF Becomes, RebuildVectorIndex, Updates
<1>2. /\ ~Begins(handle'[h], "index") /\ ~Begins(handle'[h], "embed") /\ Pending(handle'[h]) = {}
  BY <1>1, LaterSteps DEF Begins, Pending, Later, First
<1> QED
  BY <1>1, <1>2, ImageInTouch DEF InTouch

-----------------------------------------------------------------------------
(* The sidecar: which steps write it, and in which order.                  *)

Writes(steps) == \E i \in 1..Len(steps) : steps[i] = "write"

LEMMA WritesJoined ==
    ASSUME NEW s \in Seq(Step), NEW t \in Seq(Step), Writes(s) \/ Writes(t)
    PROVE  Writes(s \o t)
<1>1. /\ Len(s) \in Nat /\ Len(t) \in Nat
      /\ Len(s \o t) = Len(s) + Len(t)
      /\ \A i \in 1..Len(s) : (s \o t)[i] = s[i]
      /\ \A i \in 1..Len(t) : (s \o t)[Len(s) + i] = t[i]
  OBVIOUS
<1>2. ASSUME NEW i \in 1..Len(s), s[i] = "write" PROVE Writes(s \o t)
  <2>1. i \in 1..Len(s \o t) /\ (s \o t)[i] = "write"
    BY <1>1, <1>2
  <2> QED
    BY <2>1 DEF Writes
<1>3. ASSUME NEW i \in 1..Len(t), t[i] = "write" PROVE Writes(s \o t)
  <2>1. Len(s) + i \in 1..Len(s \o t) /\ (s \o t)[Len(s) + i] = "write"
    BY <1>1, <1>3
  <2> QED
    BY <2>1 DEF Writes
<1> QED
  BY <1>2, <1>3 DEF Writes

LEMMA WritesLater ==
    ASSUME NEW s \in Seq(Step), s # << >>, Writes(s), Head(s) # "write"
    PROVE  Writes(Tail(s))
<1>1. /\ Len(s) \in Nat \ {0} /\ Head(s) = s[1]
      /\ Len(Tail(s)) = Len(s) - 1
      /\ \A i \in 1..(Len(s) - 1) : Tail(s)[i] = s[i + 1]
  OBVIOUS
<1>2. PICK i \in 1..Len(s) : s[i] = "write"
  BY DEF Writes
<1>3. i - 1 \in 1..(Len(s) - 1) /\ (i - 1) + 1 = i
  BY <1>1, <1>2
<1>4. Tail(s)[i - 1] = "write"
  BY <1>1, <1>2, <1>3
<1> QED
  BY <1>1, <1>3, <1>4 DEF Writes

LEMMA SaveWrites ==
    ASSUME config.persist
    PROVE  Writes(Save)
<1> PICK s : s = <<"truncate", "write">>
  OBVIOUS
<1>1. Len(s) = 2 /\ s[2] = "write" /\ 2 \in 1..2
  OBVIOUS
<1> QED
  BY <1>1 DEF Save, Writes

\* A call that rebuilds the index does so before it writes the sidecar, and writes it then.
LEMMA RefreshingTails ==
    ASSUME NEW t \in Refreshing
    PROVE  /\ t # << >> /\ Head(t) \in {"docrow", "prune", "rebuild"}
           /\ Head(t) = "rebuild" => ~Rebuilds(Tail(t)) /\ (config.persist => Writes(Tail(t)))
           /\ Head(t) # "rebuild" => Tail(t) \in Refreshing
<1> DEFINE rest == <<"refilter">> \o Save
           more == rest \o <<"vacuum">>
<1>1. /\ {"rebuild", "refilter", "vacuum", "docrow", "prune"} \subseteq Step
      /\ <<"refilter">> \in Seq(Later) /\ <<"vacuum">> \in Seq(Later) /\ Save \in Seq(Later)
      /\ Refresh \in Seq(Later)
  BY SaveSteps DEF Step, Later, First
<1>2. /\ rest \in Seq(Later) /\ ~Rebuilds(rest)
      /\ more \in Seq(Later) /\ ~Rebuilds(more)
  <2>1. ~Rebuilds(<<"refilter">>) /\ ~Rebuilds(<<"vacuum">>)
    BY <1>1, OneStep
  <2>2. rest \in Seq(Later) /\ ~Rebuilds(rest)
    BY <1>1, <2>1, SaveSteps, Joined
  <2> HIDE DEF rest
  <2> QED
    BY <1>1, <2>1, <2>2, Joined
<1>3. config.persist => Writes(rest) /\ Writes(more)
  <2> SUFFICES ASSUME config.persist PROVE Writes(rest) /\ Writes(more)
    OBVIOUS
  <2>1. Save \in Seq(Step) /\ <<"refilter">> \in Seq(Step) /\ <<"vacuum">> \in Seq(Step) /\ rest \in Seq(Step)
    BY <1>1, <1>2, LaterSteps
  <2>2. Writes(rest)
    BY <2>1, SaveWrites, WritesJoined
  <2> HIDE DEF rest
  <2> QED
    BY <2>1, <2>2, WritesJoined
<1>4. Refresh = <<"rebuild">> \o rest
  BY <1>1 DEF Refresh, Later
<1>5. Refresh \o <<"vacuum">> = <<"rebuild">> \o more
  <2>1. rest \in Seq(Step) /\ <<"rebuild">> \in Seq(Step) /\ <<"vacuum">> \in Seq(Step)
    BY <1>1, <1>2, LaterSteps
  <2> HIDE DEF rest
  <2> QED
    BY <1>4, <2>1
<1> HIDE DEF rest, more
<1>6. CASE t = Refresh
  BY <1>1, <1>2, <1>3, <1>4, <1>6, FirstThen
<1>7. CASE t = Refresh \o <<"vacuum">>
  <2>1. t = <<"rebuild">> \o more
    BY <1>5, <1>7
  <2>2. "rebuild" \in Step /\ more \in Seq(Later)
    BY <1>1, <1>2
  <2>3. t # << >> /\ Head(t) = "rebuild" /\ Tail(t) = more
    BY <2>1, <2>2, FirstThen, Zenon
  <2> QED
    BY <1>2, <1>3, <2>3
<1>8. CASE t = <<"docrow">> \o Refresh
  BY <1>1, <1>8, FirstThen DEF Refreshing
<1>9. CASE t = <<"prune">> \o (Refresh \o <<"vacuum">>)
  <2>1. Refresh \o <<"vacuum">> \in Seq(Later)
    BY <1>1, Joined
  <2> QED
    BY <1>1, <1>9, <2>1, FirstThen DEF Refreshing
<1> QED
  BY <1>6, <1>7, <1>8, <1>9 DEF Refreshing

\* What is left of a call, so far as it matters to the sidecar.
CallShape(steps) ==
    /\ Rebuilds(steps) => steps \in Refreshing
    /\ steps # << >> /\ Head(steps) = "embed" => steps = <<"embed">>
    /\ steps # << >> /\ Head(steps) = "index" => steps = <<"index">> \o Save

ShapeInv == \A h \in Handle : handle[h].open => CallShape(handle[h].todo)

LEMMA ShapeOfTail ==
    ASSUME HandleInv, NEW h \in Handle, handle[h].todo # << >>, CallShape(handle[h].todo)
    PROVE  CallShape(Tail(handle[h].todo))
<1> PICK todo, tail : todo = handle[h].todo /\ tail = Tail(todo)
  OBVIOUS
<1>1. tail \in Seq(Later)
  BY Remaining
<1>2. tail # << >> => Head(tail) \notin {"index", "embed"}
  BY <1>1, LaterSteps DEF Later, First
<1>3. ASSUME Rebuilds(tail) PROVE tail \in Refreshing
  <2>1. CASE Head(todo) # "rebuild"
    <3>1. todo \in Refreshing
      BY <1>3, <2>1, TailSteps DEF CallShape
    <3> QED
      BY <2>1, <3>1, RefreshingTails
  <2>2. CASE Head(todo) = "rebuild"
    <3>1. Rebuilds(todo)
      <4>1. todo \in Seq(Step) /\ todo # << >>
        BY Remaining DEF HandleState
      <4>2. 1 \in 1..Len(todo) /\ todo[1] = "rebuild"
        BY <2>2, <4>1
      <4> QED
        BY <4>2 DEF Rebuilds
    <3>2. todo \in Refreshing
      BY <3>1 DEF CallShape
    <3> QED
      BY <1>3, <2>2, <3>2, RefreshingTails
  <2> QED
    BY <2>1, <2>2
<1> QED
  BY <1>2, <1>3 DEF CallShape

\* Only a commit makes the sidecar old, and with a rollback journal every commit does.
SideUntouched ==
    /\ side' = side
    /\ fresh' => fresh
    /\ fresh' /\ ~config.wal => rows' = rows /\ nextKey' = nextKey

LEMMA CommitUntouched ==
    ASSUME NEW h, NEW cs, Commits(h, cs)
    PROVE  (fresh' => fresh) /\ (fresh' => config.wal)
BY DEF Commits

LEMMA CallsUntouched ==
    ASSUME NEW h \in Handle,
           \/ \E batch \in Batches : Ingest(h, batch)
           \/ \E batch \in Texts : IngestText(h, batch)
           \/ \E c \in Chunk, m \in Meta : UpdateMetadata(h, c, m)
           \/ \E c \in Chunk, e \in Embeddings : UpdateEmbedding(h, c, e)
           \/ \E d \in Doc : DeleteByDocId(h, d)
           \/ \E m \in Meta : DeleteByMetadata(h, m)
           \/ Compact(h)
    PROVE  SideUntouched /\ config' = config
<1>1. ASSUME NEW batch, Ingest(h, batch) \/ IngestText(h, batch)
      PROVE  SideUntouched /\ config' = config
  BY <1>1, CommitUntouched DEF Ingest, IngestText, Upserts, SideUntouched
<1>2. ASSUME NEW c, NEW m, UpdateMetadata(h, c, m)
      PROVE  SideUntouched /\ config' = config
  BY <1>2, CommitUntouched DEF UpdateMetadata, SideUntouched
<1>3. ASSUME NEW c, NEW e, UpdateEmbedding(h, c, e)
      PROVE  SideUntouched /\ config' = config
  BY <1>3 DEF UpdateEmbedding, SideUntouched
<1>4. ASSUME NEW gone, NEW before, NEW after, NEW arg, Deletes(h, gone, before, after, arg)
      PROVE  SideUntouched /\ config' = config
  <2>1. CASE gone = {}
    BY <1>4, <2>1 DEF Deletes, SideUntouched
  <2>2. CASE gone # {}
    BY <1>4, <2>2, CommitUntouched DEF Deletes, SideUntouched
  <2> QED
    BY <2>1, <2>2
<1>5. ASSUME \/ \E d \in Doc : DeleteByDocId(h, d)
             \/ \E m \in Meta : DeleteByMetadata(h, m)
             \/ Compact(h)
      PROVE  SideUntouched /\ config' = config
  BY <1>4, <1>5 DEF DeleteByDocId, DeleteByMetadata, Compact
<1> QED
  BY <1>1, <1>2, <1>3, <1>5

LEMMA StepsUntouched ==
    ASSUME TypeInv, NEW h \in Handle,
           \/ IndexBatch(h) \/ FilterText(h) \/ FilterMetadata(h) \/ Embed(h)
           \/ DeleteDocumentRow(h) \/ PruneDocuments(h)
           \/ RebuildVectorIndex(h) \/ RebuildFilterIndex(h) \/ Vacuum(h)
    PROVE  SideUntouched /\ config' = config
<1>1. CASE IndexBatch(h) \/ FilterText(h) \/ FilterMetadata(h) \/ RebuildVectorIndex(h) \/ RebuildFilterIndex(h)
  BY <1>1 DEF IndexBatch, FilterText, FilterMetadata, RebuildVectorIndex, RebuildFilterIndex, Updates, SideUntouched
<1>2. CASE Embed(h)
  <2>1. PICK x : /\ UNCHANGED <<config, nextKey, side>>
                 /\ rows' = {IF r.id = x.id THEN [r EXCEPT !.emb = x.emb] ELSE r : r \in rows}
                 /\ IF x.id \in StoredIds(rows) THEN Commits(h, {x.id}) ELSE UNCHANGED <<wal, fresh, foreign>>
    BY <1>2 DEF Embed
  <2>2. CASE x.id \in StoredIds(rows)
    BY <2>1, <2>2, CommitUntouched DEF SideUntouched
  <2>3. CASE x.id \notin StoredIds(rows)
    <3>1. rows' = rows
      BY <2>1, <2>3 DEF StoredIds
    <3> QED
      BY <2>1, <2>3, <3>1 DEF SideUntouched
  <2> QED
    BY <2>2, <2>3
<1>3. CASE DeleteDocumentRow(h) \/ PruneDocuments(h)
  <2>1. rows' = rows
    BY <1>3, DropDocsEffect
  <2>2. PICK gone : DropDocs(h, gone)
    BY <1>3 DEF DeleteDocumentRow, PruneDocuments
  <2>3. CASE gone = {}
    BY <2>1, <2>2, <2>3 DEF DropDocs, SideUntouched
  <2>4. CASE gone # {}
    BY <2>1, <2>2, <2>4, CommitUntouched DEF DropDocs, SideUntouched
  <2> QED
    BY <2>3, <2>4
<1>4. CASE Vacuum(h)
  <2>1. fresh' \in {fresh, FALSE} /\ UNCHANGED <<config, rows, docs, nextKey, side, foreign>>
    BY <1>4 DEF Vacuum
  <2>2. fresh' = fresh \/ fresh' = FALSE
    BY <2>1
  <2>3. fresh' => fresh
    BY <2>2, Zenon
  <2> QED
    BY <2>1, <2>3 DEF SideUntouched
<1> QED
  BY <1>1, <1>2, <1>3, <1>4

LEMMA LifeUntouched ==
    ASSUME Crash \/ \E h \in Handle : Open(h) \/ Close(h)
    PROVE  SideUntouched /\ config' = config
BY DEF Crash, Open, Close, SideUntouched

LEMMA ConfigStays ==
    ASSUME TypeInv, [Next]_vars
    PROVE  config' = config
<1>1. ASSUME NEW h \in Handle, TruncateSidecar(h) \/ WriteSidecar(h) PROVE config' = config
  BY <1>1 DEF TruncateSidecar, WriteSidecar
<1>2. CASE UNCHANGED vars
  BY <1>2 DEF vars
<1> QED
  BY <1>1, <1>2, CallsUntouched, StepsUntouched, LifeUntouched DEF Next

LEMMA ShapeSet ==
    ASSUME ShapeInv, NEW h \in Handle, config' = config,
           \A g \in Handle \ {h} : handle'[g] = handle[g],
           handle'[h].open => CallShape(handle'[h].todo)
    PROVE  ShapeInv'
<1>1. \A steps : CallShape(steps) => CallShape(steps)'
  BY DEF CallShape, Refreshing, Refresh, Save
<1> QED
  BY <1>1 DEF ShapeInv

LEMMA PlainShape ==
    /\ \A x \in {"filter", "metadata", "embed"} : CallShape(<<x>>)
    /\ CallShape(<<"index">> \o Save)
    /\ CallShape(Save)
    /\ CallShape(<< >>)
    /\ CallShape(<<"refilter">>) /\ CallShape(Save \o <<"refilter">>)
<1>1. ASSUME NEW x \in Step \ {"rebuild", "index"} PROVE CallShape(<<x>>)
  BY <1>1, OneStep DEF CallShape
<1>2. CallShape(<<"index">> \o Save)
  <2>1. "index" \in Step
    BY DEF Step
  <2> QED
    BY <2>1, SaveSteps, FirstThen DEF CallShape
<1>3. ASSUME NEW s \in Seq(Later), ~Rebuilds(s) PROVE CallShape(s)
  BY <1>3, LaterSteps DEF CallShape, Later, First
<1>4. Save \o <<"refilter">> \in Seq(Later) /\ ~Rebuilds(Save \o <<"refilter">>)
  <2>1. <<"refilter">> \in Seq(Later) /\ ~Rebuilds(<<"refilter">>)
    BY OneStep DEF Step, Later, First
  <2> QED
    BY <2>1, SaveSteps, Joined
<1>5. << >> \in Seq(Later) /\ ~Rebuilds(<< >>)
  BY DEF Rebuilds
<1> QED
  BY <1>1, <1>2, <1>3, <1>4, <1>5, SaveSteps DEF Step

LEMMA ShapeKept ==
    ASSUME TypeInv, ShapeInv, [Next]_vars
    PROVE  ShapeInv'
<1>1. config' = config
  BY ConfigStays
<1>2. ASSUME NEW h \in Handle, NEW cs, NEW index, NEW filter, NEW steps, NEW arg,
             Effect(h, cs, index, filter, steps, arg), CallShape(steps)
      PROVE  ShapeInv'
  BY <1>1, <1>2, ShapeSet DEF Effect, Becomes
<1>3. CASE Crash
  BY <1>3, CrashEffect DEF ShapeInv
<1>4. ASSUME NEW h \in Handle, Open(h) PROVE ShapeInv'
  <2>1. PICK steps : /\ \A g \in Handle \ {h} : handle'[g] = handle[g]
                     /\ handle'[h].todo = steps
                     /\ steps = <<"refilter">> \/ steps = Save \o <<"refilter">>
    BY <1>4, OpenEffect DEF Becomes
  <2>2. CallShape(steps)
    BY <2>1, PlainShape
  <2> QED
    BY <1>1, <2>1, <2>2, ShapeSet
<1>5. ASSUME NEW h \in Handle, Close(h) PROVE ShapeInv'
  BY <1>1, <1>5, CloseEffect, ShapeSet
<1>6. ASSUME NEW h \in Handle, NEW batch \in Batches, Ingest(h, batch) PROVE ShapeInv'
  BY <1>2, <1>6, IngestEffect, PlainShape
<1>7. ASSUME NEW h \in Handle, NEW batch \in Texts, IngestText(h, batch) PROVE ShapeInv'
  BY <1>2, <1>7, IngestTextEffect, PlainShape
<1>8. ASSUME NEW h \in Handle, NEW c \in Chunk, NEW m \in Meta, UpdateMetadata(h, c, m) PROVE ShapeInv'
  BY <1>2, <1>8, UpdateMetadataEffect, PlainShape
<1>9. ASSUME NEW h \in Handle, NEW c \in Chunk, NEW e \in Embeddings, UpdateEmbedding(h, c, e) PROVE ShapeInv'
  BY <1>2, <1>9, UpdateEmbeddingEffect, PlainShape
<1>10. ASSUME NEW h \in Handle,
              \/ \E d \in Doc : DeleteByDocId(h, d)
              \/ \E m \in Meta : DeleteByMetadata(h, m)
              \/ Compact(h)
       PROVE  ShapeInv'
  <2>1. PICK gone, steps, arg :
           /\ Effect(h, StoredIds(gone), handle[h].index, handle[h].filter, steps, arg)
           /\ Rebuilds(steps) => steps \in Refreshing
           /\ steps # << >> => Head(steps) \notin {"index", "embed"}
    BY <1>10, DeletionsEffect
  <2>2. CallShape(steps)
    BY <2>1 DEF CallShape
  <2> QED
    BY <1>2, <2>1, <2>2
<1>11. ASSUME NEW h \in Handle,
              \/ IndexBatch(h) \/ FilterText(h) \/ FilterMetadata(h)
              \/ DeleteDocumentRow(h) \/ PruneDocuments(h)
              \/ RebuildVectorIndex(h) \/ RebuildFilterIndex(h)
              \/ TruncateSidecar(h) \/ WriteSidecar(h) \/ Vacuum(h)
       PROVE  ShapeInv'
  <2>1. handle[h].open /\ handle[h].todo # << >>
    BY <1>11 DEF IndexBatch, FilterText, FilterMetadata, DeleteDocumentRow, PruneDocuments,
                 RebuildVectorIndex, RebuildFilterIndex, TruncateSidecar, WriteSidecar, Vacuum, Doing
  <2>2. CallShape(Tail(handle[h].todo))
    BY <2>1, TypeParts, ShapeOfTail DEF ShapeInv
  <2>3. \/ \E index, filter : Effect(h, {}, index, filter, Tail(handle[h].todo), << >>)
        \/ Becomes(h, TRUE, Image(rows), handle[h].filter, Tail(handle[h].todo), << >>)
    BY <1>11, IndexBatchEffect, SideStepEffect, DropDocsEffect, RebuildEffect
  <2> QED
    BY <1>1, <1>2, <2>2, <2>3, ShapeSet DEF Becomes
<1>12. ASSUME NEW h \in Handle, Embed(h) PROVE ShapeInv'
  BY <1>2, <1>12, EmbedEffect, PlainShape
<1>13. CASE UNCHANGED vars
  BY <1>13 DEF vars, ShapeInv, CallShape, Refreshing, Refresh, Save
<1> QED
  BY <1>3, <1>4, <1>5, <1>6, <1>7, <1>8, <1>9, <1>10, <1>11, <1>12, <1>13 DEF Next

-----------------------------------------------------------------------------
(* The sidecar and the table.                                              *)

\* A vector index that can stand for the table.
Held(index, t, k) == Keyed(index, t, k) /\ OneLength(index) /\ Tracking(index, t, {}, {})

\* With a rollback journal a sidecar that is not old stands for the table.  With
\* a write-ahead log, where commits do not make it old, it is the index of the
\* handle that is open, unless that is still going to write it.
SideInv ==
    config.persist =>
        /\ \A g, h \in Handle : handle[g].open /\ handle[h].open => g = h
        /\ \A h \in Handle : handle[h].open => foreign[h] = {}
        /\ side.whole /\ fresh =>
              /\ ~config.wal \/ (\A h \in Handle : ~handle[h].open) => Held(side.entries, rows, nextKey)
              /\ config.wal => \A h \in Handle :
                    handle[h].open => handle[h].index = side.entries \/ Writes(handle[h].todo)

\* Where sidecars are kept, handles do not overlap, and with a write-ahead log
\* the process is not killed.
SafeSidecars == \A c \in Configs : c.persist => ~c.shared /\ (c.wal => ~c.crashes)

\* An action of handle h that does not write the sidecar.
LEMMA SideStays ==
    ASSUME SideInv, SideUntouched, config' = config,
           NEW h \in Handle, handle[h].open, handle'[h].open,
           \A g \in Handle \ {h} : handle'[g] = handle[g],
           foreign'[h] \in {foreign[h], {}},
           config.persist => \/ handle'[h].index = handle[h].index
                                /\ (Writes(handle[h].todo) => Writes(handle'[h].todo))
                             \/ Writes(handle'[h].todo)
    PROVE  SideInv'
<1> SUFFICES ASSUME config.persist
             PROVE  /\ \A f, g \in Handle : handle'[f].open /\ handle'[g].open => f = g
                    /\ \A g \in Handle : handle'[g].open => foreign'[g] = {}
                    /\ side'.whole /\ fresh' =>
                          /\ ~config.wal => Held(side.entries, rows', nextKey')
                          /\ config.wal => handle'[h].index = side.entries \/ Writes(handle'[h].todo)
  BY DEF SideInv, SideUntouched
<1>1. \A g \in Handle \ {h} : ~handle'[g].open
  BY DEF SideInv
<1>2. foreign'[h] = {}
  BY DEF SideInv
<1>3. ASSUME side'.whole, fresh', ~config.wal PROVE Held(side.entries, rows', nextKey')
  <2>1. side.whole /\ fresh /\ rows' = rows /\ nextKey' = nextKey
    BY <1>3 DEF SideUntouched
  <2> QED
    BY <1>3, <2>1 DEF SideInv
<1>4. ASSUME side'.whole, fresh', config.wal
      PROVE  handle'[h].index = side.entries \/ Writes(handle'[h].todo)
  <2>1. side.whole /\ fresh
    BY <1>4 DEF SideUntouched
  <2> QED
    BY <1>4, <2>1 DEF SideInv
<1> QED
  BY <1>1, <1>2, <1>3, <1>4

\* As an Effect.
LEMMA SideAfter ==
    ASSUME SideInv, SideUntouched, config' = config, NEW h \in Handle, handle[h].open,
           NEW cs, NEW index, NEW filter, NEW steps, NEW arg,
           Effect(h, cs, index, filter, steps, arg),
           config.persist => \/ index = handle[h].index /\ (Writes(handle[h].todo) => Writes(steps))
                             \/ Writes(steps)
    PROVE  SideInv'
BY SideStays DEF Effect, Becomes, Noted

LEMMA NoWrites ==
    /\ ~Writes(<< >>)
    /\ ~Writes(<<"embed">>)
<1>1. ~Writes(<< >>)
  BY DEF Writes
<1>2. ~Writes(<<"embed">>)
  <2> PICK s : s = <<"embed">>
    OBVIOUS
  <2>1. Len(s) = 1 /\ s[1] = "embed" /\ \A i \in 1..1 : i = 1
    OBVIOUS
  <2> QED
    BY <2>1 DEF Writes
<1> QED
  BY <1>1, <1>2

LEMMA SideCalls ==
    ASSUME TypeInv, SideInv, NEW h \in Handle,
           \/ \E batch \in Batches : Ingest(h, batch)
           \/ \E batch \in Texts : IngestText(h, batch)
           \/ \E c \in Chunk, m \in Meta : UpdateMetadata(h, c, m)
           \/ \E c \in Chunk, e \in Embeddings : UpdateEmbedding(h, c, e)
           \/ \E d \in Doc : DeleteByDocId(h, d)
           \/ \E m \in Meta : DeleteByMetadata(h, m)
           \/ Compact(h)
    PROVE  SideInv'
<1>1. SideUntouched /\ config' = config
  BY CallsUntouched
<1>2. handle[h].open /\ ~Writes(handle[h].todo)
  BY NoWrites DEF Ingest, IngestText, UpdateMetadata, UpdateEmbedding, DeleteByDocId, DeleteByMetadata,
                  Compact, Deletes, Idle
<1>3. \E cs, filter, steps, arg : Effect(h, cs, handle[h].index, filter, steps, arg)
  <2>1. ASSUME NEW batch \in Batches, Ingest(h, batch)
        PROVE  \E cs, filter, steps, arg : Effect(h, cs, handle[h].index, filter, steps, arg)
    BY <2>1, IngestEffect
  <2>2. ASSUME NEW batch \in Texts, IngestText(h, batch)
        PROVE  \E cs, filter, steps, arg : Effect(h, cs, handle[h].index, filter, steps, arg)
    BY <2>2, IngestTextEffect
  <2>3. ASSUME NEW c \in Chunk, NEW m \in Meta, UpdateMetadata(h, c, m)
        PROVE  \E cs, filter, steps, arg : Effect(h, cs, handle[h].index, filter, steps, arg)
    BY <2>3, UpdateMetadataEffect
  <2>4. ASSUME NEW c \in Chunk, NEW e \in Embeddings, UpdateEmbedding(h, c, e)
        PROVE  \E cs, filter, steps, arg : Effect(h, cs, handle[h].index, filter, steps, arg)
    BY <2>4, UpdateEmbeddingEffect
  <2>5. ASSUME \/ \E d \in Doc : DeleteByDocId(h, d)
               \/ \E m \in Meta : DeleteByMetadata(h, m)
               \/ Compact(h)
        PROVE  \E cs, filter, steps, arg : Effect(h, cs, handle[h].index, filter, steps, arg)
    BY <2>5, DeletionsEffect
  <2> QED
    BY <2>1, <2>2, <2>3, <2>4, <2>5
<1> QED
  BY <1>1, <1>2, <1>3, SideAfter

LEMMA SideSteps ==
    ASSUME TypeInv, ShapeInv, SideInv, NEW h \in Handle,
           \/ IndexBatch(h) \/ FilterText(h) \/ FilterMetadata(h) \/ Embed(h)
           \/ DeleteDocumentRow(h) \/ PruneDocuments(h)
           \/ RebuildVectorIndex(h) \/ RebuildFilterIndex(h) \/ Vacuum(h)
    PROVE  SideInv'
<1>1. SideUntouched /\ config' = config
  BY StepsUntouched
<1>2. /\ handle[h].open /\ handle[h].todo # << >>
      /\ handle[h].todo \in Seq(Step) /\ CallShape(handle[h].todo)
  <2>1. handle[h].open /\ handle[h].todo # << >>
    BY DEF IndexBatch, FilterText, FilterMetadata, Embed, DeleteDocumentRow, PruneDocuments,
           RebuildVectorIndex, RebuildFilterIndex, Vacuum, Doing
  <2> QED
    BY <2>1, TypeParts, Remaining DEF HandleState, ShapeInv
<1>3. ASSUME IndexBatch(h) PROVE SideInv'
  <2>1. handle[h].todo = <<"index">> \o Save
    BY <1>2, <1>3 DEF CallShape, IndexBatch, Doing
  <2>2. Tail(handle[h].todo) = Save
    <3>1. "index" \in Step /\ Save \in Seq(Later)
      BY SaveSteps DEF Step
    <3> QED
      BY <2>1, <3>1, FirstThen
  <2>3. \E index, filter : Effect(h, {}, index, filter, Save, << >>)
    BY <1>3, <2>2, IndexBatchEffect
  <2> QED
    BY <1>1, <1>2, <2>3, SaveWrites, SideAfter
<1>4. ASSUME Embed(h) PROVE SideInv'
  <2>1. handle[h].todo = <<"embed">>
    BY <1>2, <1>4 DEF CallShape, Embed, Doing
  <2>2. \E cs : \/ \E index : Effect(h, cs, index, handle[h].filter, Save, << >>)
                \/ Effect(h, cs, handle[h].index, handle[h].filter, << >>, << >>)
    BY <1>4, EmbedEffect
  <2> QED
    BY <1>1, <1>2, <2>1, <2>2, SaveWrites, NoWrites, SideAfter
<1>5. ASSUME RebuildVectorIndex(h) PROVE SideInv'
  <2>1. Head(handle[h].todo) = "rebuild"
    BY <1>5 DEF RebuildVectorIndex, Doing
  <2>2. handle[h].todo \in Refreshing
    <3>1. 1 \in 1..Len(handle[h].todo) /\ handle[h].todo[1] = "rebuild"
      BY <1>2, <2>1
    <3> QED
      BY <1>2, <3>1 DEF CallShape, Rebuilds
  <2>3. config.persist => Writes(Tail(handle[h].todo))
    BY <2>1, <2>2, RefreshingTails
  <2>4. /\ handle'[h].open /\ handle'[h].todo = Tail(handle[h].todo)
        /\ foreign'[h] = {} /\ \A g \in Handle \ {h} : handle'[g] = handle[g]
    BY <1>5, RebuildEffect DEF Becomes
  <2> QED
    BY <1>1, <1>2, <2>3, <2>4, SideStays
<1>6. ASSUME \/ FilterText(h) \/ FilterMetadata(h) \/ DeleteDocumentRow(h) \/ PruneDocuments(h)
             \/ RebuildFilterIndex(h) \/ Vacuum(h)
      PROVE  SideInv'
  <2>1. Head(handle[h].todo) # "write"
    BY <1>6 DEF FilterText, FilterMetadata, DeleteDocumentRow, PruneDocuments, RebuildFilterIndex, Vacuum, Doing
  <2>2. Writes(handle[h].todo) => Writes(Tail(handle[h].todo))
    BY <1>2, <2>1, WritesLater
  <2>3. \E filter : Effect(h, {}, handle[h].index, filter, Tail(handle[h].todo), << >>)
    BY <1>6, SideStepEffect, DropDocsEffect
  <2> QED
    BY <1>1, <1>2, <2>2, <2>3, SideAfter
<1> QED
  BY <1>3, <1>4, <1>5, <1>6

LEMMA SideWrites ==
    ASSUME TypeInv, ShapeInv, IndexInv, SideInv, NEW h \in Handle, TruncateSidecar(h) \/ WriteSidecar(h)
    PROVE  SideInv'
<1>1. /\ handle[h].open /\ handle[h].todo # << >>
      /\ UNCHANGED <<config, rows, nextKey, foreign>>
  BY DEF TruncateSidecar, WriteSidecar, Doing
<1>2. /\ \A g \in Handle \ {h} : handle'[g] = handle[g]
      /\ handle'[h].open = handle[h].open /\ handle'[h].index = handle[h].index
  BY SideStepEffect DEF Effect, Becomes
<1>3. config.persist => /\ \A f, g \in Handle : handle'[f].open /\ handle'[g].open => f = g
                        /\ \A g \in Handle : handle'[g].open => foreign'[g] = {}
  BY <1>1, <1>2 DEF SideInv
<1>4. CASE TruncateSidecar(h)
  <2>1. ~side'.whole
    BY <1>4 DEF TruncateSidecar
  <2> QED
    BY <1>1, <1>3, <2>1 DEF SideInv
<1>5. CASE WriteSidecar(h)
  <2>1. Head(handle[h].todo) = "write" /\ side'.entries = handle[h].index
    BY <1>5 DEF WriteSidecar, Doing
  <2>2. ~Rebuilds(handle[h].todo)
    BY <1>1, <2>1, RefreshingTails DEF ShapeInv, CallShape
  <2>3. Pending(handle[h]) = {}
    BY <2>1 DEF Pending, Begins
  <2>4. Held(handle[h].index, rows, nextKey) \/ ~config.persist
    BY <1>1, <2>2, <2>3 DEF IndexInv, InTouch, Held, SideInv
  <2>5. \A g \in Handle : handle'[g].open /\ config.persist => g = h
    BY <1>1, <1>2 DEF SideInv
  <2> QED
    BY <1>1, <1>2, <1>3, <2>1, <2>4, <2>5 DEF SideInv
<1> QED
  BY <1>4, <1>5

LEMMA SideOpen ==
    ASSUME SafeSidecars, TypeInv, SideInv, NEW h \in Handle, Open(h)
    PROVE  SideInv'
<1> SUFFICES ASSUME config.persist PROVE SideInv'
  BY LifeUntouched DEF SideInv
<1>1. SideUntouched /\ config' = config /\ UNCHANGED <<side, fresh, rows, nextKey>>
  BY LifeUntouched DEF Open
<1>2. \A g \in Handle : ~handle[g].open
  BY DEF Open, SafeSidecars, TypeInv
<1>3. /\ handle'[h].open /\ handle'[h].index = (IF LoadsSidecar THEN side.entries ELSE Image(rows))
      /\ \A g \in Handle \ {h} : handle'[g] = handle[g]
      /\ foreign'[h] = {}
  BY OpenEffect DEF Becomes
<1>4. side.whole /\ fresh => handle'[h].index = side.entries
  BY <1>3 DEF LoadsSidecar
<1> QED
  BY <1>1, <1>2, <1>3, <1>4 DEF SideInv

LEMMA SideClose ==
    ASSUME TypeInv, IndexInv, SideInv, NEW h \in Handle, Close(h)
    PROVE  SideInv'
<1> SUFFICES ASSUME config.persist PROVE SideInv'
  BY LifeUntouched DEF SideInv
<1>1. SideUntouched /\ config' = config /\ Idle(h) /\ UNCHANGED <<rows, nextKey>>
  BY LifeUntouched DEF Close
<1>2. ~handle'[h].open /\ \A g \in Handle \ {h} : handle'[g] = handle[g]
  BY CloseEffect
<1>3. \A g \in Handle : ~handle'[g].open
  BY <1>1, <1>2 DEF SideInv, Idle
<1>4. Held(handle[h].index, rows, nextKey)
  <2>1. foreign[h] = {}
    BY <1>1 DEF SideInv, Idle
  <2> QED
    BY <1>1, <2>1, NoSteps DEF IndexInv, InTouch, Held, Idle
<1>5. ~Writes(handle[h].todo)
  BY <1>1, NoWrites DEF Idle
<1>6. side'.whole /\ fresh' => Held(side.entries, rows, nextKey)
  <2> SUFFICES ASSUME side'.whole, fresh' PROVE Held(side.entries, rows, nextKey)
    OBVIOUS
  <2>1. side.whole /\ fresh
    BY <1>1 DEF SideUntouched
  <2>2. CASE config.wal
    BY <1>1, <1>4, <1>5, <2>1, <2>2 DEF SideInv, Idle
  <2>3. CASE ~config.wal
    BY <2>1, <2>3 DEF SideInv
  <2> QED
    BY <2>2, <2>3
<1> QED
  BY <1>1, <1>3, <1>6 DEF SideInv, SideUntouched

LEMMA SideKept ==
    ASSUME SafeSidecars, TypeInv, ShapeInv, IndexInv, SideInv, [Next]_vars
    PROVE  SideInv'
<1>1. CASE Crash
  <2>1. SideUntouched /\ config' = config /\ config.crashes /\ UNCHANGED <<rows, nextKey>>
    BY <1>1, LifeUntouched DEF Crash
  <2>2. \A h \in Handle : ~handle'[h].open
    BY <1>1, CrashEffect
  <2>3. config.persist => ~config.wal
    BY <2>1 DEF SafeSidecars, TypeInv
  <2> QED
    BY <2>1, <2>2, <2>3 DEF SideInv, SideUntouched
<1>2. CASE UNCHANGED vars
  BY <1>2 DEF vars, SideInv
<1> QED
  BY <1>1, <1>2, SideCalls, SideSteps, SideWrites, SideOpen, SideClose DEF Next

-----------------------------------------------------------------------------
(* Every step.                                                             *)

\* What one handle does, the others have been told of.
LEMMA OthersKept ==
    ASSUME TypeInv, IndexInv, NEW h \in Handle, NEW cs, Evolves(cs),
           \A g \in Handle \ {h} : /\ handle'[g] = handle[g]
                                   /\ handle[g].open => foreign'[g] = foreign[g] \cup cs,
           handle'[h].open => InTouch(handle'[h], rows', nextKey', foreign'[h])
    PROVE  IndexInv'
<1>1. ASSUME NEW g \in Handle \ {h}, handle'[g].open
      PROVE  InTouch(handle'[g], rows', nextKey', foreign'[g])
  <2>1. /\ handle'[g] = handle[g] /\ foreign'[g] = foreign[g] \cup cs
        /\ InTouch(handle[g], rows, nextKey, foreign[g])
    BY <1>1 DEF IndexInv
  <2> QED
    BY <2>1, TouchKept
<1> QED
  BY <1>1 DEF IndexInv

LEMMA EffectKept ==
    ASSUME TypeInv, IndexInv, NEW h \in Handle, NEW cs, NEW index, NEW filter, NEW steps, NEW arg,
           Effect(h, cs, index, filter, steps, arg),
           InTouch(handle'[h], rows', nextKey', foreign'[h])
    PROVE  IndexInv'
<1>1. /\ Evolves(cs)
      /\ \A g \in Handle \ {h} : /\ handle'[g] = handle[g]
                                 /\ handle[g].open => foreign'[g] = foreign[g] \cup cs
  BY DEF Effect, Noted, Becomes
<1> QED
  BY <1>1, OthersKept

LEMMA CallsKept ==
    ASSUME TypeInv, IndexInv, NEW h \in Handle,
           \/ \E batch \in Batches : Ingest(h, batch)
           \/ \E batch \in Texts : IngestText(h, batch)
           \/ \E c \in Chunk, m \in Meta : UpdateMetadata(h, c, m)
           \/ \E c \in Chunk, e \in Embeddings : UpdateEmbedding(h, c, e)
           \/ \E d \in Doc : DeleteByDocId(h, d)
           \/ \E m \in Meta : DeleteByMetadata(h, m)
           \/ Compact(h)
    PROVE  IndexInv'
<1>1. Idle(h) /\ InTouch(handle[h], rows, nextKey, foreign[h])
  BY DEF Ingest, IngestText, UpdateMetadata, UpdateEmbedding, DeleteByDocId, DeleteByMetadata,
         Compact, Deletes, Idle, IndexInv
<1>2. ASSUME NEW batch \in Batches, Ingest(h, batch) PROVE IndexInv'
  BY <1>1, <1>2, IngestEffect, IngestTouch, EffectKept
<1>3. ASSUME NEW batch \in Texts, IngestText(h, batch) PROVE IndexInv'
  BY <1>1, <1>3, IngestTextEffect, IngestTextTouch, EffectKept
<1>4. ASSUME NEW c \in Chunk, NEW m \in Meta, UpdateMetadata(h, c, m) PROVE IndexInv'
  BY <1>1, <1>4, UpdateMetadataEffect, UpdateMetadataTouch, EffectKept
<1>5. ASSUME NEW c \in Chunk, NEW e \in Embeddings, UpdateEmbedding(h, c, e) PROVE IndexInv'
  BY <1>1, <1>5, UpdateEmbeddingEffect, UpdateEmbeddingTouch, EffectKept
<1>6. ASSUME \/ \E d \in Doc : DeleteByDocId(h, d)
             \/ \E m \in Meta : DeleteByMetadata(h, m)
             \/ Compact(h)
      PROVE  IndexInv'
  <2>1. InTouch(handle'[h], rows', nextKey', foreign'[h])
    BY <1>1, <1>6, DeletionTouch
  <2>2. \E gone, steps, arg :
           Effect(h, StoredIds(gone), handle[h].index, handle[h].filter, steps, arg)
    BY <1>6, DeletionsEffect
  <2> QED
    BY <2>1, <2>2, EffectKept
<1> QED
  BY <1>2, <1>3, <1>4, <1>5, <1>6

LEMMA StepsKept ==
    ASSUME TypeInv, IndexInv, NEW h \in Handle,
           \/ IndexBatch(h) \/ FilterText(h) \/ FilterMetadata(h) \/ Embed(h)
           \/ DeleteDocumentRow(h) \/ PruneDocuments(h)
           \/ RebuildVectorIndex(h) \/ RebuildFilterIndex(h)
           \/ TruncateSidecar(h) \/ WriteSidecar(h) \/ Vacuum(h)
    PROVE  IndexInv'
<1>1. InTouch(handle[h], rows, nextKey, foreign[h])
  BY DEF IndexBatch, FilterText, FilterMetadata, Embed, DeleteDocumentRow, PruneDocuments,
         RebuildVectorIndex, RebuildFilterIndex, TruncateSidecar, WriteSidecar, Vacuum, Doing, IndexInv
<1>2. ASSUME DeleteDocumentRow(h) \/ PruneDocuments(h) PROVE IndexInv'
  BY <1>1, <1>2, SideStepTouch, DropDocsEffect, EffectKept
<1>3. ASSUME \/ FilterText(h) \/ FilterMetadata(h) \/ RebuildFilterIndex(h)
             \/ TruncateSidecar(h) \/ WriteSidecar(h) \/ Vacuum(h)
      PROVE  IndexInv'
  <2>1. InTouch(handle'[h], rows', nextKey', foreign'[h])
    BY <1>1, <1>3, SideStepTouch
  <2>2. \E filter : Effect(h, {}, handle[h].index, filter, Tail(handle[h].todo), << >>)
    BY <1>3, SideStepEffect
  <2> QED
    BY <2>1, <2>2, EffectKept
<1>4. ASSUME IndexBatch(h) PROVE IndexInv'
  <2>1. InTouch(handle'[h], rows', nextKey', foreign'[h])
    BY <1>1, <1>4, IndexBatchTouch
  <2>2. \E index, filter : Effect(h, {}, index, filter, Tail(handle[h].todo), << >>)
    BY <1>4, IndexBatchEffect
  <2> QED
    BY <2>1, <2>2, EffectKept
<1>5. ASSUME Embed(h) PROVE IndexInv'
  <2>1. InTouch(handle'[h], rows', nextKey', foreign'[h])
    BY <1>1, <1>5, EmbedTouch
  <2>2. \E cs, index, filter, steps : Effect(h, cs, index, filter, steps, << >>)
    BY <1>5, EmbedEffect
  <2> QED
    BY <2>1, <2>2, EffectKept
<1>6. ASSUME RebuildVectorIndex(h) PROVE IndexInv'
  <2>1. InTouch(handle'[h], rows', nextKey', foreign'[h])
    BY <1>6, RebuildTouch
  <2>2. /\ Evolves({})
        /\ \A g \in Handle \ {h} : handle'[g] = handle[g] /\ foreign'[g] = foreign[g] \cup {}
    BY <1>6, RebuildEffect DEF Becomes
  <2> QED
    BY <2>1, <2>2, OthersKept
<1> QED
  BY <1>2, <1>3, <1>4, <1>5, <1>6

\* A handle that trusts the sidecar is alone, and the sidecar stands for the table.
LEMMA OpenHeld ==
    ASSUME SafeSidecars, TypeInv, SideInv, NEW h \in Handle, Open(h)
    PROVE  LET index == IF LoadsSidecar THEN side.entries ELSE Image(rows)
           IN  Held(index, rows, nextKey)
<1>1. CASE LoadsSidecar
  <2>1. config.persist /\ side.whole /\ fresh
    BY <1>1 DEF LoadsSidecar
  <2>2. \A g \in Handle : ~handle[g].open
    BY <2>1 DEF Open, SafeSidecars, TypeInv
  <2> QED
    BY <1>1, <2>1, <2>2 DEF SideInv
<1>2. CASE ~LoadsSidecar
  BY <1>2, ImageInTouch DEF Held
<1> QED
  BY <1>1, <1>2

LEMMA OpenHeldTouch ==
    ASSUME SafeSidecars, TypeInv, SideInv, NEW h \in Handle, Open(h)
    PROVE  InTouch(handle'[h], rows', nextKey', foreign'[h])
<1>1. PICK steps \in Seq(Later) :
         /\ UNCHANGED <<rows, nextKey>> /\ foreign'[h] = {}
         /\ handle'[h].index = (IF LoadsSidecar THEN side.entries ELSE Image(rows))
         /\ handle'[h].todo = steps
  BY OpenEffect DEF Becomes, Open
<1>2. /\ ~Begins(handle'[h], "index") /\ ~Begins(handle'[h], "embed") /\ Pending(handle'[h]) = {}
  BY <1>1, LaterSteps DEF Begins, Pending, Later, First
<1>3. Held(handle'[h].index, rows, nextKey)
  BY <1>1, OpenHeld
<1> QED
  BY <1>1, <1>2, <1>3 DEF InTouch, Held

LEMMA IndexKept ==
    ASSUME SafeSidecars, TypeInv, IndexInv, SideInv, [Next]_vars
    PROVE  IndexInv'
<1>1. CASE Crash
  BY <1>1, CrashEffect DEF IndexInv
<1>2. ASSUME NEW h \in Handle, Open(h) PROVE IndexInv'
  <2>1. /\ Evolves({})
        /\ \A g \in Handle \ {h} : handle'[g] = handle[g] /\ foreign'[g] = foreign[g] \cup {}
    BY <1>2, OpenEffect DEF Becomes
  <2> QED
    BY <1>2, <2>1, OpenHeldTouch, OthersKept
<1>3. ASSUME NEW h \in Handle, Close(h) PROVE IndexInv'
  <2>1. /\ Evolves({}) /\ ~handle'[h].open
        /\ \A g \in Handle \ {h} : handle'[g] = handle[g] /\ foreign'[g] = foreign[g] \cup {}
    BY <1>3, CloseEffect
  <2> QED
    BY <2>1, OthersKept
<1>4. CASE UNCHANGED vars
  BY <1>4 DEF vars, IndexInv
<1> QED
  BY <1>1, <1>2, <1>3, <1>4, CallsKept, StepsKept DEF Next

\* The inductive invariant of the indexes and the sidecar.
StoreInv == TypeInv /\ ShapeInv /\ IndexInv /\ SideInv

(***************************************************************************)
(* What a handle or the sidecar holds and the table have not come apart,   *)
(* in every state of SqlRite's calls, but for what the calls still owe.    *)
(***************************************************************************)
THEOREM StoreInvariant ==
    ASSUME SafeSidecars
    PROVE  Spec => []StoreInv
<1>1. Init => ShapeInv /\ IndexInv /\ SideInv
  BY ClosedTyped DEF Init, ShapeInv, IndexInv, SideInv
<1>2. TypeInv /\ ShapeInv /\ IndexInv /\ SideInv /\ [Next]_vars => ShapeInv' /\ IndexInv' /\ SideInv'
  BY ShapeKept, IndexKept, SideKept
<1> QED
  BY <1>1, <1>2, TypesInvariant, PTL DEF Spec, StoreInv

\* An index that is in touch with the table mirrors it, when nothing has been
\* stored that the index cannot hold.
LEMMA TouchMirrors ==
    ASSUME NEW index \in SUBSET Entry, NEW t, NEW k, NEW others,
           Keyed(index, t, k), OneLength(index), Tracking(index, t, others, {}),
           OneDimension(index, t)
    PROVE  Mirrors(index, t, Chunk \ others)
<1> SUFFICES ASSUME NEW c \in Chunk \ others
             PROVE  /\ \A r \in Embedded(t) :
                          r.id = c => {e \in index : e.id = c} = {[key |-> r.key, id |-> c, emb |-> r.emb]}
                    /\ c \notin StoredIds(t) => \A e \in index : e.id # c
  BY DEF Mirrors
<1>1. Tracked(index, t, c) /\ Follows(index, t, c)
  BY DEF Tracking
<1>2. ASSUME NEW r \in Embedded(t), r.id = c
      PROVE  {e \in index : e.id = c} = {[key |-> r.key, id |-> c, emb |-> r.emb]}
  <2>1. EntryOf(r) \in index
    <3>1. \A e \in index : e.emb.dim = r.emb.dim /\ e.emb.vec # Garbled
      BY DimensionOf DEF OneDimension
    <3> QED
      BY <1>1, <1>2, <3>1 DEF Follows, Covered
  <2>2. \A e \in index : e.id = c => e.key = r.key
    BY <1>1, <1>2 DEF Tracked, Embedded
  <2>3. EntryOf(r) = [key |-> r.key, id |-> c, emb |-> r.emb]
    BY <1>2 DEF EntryOf
  <2>4. \A e \in index : e.id = c => e = EntryOf(r)
    BY <2>1, <2>2, <2>3 DEF Keyed
  <2>5. EntryOf(r).id = c
    BY <2>3
  <2> QED
    BY <2>1, <2>3, <2>4, <2>5
<1> QED
  BY <1>1, <1>2 DEF Tracked

(***************************************************************************)
(* Between calls the vector index of each handle mirrors the table, for    *)
(* any number of handles that interleave the statements of their calls:    *)
(* SqlRite of src/src/lib.rs, where handles that keep a sidecar do not     *)
(* overlap, and are not killed while they use a write-ahead log.           *)
(***************************************************************************)
THEOREM IndexesMirrorTable ==
    ASSUME SafeSidecars
    PROVE  Spec => []VectorIndexFaithful
<1>1. StoreInv => VectorIndexFaithful
  <2> SUFFICES ASSUME StoreInv, NEW h \in Handle, Idle(h), OneDimension(handle[h].index, rows)
               PROVE  Mirrors(handle[h].index, rows, Chunk \ foreign[h])
    BY DEF VectorIndexFaithful
  <2>1. /\ Keyed(handle[h].index, rows, nextKey) /\ handle[h].index \in SUBSET Entry
        /\ OneLength(handle[h].index) /\ Tracking(handle[h].index, rows, foreign[h], {})
    BY NoSteps DEF StoreInv, Idle, IndexInv, InTouch, TypeInv, HandleState
  <2> QED
    BY <2>1, TouchMirrors
<1> QED
  BY <1>1, StoreInvariant, PTL

(***************************************************************************)
(* A handle that opens starts with an index that mirrors the table, read   *)
(* from it or from a sidecar that an earlier, perhaps killed, process has  *)
(* left (from_connection_with_config() of src/src/lib.rs), under the same  *)
(* restriction.                                                            *)
(***************************************************************************)
THEOREM OpenedIndexesMirrorTable ==
    ASSUME SafeSidecars
    PROVE  Spec => OpenSeesRows
<1>1. ASSUME StoreInv, NEW h \in Handle, Open(h), OneDimension(handle'[h].index, rows)
      PROVE  Mirrors(handle'[h].index, rows, Chunk)
  <2>1. /\ handle'[h].index = (IF LoadsSidecar THEN side.entries ELSE Image(rows))
        /\ handle'[h].index \in SUBSET Entry
    BY <1>1, OpenEffect DEF StoreInv, Becomes, TypeInv, HandleState
  <2>2. Held(handle'[h].index, rows, nextKey)
    BY <1>1, <2>1, OpenHeld DEF StoreInv
  <2>3. Mirrors(handle'[h].index, rows, Chunk \ {})
    BY <1>1, <2>1, <2>2, TouchMirrors DEF Held
  <2>4. Chunk \ {} = Chunk
    OBVIOUS
  <2> QED
    BY <2>3, <2>4
<1>2. StoreInv => [\A h \in Handle :
                      Open(h) /\ Quiet /\ OneDimension(handle'[h].index, rows)
                          => Mirrors(handle'[h].index, rows, Chunk)]_vars
  BY <1>1
<1> QED
  BY <1>2, StoreInvariant, PTL DEF OpenSeesRows

-----------------------------------------------------------------------------
(* The filter index and the table, and what a filtered search returns.     *)

\* Whether a call is still going to rebuild the filter index.
Refilters(steps) == \E i \in 1..Len(steps) : steps[i] = "refilter"

LEMMA RefiltersJoined ==
    ASSUME NEW s \in Seq(Step), NEW t \in Seq(Step), Refilters(s) \/ Refilters(t)
    PROVE  Refilters(s \o t)
<1>1. /\ Len(s) \in Nat /\ Len(t) \in Nat
      /\ Len(s \o t) = Len(s) + Len(t)
      /\ \A i \in 1..Len(s) : (s \o t)[i] = s[i]
      /\ \A i \in 1..Len(t) : (s \o t)[Len(s) + i] = t[i]
  OBVIOUS
<1>2. ASSUME NEW i \in 1..Len(s), s[i] = "refilter" PROVE Refilters(s \o t)
  <2>1. i \in 1..Len(s \o t) /\ (s \o t)[i] = "refilter"
    BY <1>1, <1>2
  <2> QED
    BY <2>1 DEF Refilters
<1>3. ASSUME NEW i \in 1..Len(t), t[i] = "refilter" PROVE Refilters(s \o t)
  <2>1. Len(s) + i \in 1..Len(s \o t) /\ (s \o t)[Len(s) + i] = "refilter"
    BY <1>1, <1>3
  <2> QED
    BY <2>1 DEF Refilters
<1> QED
  BY <1>2, <1>3 DEF Refilters

LEMMA RefiltersLater ==
    ASSUME NEW s \in Seq(Step), s # << >>, Refilters(s), Head(s) # "refilter"
    PROVE  Refilters(Tail(s))
<1>1. /\ Len(s) \in Nat \ {0} /\ Head(s) = s[1]
      /\ Len(Tail(s)) = Len(s) - 1
      /\ \A i \in 1..(Len(s) - 1) : Tail(s)[i] = s[i + 1]
  OBVIOUS
<1>2. PICK i \in 1..Len(s) : s[i] = "refilter"
  BY DEF Refilters
<1>3. i - 1 \in 1..(Len(s) - 1) /\ (i - 1) + 1 = i
  BY <1>1, <1>2
<1>4. Tail(s)[i - 1] = "refilter"
  BY <1>1, <1>2, <1>3
<1> QED
  BY <1>1, <1>3, <1>4 DEF Refilters

\* A call that rebuilds the vector index rebuilds the filter index after it, and
\* so does opening.
LEMMA RefreshRefilters ==
    /\ \A s \in Refreshing : s \in Seq(Step) /\ s # << >> /\ Head(s) # "refilter" /\ Refilters(s)
    /\ Refilters(<<"refilter">>) /\ Refilters(Save \o <<"refilter">>)
<1>1. /\ {"rebuild", "refilter", "vacuum", "docrow", "prune"} \subseteq Step
      /\ <<"refilter">> \in Seq(Step) /\ <<"vacuum">> \in Seq(Step) /\ <<"rebuild">> \in Seq(Step)
      /\ <<"docrow">> \in Seq(Step) /\ <<"prune">> \in Seq(Step)
      /\ Save \in Seq(Step) /\ Refresh \in Seq(Step)
  BY SaveSteps, LaterSteps DEF Step
<1>2. Refilters(<<"refilter">>)
  <2> PICK s : s = <<"refilter">>
    OBVIOUS
  <2>1. Len(s) = 1 /\ s[1] = "refilter" /\ 1 \in 1..1
    OBVIOUS
  <2> QED
    BY <2>1 DEF Refilters
<1>3. Refilters(Save \o <<"refilter">>)
  BY <1>1, <1>2, RefiltersJoined
<1>4. Refilters(Refresh)
  <2> PICK s : s = <<"rebuild", "refilter">>
    OBVIOUS
  <2>1. s \in Seq(Step)
    BY <1>1
  <2>2. Len(s) = 2 /\ s[2] = "refilter" /\ 2 \in 1..2
    OBVIOUS
  <2>3. Refilters(s)
    BY <2>2 DEF Refilters
  <2>4. Refresh = s \o Save
    BY DEF Refresh
  <2>5. Refilters(s \o Save)
    BY <1>1, <2>1, <2>3, RefiltersJoined
  <2> QED
    BY <2>4, <2>5
<1>5. Refresh \o <<"vacuum">> \in Seq(Step) /\ Refilters(Refresh \o <<"vacuum">>)
  <2>1. ASSUME NEW s \in Seq(Step), NEW t \in Seq(Step), Refilters(s)
        PROVE  s \o t \in Seq(Step) /\ Refilters(s \o t)
    BY <2>1, RefiltersJoined
  <2> QED
    BY <1>1, <1>4, <2>1
<1>6. ASSUME NEW s \in Refreshing PROVE s \in Seq(Step) /\ Refilters(s)
  <2>1. PICK more : more = Refresh \o <<"vacuum">>
    OBVIOUS
  <2>2. s \in {Refresh, more, <<"docrow">> \o Refresh, <<"prune">> \o more}
    BY <1>6, <2>1 DEF Refreshing
  <2>3. more \in Seq(Step) /\ Refilters(more)
    BY <1>5, <2>1
  <2>4. ASSUME NEW x \in Seq(Step), NEW rest \in Seq(Step), Refilters(rest)
        PROVE  x \o rest \in Seq(Step) /\ Refilters(x \o rest)
    BY <2>4, RefiltersJoined
  <2>5. <<"docrow">> \o Refresh \in Seq(Step) /\ Refilters(<<"docrow">> \o Refresh)
    BY <1>1, <1>4, <2>4
  <2>6. <<"prune">> \o more \in Seq(Step) /\ Refilters(<<"prune">> \o more)
    BY <1>1, <2>3, <2>4
  <2> QED
    BY <1>1, <1>4, <2>2, <2>3, <2>5, <2>6
<1>7. \A s \in Refreshing : s # << >> /\ Head(s) # "refilter"
  BY RefreshingTails
<1> QED
  BY <1>2, <1>3, <1>6, <1>7

-----------------------------------------------------------------------------
(* The filter index and the table, while calls are under way.              *)

FilterOf(r) == [key |-> r.key, id |-> r.id, doc |-> r.doc, meta |-> r.meta]

\* A key in the filter index stands for the chunk it stands for in the table.
FilterKeyed(filter, t, k) ==
    \A f \in filter : f.key < k /\ \A r \in t : r.key = f.key => r.id = f.id

\* The index has the posting of chunk c when it is stored, and no other of it.
Listed(filter, t, c) ==
    /\ \A r \in t : r.id = c => FilterOf(r) \in filter
    /\ \A f \in filter : f.id = c => \E r \in t : f = FilterOf(r)

\* A batch that has been stored and not yet listed.
Stored(t, others, batch) ==
    \A c \in InputIds(batch) \ others :
        \E r \in t : r.id = c /\ r.doc = LastInput(batch, c).doc /\ r.meta = LastInput(batch, c).meta

Unlisted(s) ==
    IF Begins(s, "index") \/ Begins(s, "filter") THEN InputIds(s.arg)
    ELSE IF Begins(s, "metadata") THEN {s.arg[1].id} ELSE {}

FilterTouch(s, t, k, others) ==
    /\ FilterKeyed(s.filter, t, k)
    /\ ~Refilters(s.todo) => \A c \in Chunk \ (others \cup Unlisted(s)) : Listed(s.filter, t, c)
    /\ Begins(s, "index") \/ Begins(s, "filter") => Stored(t, others, s.arg)
    /\ Begins(s, "metadata") /\ s.arg[1].id \notin others =>
          \E r \in t : r.id = s.arg[1].id /\ r.meta = s.arg[1].meta

FilterInv == \A h \in Handle : handle[h].open => FilterTouch(handle[h], rows, nextKey, foreign[h])

-----------------------------------------------------------------------------
(* How the table's changes carry over.                                     *)

LEMMA FilterKeyedStays ==
    ASSUME TypeInv, NEW cs, Evolves(cs), NEW filter \in SUBSET FilterEntry,
           FilterKeyed(filter, rows, nextKey)
    PROVE  FilterKeyed(filter, rows', nextKey')
<1>1. /\ nextKey \in Nat /\ nextKey' \in Nat /\ nextKey' >= nextKey
      /\ rows \in SUBSET Row /\ rows' \in SUBSET Row
  BY DataAssumption DEF TypeInv, TableInv, Evolves
<1>2. ASSUME NEW f \in filter PROVE f.key < nextKey'
  BY <1>1 DEF FilterKeyed, FilterEntry
<1>3. ASSUME NEW f \in filter, NEW r \in rows', r.key = f.key PROVE r.id = f.id
  <2>1. f.key < nextKey /\ f.key \in Nat /\ r.key \in Nat
    BY <1>1 DEF FilterKeyed, FilterEntry, Row
  <2>2. PICK s \in rows : s.id = r.id /\ s.key = r.key
    BY <1>1, <1>3, <2>1 DEF Evolves
  <2> QED
    BY <1>3, <2>2 DEF FilterKeyed
<1> QED
  BY <1>2, <1>3 DEF FilterKeyed

LEMMA ListedElsewhere ==
    ASSUME NEW cs, Evolves(cs), NEW filter, NEW c, c \notin cs, Listed(filter, rows, c)
    PROVE  Listed(filter, rows', c)
<1>1. \A r : r.id = c => (r \in rows' <=> r \in rows)
  BY DEF Evolves
<1>2. ASSUME NEW f \in filter, f.id = c PROVE \E r \in rows' : f = FilterOf(r)
  <2>1. PICK r \in rows : f = FilterOf(r)
    BY <1>2 DEF Listed
  <2>2. r.id = c
    BY <1>2, <2>1 DEF FilterOf
  <2> QED
    BY <1>1, <2>1, <2>2
<1> QED
  BY <1>1, <1>2 DEF Listed

LEMMA FilterTouchKept ==
    ASSUME TypeInv, NEW g \in Handle, handle'[g] = handle[g], NEW cs, Evolves(cs),
           foreign'[g] = foreign[g] \cup cs,
           FilterTouch(handle[g], rows, nextKey, foreign[g])
    PROVE  FilterTouch(handle'[g], rows', nextKey', foreign'[g])
<1> PICK s : s = handle[g]
  OBVIOUS
<1> PICK others : others = foreign[g]
  OBVIOUS
<1>1. s.filter \in SUBSET FilterEntry
  BY DEF TypeInv, HandleState
<1>2. FilterKeyed(s.filter, rows', nextKey')
  BY <1>1, FilterKeyedStays DEF FilterTouch
<1>3. ASSUME NEW c \in Chunk \ (others \cup cs \cup Unlisted(s)), ~Refilters(s.todo)
      PROVE  Listed(s.filter, rows', c)
  BY <1>3, ListedElsewhere DEF FilterTouch
<1>4. ASSUME Stored(rows, others, s.arg)
      PROVE  Stored(rows', others \cup cs, s.arg)
  BY <1>4 DEF Stored, Evolves
<1>5. ASSUME Begins(s, "metadata"), s.arg[1].id \notin others \cup cs
      PROVE  \E r \in rows' : r.id = s.arg[1].id /\ r.meta = s.arg[1].meta
  BY <1>5 DEF FilterTouch, Evolves
<1> QED
  BY <1>2, <1>3, <1>4, <1>5 DEF FilterTouch

-----------------------------------------------------------------------------
(* The steps of the handle itself.                                         *)

Fills(s) == Begins(s, "index") \/ Begins(s, "filter") \/ Begins(s, "metadata")

\* A step that leaves the filter index alone and owes it no more than before.
LEMMA FilterStays ==
    ASSUME TypeInv, NEW h \in Handle, FilterTouch(handle[h], rows, nextKey, foreign[h]),
           NEW cs, Evolves(cs), foreign'[h] = foreign[h], handle'[h].filter = handle[h].filter,
           ~Fills(handle[h]), ~Fills(handle'[h]),
           Refilters(handle[h].todo) => Refilters(handle'[h].todo),
           \/ Refilters(handle'[h].todo)
           \/ \A c : Listed(handle[h].filter, rows, c) => Listed(handle[h].filter, rows', c)
    PROVE  FilterTouch(handle'[h], rows', nextKey', foreign'[h])
<1>1. handle[h].filter \in SUBSET FilterEntry
  BY DEF TypeInv, HandleState
<1>2. FilterKeyed(handle[h].filter, rows', nextKey')
  BY <1>1, FilterKeyedStays DEF FilterTouch
<1>3. Unlisted(handle[h]) = {} /\ Unlisted(handle'[h]) = {}
  BY DEF Fills, Unlisted
<1> QED
  BY <1>2, <1>3 DEF FilterTouch, Fills

\* What is left of a call after one of its steps.
LEMMA StepLeft ==
    ASSUME TypeInv, NEW h \in Handle, handle[h].todo # << >>, handle'[h].todo = Tail(handle[h].todo)
    PROVE  /\ ~Fills(handle'[h])
           /\ Refilters(handle[h].todo) /\ Head(handle[h].todo) # "refilter" => Refilters(handle'[h].todo)
<1>1. handle[h].todo \in Seq(Step) /\ Tail(handle[h].todo) \in Seq(Later)
  BY TypeParts, Remaining DEF HandleState
<1>2. Tail(handle[h].todo) # << >> => Head(Tail(handle[h].todo)) \in Later
  BY <1>1, LaterSteps
<1>3. ~Fills(handle'[h])
  BY <1>2 DEF Fills, Begins, Later, First
<1> QED
  BY <1>1, <1>3, RefiltersLater

\* Between calls nothing is owed.
LEMMA IdleFilter ==
    ASSUME NEW h \in Handle, Idle(h)
    PROVE  ~Fills(handle[h]) /\ ~Refilters(handle[h].todo) /\ Unlisted(handle[h]) = {}
BY DEF Idle, Fills, Begins, Refilters, Unlisted

LEMMA DeletionFilter ==
    ASSUME TypeInv, NEW h \in Handle, FilterTouch(handle[h], rows, nextKey, foreign[h]), Idle(h),
           \/ \E d \in Doc : DeleteByDocId(h, d)
           \/ \E m \in Meta : DeleteByMetadata(h, m)
           \/ Compact(h)
    PROVE  FilterTouch(handle'[h], rows', nextKey', foreign'[h])
<1>1. PICK gone, steps, arg :
              /\ Effect(h, StoredIds(gone), handle[h].index, handle[h].filter, steps, arg)
              /\ rows' = rows \ gone
              /\ gone # {} => Rebuilds(steps)
              /\ Rebuilds(steps) => steps \in Refreshing
              /\ steps # << >> => Head(steps) \notin {"index", "filter", "metadata", "embed"}
  BY DeletionsEffect
<1>2. /\ Evolves(StoredIds(gone)) /\ foreign'[h] = foreign[h]
      /\ handle'[h].filter = handle[h].filter /\ handle'[h].todo = steps
  BY <1>1 DEF Effect, Noted, Becomes
<1>3. ~Fills(handle'[h])
  BY <1>1, <1>2 DEF Fills, Begins
<1>4. ~Fills(handle[h]) /\ ~Refilters(handle[h].todo)
  BY IdleFilter
<1>5. \/ Refilters(handle'[h].todo)
      \/ \A c : Listed(handle[h].filter, rows, c) => Listed(handle[h].filter, rows', c)
  <2>1. CASE gone = {}
    BY <1>1, <2>1
  <2>2. CASE gone # {}
    BY <1>1, <1>2, <2>2, RefreshRefilters
  <2> QED
    BY <2>1, <2>2
<1> QED
  BY <1>2, <1>3, <1>4, <1>5, FilterStays

LEMMA IngestFilter ==
    ASSUME TypeInv, NEW h \in Handle, FilterTouch(handle[h], rows, nextKey, foreign[h]),
           NEW batch \in Batches \cup Texts,
           \/ batch \in Batches /\ Ingest(h, batch)
           \/ batch \in Texts /\ IngestText(h, batch)
    PROVE  FilterTouch(handle'[h], rows', nextKey', foreign'[h])
<1> PICK filter : filter = handle[h].filter
  OBVIOUS
<1>1. /\ Evolves(InputIds(batch)) /\ foreign'[h] = foreign[h]
      /\ handle'[h].filter = filter /\ handle'[h].arg = batch
      /\ Begins(handle'[h], "index") \/ Begins(handle'[h], "filter")
  <2>1. ASSUME batch \in Batches, Ingest(h, batch)
        PROVE  Effect(h, InputIds(batch), handle[h].index, handle[h].filter, <<"index">> \o Save, batch)
    BY <2>1, IngestEffect
  <2>2. ASSUME batch \in Texts, IngestText(h, batch)
        PROVE  Effect(h, InputIds(batch), handle[h].index, handle[h].filter, <<"filter">>, batch)
    BY <2>2, IngestTextEffect
  <2>3. <<"index">> \o Save # << >> /\ Head(<<"index">> \o Save) = "index"
    <3>1. "index" \in Step /\ Save \in Seq(Later)
      BY SaveSteps DEF Step
    <3> QED
      BY <3>1, FirstThen
  <2>4. <<"filter">> # << >> /\ Head(<<"filter">>) = "filter"
    OBVIOUS
  <2> QED
    BY <2>1, <2>2, <2>3, <2>4 DEF Effect, Noted, Becomes, Begins
<1>2. Idle(h) /\ Upserts(h, batch)
  BY DEF Ingest, IngestText
<1>3. filter \in SUBSET FilterEntry /\ rows \in SUBSET Row /\ ApartRows(rows)
  BY DEF TypeInv, TableInv, HandleState
<1>4. FilterKeyed(filter, rows', nextKey')
  BY <1>1, <1>3, FilterKeyedStays DEF FilterTouch
<1>5. Stored(rows', foreign[h], batch)
  <2>1. rows' = Upserted(rows, nextKey, batch)
    BY <1>2 DEF Upserts
  <2> PICK t, k : t = rows /\ k = nextKey
    OBVIOUS
  <2>2. ASSUME NEW c \in InputIds(batch)
        PROVE  \E r \in Upserted(t, k, batch) :
                  r.id = c /\ r.doc = LastInput(batch, c).doc /\ r.meta = LastInput(batch, c).meta
    <3> PICK r : r = [id |-> c, key |-> KeyFor(t, k, batch, c), doc |-> LastInput(batch, c).doc,
                      meta |-> LastInput(batch, c).meta, emb |-> LastInput(batch, c).emb]
      OBVIOUS
    <3>1. r \in Upserted(t, k, batch)
      BY DEF Upserted
    <3> QED
      BY <3>1
  <2> QED
    BY <2>1, <2>2 DEF Stored
<1>6. ASSUME NEW c \in Chunk \ (foreign[h] \cup InputIds(batch))
      PROVE  Listed(filter, rows', c)
  <2>1. Listed(filter, rows, c)
    BY <1>2, IdleFilter DEF FilterTouch
  <2> QED
    BY <1>1, <2>1, ListedElsewhere
<1>7. ~Begins(handle'[h], "metadata")
  BY <1>1 DEF Begins
<1> QED
  BY <1>1, <1>4, <1>5, <1>6, <1>7 DEF FilterTouch, Unlisted

LEMMA UpdateMetadataFilter ==
    ASSUME TypeInv, NEW h \in Handle, FilterTouch(handle[h], rows, nextKey, foreign[h]),
           NEW c \in Chunk, NEW m \in Meta, UpdateMetadata(h, c, m)
    PROVE  FilterTouch(handle'[h], rows', nextKey', foreign'[h])
<1> PICK filter : filter = handle[h].filter
  OBVIOUS
<1>1. /\ Evolves({c}) /\ foreign'[h] = foreign[h]
      /\ handle'[h].filter = filter /\ handle'[h].todo = <<"metadata">>
      /\ handle'[h].arg = <<[id |-> c, meta |-> m]>>
  BY UpdateMetadataEffect DEF Effect, Noted, Becomes
<1>2. Idle(h) /\ c \in StoredIds(rows) /\ rows' = {IF r.id = c THEN [r EXCEPT !.meta = m] ELSE r : r \in rows}
  BY DEF UpdateMetadata
<1>3. filter \in SUBSET FilterEntry /\ rows \in SUBSET Row
  BY DEF TypeInv, TableInv, HandleState
<1>4. FilterKeyed(filter, rows', nextKey')
  BY <1>1, <1>3, FilterKeyedStays DEF FilterTouch
<1>5. /\ Begins(handle'[h], "metadata") /\ ~Begins(handle'[h], "index") /\ ~Begins(handle'[h], "filter")
      /\ handle'[h].arg[1] = [id |-> c, meta |-> m]
  BY <1>1 DEF Begins
<1>6. Unlisted(handle'[h]) = {c}
  BY <1>5 DEF Unlisted
<1>7. \E r \in rows' : r.id = c /\ r.meta = m
  <2>1. PICK r \in rows : r.id = c
    BY <1>2 DEF StoredIds
  <2>2. [r EXCEPT !.meta = m] \in rows'
    BY <1>2, <2>1
  <2>3. [r EXCEPT !.meta = m].id = c /\ [r EXCEPT !.meta = m].meta = m
    BY <1>3, <2>1 DEF Row
  <2> QED
    BY <2>2, <2>3
<1>8. ASSUME NEW d \in Chunk \ (foreign[h] \cup {c}) PROVE Listed(filter, rows', d)
  <2>1. Listed(filter, rows, d)
    BY <1>2, IdleFilter DEF FilterTouch
  <2> QED
    BY <1>1, <2>1, ListedElsewhere
<1> QED
  BY <1>1, <1>4, <1>5, <1>6, <1>7, <1>8 DEF FilterTouch

LEMMA UpdateEmbeddingFilter ==
    ASSUME TypeInv, NEW h \in Handle, FilterTouch(handle[h], rows, nextKey, foreign[h]),
           NEW c \in Chunk, NEW e \in Embeddings, UpdateEmbedding(h, c, e)
    PROVE  FilterTouch(handle'[h], rows', nextKey', foreign'[h])
<1>1. /\ UNCHANGED rows /\ Evolves({}) /\ foreign'[h] = foreign[h]
      /\ handle'[h].filter = handle[h].filter /\ handle'[h].todo = <<"embed">>
  BY UpdateEmbeddingEffect DEF Effect, Noted, Becomes
<1>2. ~Fills(handle'[h])
  BY <1>1 DEF Fills, Begins
<1>3. ~Fills(handle[h]) /\ ~Refilters(handle[h].todo)
  BY IdleFilter DEF UpdateEmbedding
<1> QED
  BY <1>1, <1>2, <1>3, FilterStays

LEMMA EmbedFilter ==
    ASSUME TypeInv, ShapeInv, NEW h \in Handle, FilterTouch(handle[h], rows, nextKey, foreign[h]), Embed(h)
    PROVE  FilterTouch(handle'[h], rows', nextKey', foreign'[h])
<1>1. PICK new, cs, index, steps :
         /\ rows' = {IF r.id = new.id THEN [r EXCEPT !.emb = new.emb] ELSE r : r \in rows}
         /\ Effect(h, cs, index, handle[h].filter, steps, << >>)
         /\ steps \in {Save, << >>}
  BY EmbedEffect
<1>2. /\ Evolves(cs) /\ foreign'[h] = foreign[h]
      /\ handle'[h].filter = handle[h].filter /\ handle'[h].todo = steps
  BY <1>1 DEF Effect, Noted, Becomes
<1>3. handle[h].todo = <<"embed">>
  BY DEF Embed, Doing, ShapeInv, CallShape
<1>4. ~Fills(handle[h]) /\ ~Refilters(handle[h].todo)
  <2>1. ~Fills(handle[h])
    BY <1>3 DEF Fills, Begins
  <2> PICK s : s = <<"embed">>
    OBVIOUS
  <2>2. Len(s) = 1 /\ s[1] = "embed" /\ \A i \in 1..1 : i = 1
    OBVIOUS
  <2> QED
    BY <1>3, <2>1, <2>2 DEF Refilters
<1>5. ~Fills(handle'[h])
  <2>1. steps # << >> => Head(steps) \in Later
    BY <1>1, SaveSteps, LaterSteps
  <2> QED
    BY <1>2, <2>1 DEF Fills, Begins, Later, First
<1>6. ASSUME NEW c, Listed(handle[h].filter, rows, c) PROVE Listed(handle[h].filter, rows', c)
  <2> DEFINE f == [r \in rows |-> IF r.id = new.id THEN [r EXCEPT !.emb = new.emb] ELSE r]
  <2>1. rows' = {f[r] : r \in rows}
    BY <1>1
  <2>2. rows \in SUBSET Row
    BY DEF TypeInv, TableInv
  <2>3. \A r \in rows : f[r].id = r.id /\ FilterOf(f[r]) = FilterOf(r)
    BY <2>2 DEF Row, FilterOf
  <2> HIDE DEF f
  <2> QED
    BY <1>6, <2>1, <2>3 DEF Listed
<1> QED
  BY <1>2, <1>4, <1>5, <1>6, FilterStays

\* The steps that leave both the filter index and the table alone.
LEMMA QuietStepFilter ==
    ASSUME TypeInv, NEW h \in Handle, FilterTouch(handle[h], rows, nextKey, foreign[h]),
           \/ TruncateSidecar(h) \/ WriteSidecar(h) \/ Vacuum(h)
           \/ DeleteDocumentRow(h) \/ PruneDocuments(h)
    PROVE  FilterTouch(handle'[h], rows', nextKey', foreign'[h])
<1>1. /\ handle[h].todo # << >>
      /\ Head(handle[h].todo) \in {"truncate", "write", "vacuum", "docrow", "prune"}
      /\ Continues(h)
  BY DEF TruncateSidecar, WriteSidecar, Vacuum, DeleteDocumentRow, PruneDocuments, DropDocs, Doing
<1>2. UNCHANGED rows /\ Evolves({}) /\ foreign'[h] = foreign[h]
  BY SideStepEffect, DropDocsEffect DEF Effect, Noted
<1>3. handle'[h].filter = handle[h].filter /\ handle'[h].todo = Tail(handle[h].todo)
  BY <1>1, TypeParts, StepContinues DEF Becomes
<1>4. ~Fills(handle[h])
  BY <1>1 DEF Fills, Begins
<1>5. ~Fills(handle'[h]) /\ (Refilters(handle[h].todo) => Refilters(handle'[h].todo))
  BY <1>1, <1>3, StepLeft
<1> QED
  BY <1>2, <1>3, <1>4, <1>5, FilterStays

\* What a batch gives the filter index.
LEMMA NewFiltersAre ==
    ASSUME TypeInv, NEW batch \in Batches \cup Texts
    PROVE  /\ \A n \in NewFilters(batch) : \E r \in rows :
                 /\ r.id \in InputIds(batch)
                 /\ n = [key |-> r.key, id |-> r.id, doc |-> LastInput(batch, r.id).doc,
                         meta |-> LastInput(batch, r.id).meta]
           /\ \A r \in rows : r.id \in InputIds(batch) =>
                 [key |-> r.key, id |-> r.id, doc |-> LastInput(batch, r.id).doc,
                  meta |-> LastInput(batch, r.id).meta] \in NewFilters(batch)
<1>1. batch \in Seq(Input) /\ rows \in SUBSET Row /\ ApartRows(rows)
  BY BatchesAreInputs DEF TypeInv, TableInv
<1>2. \A c \in InputIds(batch) : LastInput(batch, c) \in Inputs(batch) /\ LastInput(batch, c).id = c
  BY <1>1, LastOne
<1>3. ASSUME NEW n \in NewFilters(batch)
      PROVE  \E r \in rows : /\ r.id \in InputIds(batch)
                             /\ n = [key |-> r.key, id |-> r.id, doc |-> LastInput(batch, r.id).doc,
                                     meta |-> LastInput(batch, r.id).meta]
  <2>1. PICK i \in FetchedKeys(batch) :
           n = [key |-> RowOf(rows, i.id).key, id |-> i.id, doc |-> i.doc, meta |-> i.meta]
    BY DEF NewFilters
  <2>2. PICK c \in InputIds(batch) : i = LastInput(batch, c) /\ i.id \in StoredIds(rows) /\ i.id = c
    BY <1>2 DEF FetchedKeys
  <2>3. PICK r \in rows : r = RowOf(rows, c) /\ r.id = c
    BY <1>1, <2>2, RowOfStored
  <2> QED
    BY <2>1, <2>2, <2>3
<1>4. ASSUME NEW r \in rows, r.id \in InputIds(batch)
      PROVE  [key |-> r.key, id |-> r.id, doc |-> LastInput(batch, r.id).doc,
              meta |-> LastInput(batch, r.id).meta] \in NewFilters(batch)
  <2>1. PICK i : i = LastInput(batch, r.id)
    OBVIOUS
  <2>2. i.id = r.id /\ r.id \in StoredIds(rows)
    BY <1>2, <1>4, <2>1 DEF StoredIds
  <2>3. i \in FetchedKeys(batch)
    BY <1>4, <2>1, <2>2 DEF FetchedKeys
  <2>4. RowOf(rows, i.id) = r
    BY <1>1, <2>2, RowOfStored DEF ApartRows
  <2> QED
    BY <2>1, <2>2, <2>3, <2>4 DEF NewFilters
<1> QED
  BY <1>3, <1>4

\* Postings of rows replace those of their chunks.
LEMMA PutFilterKeeps ==
    ASSUME TypeInv, NEW filter, FilterKeyed(filter, rows, nextKey), NEW new,
           \A n \in new : \E r \in rows : n.key = r.key /\ n.id = r.id
    PROVE  /\ FilterKeyed(PutFilter(filter, new), rows, nextKey)
           /\ \A c : Listed(filter, rows, c) /\ (\A n \in new : n.id # c)
                        => Listed(PutFilter(filter, new), rows, c)
           /\ \A r \in rows : FilterOf(r) \in new /\ (\A n \in new : n.id = r.id => n = FilterOf(r))
                        => Listed(PutFilter(filter, new), rows, r.id)
<1>1. ApartRows(rows) /\ KeysBelow(rows, nextKey)
  BY DEF TypeInv, TableInv
<1>2. FilterKeyed(PutFilter(filter, new), rows, nextKey)
  BY <1>1 DEF FilterKeyed, PutFilter, ApartRows, KeysBelow
<1>3. \A r : FilterOf(r).id = r.id
  BY DEF FilterOf
<1>4. ASSUME NEW c, Listed(filter, rows, c), \A n \in new : n.id # c
      PROVE  Listed(PutFilter(filter, new), rows, c)
  BY <1>3, <1>4 DEF Listed, PutFilter
<1>5. ASSUME NEW r \in rows, FilterOf(r) \in new, \A n \in new : n.id = r.id => n = FilterOf(r)
      PROVE  Listed(PutFilter(filter, new), rows, r.id)
  <2>1. \A f \in PutFilter(filter, new) : f.id = r.id => f = FilterOf(r)
    BY <1>3, <1>5 DEF PutFilter
  <2>2. \A s \in rows : s.id = r.id => s = r
    BY <1>1 DEF ApartRows
  <2>3. FilterOf(r) \in PutFilter(filter, new)
    BY <1>5 DEF PutFilter
  <2> QED
    BY <2>1, <2>2, <2>3 DEF Listed
<1> QED
  BY <1>2, <1>4, <1>5

LEMMA FillFilter ==
    ASSUME TypeInv, NEW h \in Handle, FilterTouch(handle[h], rows, nextKey, foreign[h]),
           IndexBatch(h) \/ FilterText(h)
    PROVE  FilterTouch(handle'[h], rows', nextKey', foreign'[h])
<1> PICK filter, batch, new : filter = handle[h].filter /\ batch = handle[h].arg /\ new = NewFilters(batch)
  OBVIOUS
<1>1. /\ handle[h].todo # << >> /\ Head(handle[h].todo) \in {"index", "filter"}
      /\ UNCHANGED <<rows, nextKey, foreign>>
      /\ \E index : Updates(h, index, PutFilter(filter, new))
  BY DEF IndexBatch, FilterText, Doing, Updates
<1>2. batch \in Batches \cup Texts
  <2>1. batch \in ArgOf(Head(handle[h].todo))
    BY <1>1, TypeParts, Remaining
  <2> QED
    BY <1>1, <2>1, ArgOfFirst
<1>3. handle'[h].filter = PutFilter(filter, new) /\ handle'[h].todo = Tail(handle[h].todo)
  <2>1. handle[h] \in HandleState /\ handle \in [Handle -> HandleState]
    BY DEF TypeInv
  <2> QED
    BY <1>1, <2>1 DEF Updates, HandleState
<1>4. \A n \in new : \E r \in rows : /\ r.id \in InputIds(batch)
                                    /\ n = [key |-> r.key, id |-> r.id, doc |-> LastInput(batch, r.id).doc,
                                            meta |-> LastInput(batch, r.id).meta]
  BY <1>2, NewFiltersAre
<1>5. /\ FilterKeyed(PutFilter(filter, new), rows, nextKey)
      /\ \A c : Listed(filter, rows, c) /\ (\A n \in new : n.id # c)
                   => Listed(PutFilter(filter, new), rows, c)
      /\ \A r \in rows : FilterOf(r) \in new /\ (\A n \in new : n.id = r.id => n = FilterOf(r))
                   => Listed(PutFilter(filter, new), rows, r.id)
  <2>1. FilterKeyed(filter, rows, nextKey)
    BY DEF FilterTouch
  <2>2. \A n \in new : \E r \in rows : n.key = r.key /\ n.id = r.id
    BY <1>4
  <2> QED
    BY <2>1, <2>2, PutFilterKeeps
<1>6. ~Fills(handle'[h]) /\ (Refilters(handle[h].todo) => Refilters(handle'[h].todo))
  BY <1>1, <1>3, StepLeft
<1>7. Unlisted(handle[h]) = InputIds(batch) /\ Stored(rows, foreign[h], batch)
  BY <1>1 DEF Unlisted, Begins, FilterTouch
<1>8. ASSUME NEW c \in Chunk \ foreign[h], ~Refilters(handle[h].todo)
      PROVE  Listed(PutFilter(filter, new), rows, c)
  <2>1. CASE c \in InputIds(batch)
    <3>1. PICK r \in rows : r.id = c /\ r.doc = LastInput(batch, c).doc /\ r.meta = LastInput(batch, c).meta
      BY <1>7, <1>8, <2>1 DEF Stored
    <3>2. FilterOf(r) = [key |-> r.key, id |-> r.id, doc |-> LastInput(batch, r.id).doc,
                         meta |-> LastInput(batch, r.id).meta]
      BY <3>1 DEF FilterOf
    <3>3. FilterOf(r) \in new
      BY <1>2, <2>1, <3>1, <3>2, NewFiltersAre
    <3>4. ASSUME NEW n \in new, n.id = r.id PROVE n = FilterOf(r)
      <4>1. PICK s \in rows : n = [key |-> s.key, id |-> s.id, doc |-> LastInput(batch, s.id).doc,
                                   meta |-> LastInput(batch, s.id).meta]
        BY <1>4
      <4>2. s.id = r.id
        BY <3>4, <4>1
      <4>3. s = r
        BY <4>2 DEF TypeInv, TableInv, ApartRows
      <4> QED
        BY <3>2, <4>1, <4>3
    <3> QED
      BY <1>5, <3>1, <3>3, <3>4
  <2>2. CASE c \notin InputIds(batch)
    <3>1. \A n \in new : n.id # c
      BY <1>4, <2>2
    <3>2. Listed(filter, rows, c)
      BY <1>7, <1>8, <2>2 DEF FilterTouch
    <3> QED
      BY <1>5, <3>1, <3>2
  <2> QED
    BY <2>1, <2>2
<1> QED
  BY <1>1, <1>3, <1>5, <1>6, <1>8 DEF FilterTouch, Fills

LEMMA FilterMetadataFilter ==
    ASSUME TypeInv, NEW h \in Handle, FilterTouch(handle[h], rows, nextKey, foreign[h]),
           FilterMetadata(h)
    PROVE  FilterTouch(handle'[h], rows', nextKey', foreign'[h])
<1> PICK filter : filter = handle[h].filter
  OBVIOUS
<1>1. /\ handle[h].todo # << >> /\ Head(handle[h].todo) = "metadata"
      /\ UNCHANGED <<rows, nextKey, foreign>>
  BY DEF FilterMetadata, Doing, Updates
<1>2. PICK a \in [id : Chunk, meta : Meta] : handle[h].arg = <<a>>
  BY <1>1, TypeParts, Remaining, ArgOfFirst
<1>3. handle[h].arg[1] = a
  BY <1>2
<1>4. PICK entry : entry = [key |-> RowOf(rows, a.id).key, id |-> a.id,
                            doc |-> RowOf(rows, a.id).doc, meta |-> a.meta]
  OBVIOUS
<1>5. Updates(h, handle[h].index,
              IF a.id \in StoredIds(rows) THEN PutFilter(filter, {entry}) ELSE filter)
  BY <1>3, <1>4 DEF FilterMetadata
<1>6. /\ handle'[h].filter = IF a.id \in StoredIds(rows) THEN PutFilter(filter, {entry}) ELSE filter
      /\ handle'[h].todo = Tail(handle[h].todo)
  <2>1. handle[h] \in HandleState /\ handle \in [Handle -> HandleState]
    BY DEF TypeInv
  <2> QED
    BY <1>5, <2>1 DEF Updates, HandleState
<1>7. ~Fills(handle'[h]) /\ (Refilters(handle[h].todo) => Refilters(handle'[h].todo))
  BY <1>1, <1>6, StepLeft
<1>8. /\ Unlisted(handle[h]) = {a.id} /\ FilterKeyed(filter, rows, nextKey)
      /\ a.id \notin foreign[h] => \E r \in rows : r.id = a.id /\ r.meta = a.meta
  BY <1>1, <1>3 DEF Unlisted, Begins, FilterTouch
<1>9. CASE a.id \in StoredIds(rows)
  <2>1. RowOf(rows, a.id) \in rows /\ RowOf(rows, a.id).id = a.id
    BY <1>9, RowOfStored DEF TypeInv, TableInv
  <2>2. PICK r : r = RowOf(rows, a.id)
    OBVIOUS
  <2>3. /\ FilterKeyed(PutFilter(filter, {entry}), rows, nextKey)
        /\ \A c : Listed(filter, rows, c) /\ (\A n \in {entry} : n.id # c)
                     => Listed(PutFilter(filter, {entry}), rows, c)
        /\ FilterOf(r) \in {entry} /\ (\A n \in {entry} : n.id = r.id => n = FilterOf(r))
                     => Listed(PutFilter(filter, {entry}), rows, r.id)
    <3>1. \A n \in {entry} : \E s \in rows : n.key = s.key /\ n.id = s.id
      BY <1>4, <2>1
    <3> PICK new : new = {entry}
      OBVIOUS
    <3> QED
      BY <1>8, <2>1, <2>2, <3>1, PutFilterKeeps
  <2>4. a.id \notin foreign[h] => FilterOf(r) = entry
    <3>1. ASSUME NEW s \in rows, s.id = a.id PROVE s = r
      BY <2>1, <2>2, <3>1 DEF TypeInv, TableInv, ApartRows
    <3>2. a.id \notin foreign[h] => r.meta = a.meta
      BY <1>8, <3>1
    <3> QED
      BY <1>4, <2>1, <2>2, <3>2 DEF FilterOf
  <2>5. ASSUME NEW c \in Chunk \ foreign[h], ~Refilters(handle[h].todo)
        PROVE  Listed(PutFilter(filter, {entry}), rows, c)
    <3>1. CASE c = a.id
      BY <2>1, <2>2, <2>3, <2>4, <2>5, <3>1
    <3>2. CASE c # a.id
      <4>1. Listed(filter, rows, c)
        BY <1>8, <2>5, <3>2 DEF FilterTouch
      <4> QED
        BY <1>4, <2>3, <3>2, <4>1
    <3> QED
      BY <3>1, <3>2
  <2> QED
    BY <1>1, <1>6, <1>7, <1>9, <2>3, <2>5 DEF FilterTouch, Fills
<1>10. CASE a.id \notin StoredIds(rows)
  <2>1. a.id \in foreign[h]
    BY <1>8, <1>10 DEF StoredIds
  <2> QED
    BY <1>1, <1>6, <1>7, <1>8, <1>10, <2>1 DEF FilterTouch, Fills
<1> QED
  BY <1>9, <1>10

\* While the filter index is still to be rebuilt, nothing is asked of its postings.
LEMMA RebuildFilterLater ==
    ASSUME TypeInv, ShapeInv, NEW h \in Handle, FilterTouch(handle[h], rows, nextKey, foreign[h]),
           RebuildVectorIndex(h)
    PROVE  FilterTouch(handle'[h], rows', nextKey', foreign'[h])
<1>1. /\ handle[h].open /\ handle[h].todo # << >> /\ Head(handle[h].todo) = "rebuild"
      /\ UNCHANGED <<rows, nextKey>>
  BY DEF RebuildVectorIndex, Doing, Updates
<1>2. handle'[h].filter = handle[h].filter /\ handle'[h].todo = Tail(handle[h].todo)
  BY RebuildEffect DEF Becomes
<1>3. handle[h].todo \in Refreshing
  <2> PICK s : s = handle[h].todo
    OBVIOUS
  <2>1. s \in Seq(Step) /\ s # << >> /\ Head(s) = "rebuild"
    BY <1>1 DEF TypeInv, HandleState
  <2>2. 1 \in 1..Len(s) /\ s[1] = "rebuild"
    BY <2>1
  <2>3. Rebuilds(s)
    BY <2>2 DEF Rebuilds
  <2> QED
    BY <1>1, <2>3 DEF ShapeInv, CallShape
<1>4. Refilters(handle'[h].todo) /\ ~Fills(handle'[h])
  BY <1>1, <1>2, <1>3, RefreshRefilters, StepLeft
<1> QED
  BY <1>1, <1>2, <1>4 DEF FilterTouch, Fills

\* The filter index of the whole table.
LEMMA ImageListed ==
    ASSUME TypeInv
    PROVE  /\ FilterKeyed(FilterImage(rows), rows, nextKey)
           /\ \A c : Listed(FilterImage(rows), rows, c)
<1>1. ApartRows(rows) /\ KeysBelow(rows, nextKey)
  BY DEF TypeInv, TableInv
<1>2. FilterImage(rows) = {FilterOf(r) : r \in rows}
  BY DEF FilterImage, FilterOf
<1>3. \A r : FilterOf(r).key = r.key /\ FilterOf(r).id = r.id
  BY DEF FilterOf
<1>4. FilterKeyed(FilterImage(rows), rows, nextKey)
  BY <1>1, <1>2, <1>3 DEF FilterKeyed, ApartRows, KeysBelow
<1> QED
  BY <1>2, <1>4 DEF Listed

LEMMA RefilterFilter ==
    ASSUME TypeInv, NEW h \in Handle, RebuildFilterIndex(h)
    PROVE  FilterTouch(handle'[h], rows', nextKey', foreign'[h])
<1>1. /\ handle[h].todo # << >> /\ UNCHANGED <<rows, nextKey, foreign>>
      /\ Updates(h, handle[h].index, FilterImage(rows))
  BY DEF RebuildFilterIndex, Doing, Updates
<1>2. handle'[h].filter = FilterImage(rows) /\ handle'[h].todo = Tail(handle[h].todo)
  <2>1. handle[h] \in HandleState /\ handle \in [Handle -> HandleState]
    BY DEF TypeInv
  <2> QED
    BY <1>1, <2>1 DEF Updates, HandleState
<1>3. ~Fills(handle'[h])
  BY <1>1, <1>2, StepLeft
<1> QED
  BY <1>1, <1>2, <1>3, ImageListed DEF FilterTouch, Fills

LEMMA OpenFilter ==
    ASSUME TypeInv, NEW h \in Handle, Open(h)
    PROVE  FilterTouch(handle'[h], rows', nextKey', foreign'[h])
<1>1. PICK steps \in Seq(Later) :
         /\ handle'[h].filter = {} /\ handle'[h].todo = steps
         /\ steps = IF LoadsSidecar THEN <<"refilter">> ELSE Save \o <<"refilter">>
  BY OpenEffect DEF Becomes
<1>2. Refilters(steps)
  BY <1>1, RefreshRefilters
<1>3. ~Fills(handle'[h])
  BY <1>1, LaterSteps DEF Fills, Begins, Later, First
<1> QED
  BY <1>1, <1>2, <1>3 DEF FilterTouch, FilterKeyed, Fills

-----------------------------------------------------------------------------
(* Every step.                                                             *)

LEMMA FilterOthersKept ==
    ASSUME TypeInv, FilterInv, NEW h \in Handle, NEW cs, Evolves(cs),
           \A g \in Handle \ {h} : /\ handle'[g] = handle[g]
                                   /\ handle[g].open => foreign'[g] = foreign[g] \cup cs,
           handle'[h].open => FilterTouch(handle'[h], rows', nextKey', foreign'[h])
    PROVE  FilterInv'
<1>1. ASSUME NEW g \in Handle \ {h}, handle'[g].open
      PROVE  FilterTouch(handle'[g], rows', nextKey', foreign'[g])
  <2>1. /\ handle'[g] = handle[g] /\ foreign'[g] = foreign[g] \cup cs
        /\ FilterTouch(handle[g], rows, nextKey, foreign[g])
    BY <1>1 DEF FilterInv
  <2> QED
    BY <2>1, FilterTouchKept
<1> QED
  BY <1>1 DEF FilterInv

LEMMA FilterEffectKept ==
    ASSUME TypeInv, FilterInv, NEW h \in Handle,
           \E cs, index, filter, steps, arg : Effect(h, cs, index, filter, steps, arg),
           FilterTouch(handle'[h], rows', nextKey', foreign'[h])
    PROVE  FilterInv'
<1>1. PICK cs : /\ Evolves(cs)
                /\ \A g \in Handle \ {h} : /\ handle'[g] = handle[g]
                                           /\ handle[g].open => foreign'[g] = foreign[g] \cup cs
  BY DEF Effect, Noted, Becomes
<1> QED
  BY <1>1, FilterOthersKept

LEMMA FilterCallsKept ==
    ASSUME TypeInv, FilterInv, NEW h \in Handle,
           \/ \E batch \in Batches : Ingest(h, batch)
           \/ \E batch \in Texts : IngestText(h, batch)
           \/ \E c \in Chunk, m \in Meta : UpdateMetadata(h, c, m)
           \/ \E c \in Chunk, e \in Embeddings : UpdateEmbedding(h, c, e)
           \/ \E d \in Doc : DeleteByDocId(h, d)
           \/ \E m \in Meta : DeleteByMetadata(h, m)
           \/ Compact(h)
    PROVE  FilterInv'
<1>1. Idle(h) /\ FilterTouch(handle[h], rows, nextKey, foreign[h])
  BY DEF Ingest, IngestText, UpdateMetadata, UpdateEmbedding, DeleteByDocId, DeleteByMetadata,
         Compact, Deletes, Idle, FilterInv
<1>2. ASSUME NEW batch \in Batches, Ingest(h, batch) PROVE FilterInv'
  BY <1>1, <1>2, IngestEffect, IngestFilter, FilterEffectKept
<1>3. ASSUME NEW batch \in Texts, IngestText(h, batch) PROVE FilterInv'
  BY <1>1, <1>3, IngestTextEffect, IngestFilter, FilterEffectKept
<1>4. ASSUME NEW c \in Chunk, NEW m \in Meta, UpdateMetadata(h, c, m) PROVE FilterInv'
  BY <1>1, <1>4, UpdateMetadataEffect, UpdateMetadataFilter, FilterEffectKept
<1>5. ASSUME NEW c \in Chunk, NEW e \in Embeddings, UpdateEmbedding(h, c, e) PROVE FilterInv'
  <2>1. FilterTouch(handle'[h], rows', nextKey', foreign'[h])
    BY <1>1, <1>5, UpdateEmbeddingFilter
  <2>2. \E steps, arg : Effect(h, {}, handle[h].index, handle[h].filter, steps, arg)
    BY <1>5, UpdateEmbeddingEffect
  <2> QED
    BY <2>1, <2>2, FilterEffectKept
<1>6. ASSUME \/ \E d \in Doc : DeleteByDocId(h, d)
             \/ \E m \in Meta : DeleteByMetadata(h, m)
             \/ Compact(h)
      PROVE  FilterInv'
  <2>1. FilterTouch(handle'[h], rows', nextKey', foreign'[h])
    BY <1>1, <1>6, DeletionFilter
  <2>2. \E gone, steps, arg :
           Effect(h, StoredIds(gone), handle[h].index, handle[h].filter, steps, arg)
    BY <1>6, DeletionsEffect
  <2> QED
    BY <2>1, <2>2, FilterEffectKept
<1> QED
  BY <1>2, <1>3, <1>4, <1>5, <1>6

LEMMA FilterStepsKept ==
    ASSUME TypeInv, ShapeInv, FilterInv, NEW h \in Handle,
           \/ IndexBatch(h) \/ FilterText(h) \/ FilterMetadata(h) \/ Embed(h)
           \/ DeleteDocumentRow(h) \/ PruneDocuments(h)
           \/ RebuildVectorIndex(h) \/ RebuildFilterIndex(h)
           \/ TruncateSidecar(h) \/ WriteSidecar(h) \/ Vacuum(h)
    PROVE  FilterInv'
<1>1. FilterTouch(handle[h], rows, nextKey, foreign[h])
  BY DEF IndexBatch, FilterText, FilterMetadata, Embed, DeleteDocumentRow, PruneDocuments,
         RebuildVectorIndex, RebuildFilterIndex, TruncateSidecar, WriteSidecar, Vacuum, Doing, FilterInv
<1>2. ASSUME DeleteDocumentRow(h) \/ PruneDocuments(h) PROVE FilterInv'
  <2>1. FilterTouch(handle'[h], rows', nextKey', foreign'[h])
    BY <1>1, <1>2, QuietStepFilter
  <2>2. Effect(h, {}, handle[h].index, handle[h].filter, Tail(handle[h].todo), << >>)
    BY <1>2, DropDocsEffect
  <2> QED
    BY <2>1, <2>2, FilterEffectKept
<1>3. ASSUME \/ FilterText(h) \/ FilterMetadata(h) \/ RebuildFilterIndex(h)
             \/ TruncateSidecar(h) \/ WriteSidecar(h) \/ Vacuum(h)
      PROVE  FilterInv'
  <2>1. FilterTouch(handle'[h], rows', nextKey', foreign'[h])
    BY <1>1, <1>3, FillFilter, FilterMetadataFilter, RefilterFilter, QuietStepFilter
  <2>2. \E filter : Effect(h, {}, handle[h].index, filter, Tail(handle[h].todo), << >>)
    BY <1>3, SideStepEffect
  <2> QED
    BY <2>1, <2>2, FilterEffectKept
<1>4. ASSUME IndexBatch(h) PROVE FilterInv'
  <2>1. FilterTouch(handle'[h], rows', nextKey', foreign'[h])
    BY <1>1, <1>4, FillFilter
  <2>2. \E index, filter : Effect(h, {}, index, filter, Tail(handle[h].todo), << >>)
    BY <1>4, IndexBatchEffect
  <2> QED
    BY <2>1, <2>2, FilterEffectKept
<1>5. ASSUME Embed(h) PROVE FilterInv'
  <2>1. FilterTouch(handle'[h], rows', nextKey', foreign'[h])
    BY <1>1, <1>5, EmbedFilter
  <2>2. \E cs, index, filter, steps : Effect(h, cs, index, filter, steps, << >>)
    BY <1>5, EmbedEffect
  <2> QED
    BY <2>1, <2>2, FilterEffectKept
<1>6. ASSUME RebuildVectorIndex(h) PROVE FilterInv'
  <2>1. FilterTouch(handle'[h], rows', nextKey', foreign'[h])
    BY <1>1, <1>6, RebuildFilterLater
  <2>2. /\ Evolves({})
        /\ \A g \in Handle \ {h} : handle'[g] = handle[g] /\ foreign'[g] = foreign[g] \cup {}
    BY <1>6, RebuildEffect DEF Becomes
  <2> QED
    BY <2>1, <2>2, FilterOthersKept
<1> QED
  BY <1>2, <1>3, <1>4, <1>5, <1>6

LEMMA FilterKept ==
    ASSUME TypeInv, ShapeInv, FilterInv, [Next]_vars
    PROVE  FilterInv'
<1>1. CASE Crash
  BY <1>1, CrashEffect DEF FilterInv
<1>2. ASSUME NEW h \in Handle, Open(h) PROVE FilterInv'
  <2>1. /\ Evolves({})
        /\ \A g \in Handle \ {h} : handle'[g] = handle[g] /\ foreign'[g] = foreign[g] \cup {}
    BY <1>2, OpenEffect DEF Becomes
  <2> QED
    BY <1>2, <2>1, OpenFilter, FilterOthersKept
<1>3. ASSUME NEW h \in Handle, Close(h) PROVE FilterInv'
  <2>1. /\ Evolves({}) /\ ~handle'[h].open
        /\ \A g \in Handle \ {h} : handle'[g] = handle[g] /\ foreign'[g] = foreign[g] \cup {}
    BY <1>3, CloseEffect
  <2> QED
    BY <2>1, FilterOthersKept
<1>4. CASE UNCHANGED vars
  BY <1>4 DEF vars, FilterInv
<1> QED
  BY <1>1, <1>2, <1>3, <1>4, FilterCallsKept, FilterStepsKept DEF Next

(***************************************************************************)
(* The filter index of each handle lists the stored chunks with the        *)
(* document and metadata they have now, but for what the handle's call     *)
(* still owes it and for chunks that other handles changed                 *)
(* (RetrievalFilterIndex of src/src/lib.rs).                               *)
(***************************************************************************)
THEOREM FilterInvariant == Spec => [](ShapeInv /\ FilterInv)
<1>1. Init => ShapeInv /\ FilterInv
  BY ClosedTyped DEF Init, ShapeInv, FilterInv
<1>2. TypeInv /\ ShapeInv /\ FilterInv /\ [Next]_vars => ShapeInv' /\ FilterInv'
  BY ShapeKept, FilterKept
<1> QED
  BY <1>1, <1>2, TypesInvariant, PTL DEF Spec

-----------------------------------------------------------------------------
(* Searches.                                                               *)

\* A posting that is right about the document and metadata of a row meets the
\* filters the row meets.
LEMMA SameMatches ==
    ASSUME NEW req \in Request, NEW f, NEW r, f.doc = r.doc, f.meta = r.meta
    PROVE  Matches(f, req) <=> Matches(r, req)
<1>1. \A p \in req : f[p[1]] = r[p[1]]
  BY DEF Request
<1> QED
  BY <1>1 DEF Matches

\* What a search finds of a chunk that no other handle changed.
LEMMA FoundIsRight ==
    ASSUME TypeInv, NEW h \in Handle, NEW req \in Request, NEW c \in Chunk \ foreign[h],
           Listed(handle[h].filter, rows, c), FilterKeyed(handle[h].filter, rows, nextKey),
           Tracked(handle[h].index, rows, c), Mirrors(handle[h].index, rows, {c})
    PROVE  /\ c \in Found(h, req) => \E r \in rows : r.id = c /\ Matches(r, req)
           /\ \A r \in Embedded(rows) : r.id = c /\ Matches(r, req) => c \in Found(h, req)
<1> PICK index, filter : index = handle[h].index /\ filter = handle[h].filter
  OBVIOUS
<1>1. ApartRows(rows)
  BY DEF TypeInv, TableInv
<1>2. \A r \in rows : r.id = c => FilterOf(r) \in filter /\ (Matches(FilterOf(r), req) <=> Matches(r, req))
  BY SameMatches DEF Listed, FilterOf
<1>3. ASSUME NEW r \in rows, r.id = c
      PROVE  r.key \in FilteredKeys(h, req) <=> Matches(r, req)
  <2>1. CASE \A p \in req : \E f \in filter : f[p[1]] = p[2]
    <3>1. FilteredKeys(h, req) = {f.key : f \in {x \in filter : Matches(x, req)}}
      BY <2>1 DEF FilteredKeys, Matching
    <3>2. FilterOf(r).key = r.key
      BY DEF FilterOf
    <3>3. ASSUME NEW f \in filter, f.key = r.key PROVE f = FilterOf(r)
      <4>1. f.id = c
        BY <1>3, <3>3 DEF FilterKeyed
      <4>2. PICK s \in rows : f = FilterOf(s)
        BY <4>1 DEF Listed
      <4>3. s.id = c
        BY <4>1, <4>2 DEF FilterOf
      <4> QED
        BY <1>1, <1>3, <4>2, <4>3 DEF ApartRows
    <3> QED
      BY <1>2, <1>3, <3>1, <3>2, <3>3
  <2>2. CASE ~(\A p \in req : \E f \in filter : f[p[1]] = p[2])
    <3>1. FilteredKeys(h, req) = {s.key : s \in {x \in rows : Matches(x, req)}}
      BY <2>2 DEF FilteredKeys, Matching
    <3> QED
      BY <1>1, <3>1 DEF ApartRows
  <2> QED
    BY <2>1, <2>2
<1>4. CASE index = {}
  <2>1. Found(h, req) = {r.id : r \in {x \in rows : Matches(x, req) /\ x.emb # NoEmb}}
    BY <1>4 DEF Found, Embedded, Matching
  <2> QED
    BY <2>1 DEF Embedded
<1>5. CASE index # {}
  <2>1. \A d : d \in Found(h, req) <=> /\ d \in StoredIds(rows)
                                       /\ \E e \in index : e.id = d /\ e.key \in FilteredKeys(h, req)
    BY <1>5 DEF Found
  <2>2. ASSUME c \in Found(h, req) PROVE \E r \in rows : r.id = c /\ Matches(r, req)
    <3>1. PICK e \in index : e.id = c /\ e.key \in FilteredKeys(h, req)
      BY <2>1, <2>2
    <3>2. PICK r \in rows : r.id = c
      BY <2>1, <2>2 DEF StoredIds
    <3>3. e.key = r.key
      BY <3>1, <3>2 DEF Tracked
    <3> QED
      BY <1>3, <3>1, <3>2, <3>3
  <2>3. ASSUME NEW r \in Embedded(rows), r.id = c, Matches(r, req) PROVE c \in Found(h, req)
    <3>1. PICK e \in index : e.id = c /\ e.key = r.key
      <4>1. {x \in index : x.id = c} = {[key |-> r.key, id |-> c, emb |-> r.emb]}
        BY <2>3 DEF Mirrors
      <4> PICK x : x = [key |-> r.key, id |-> c, emb |-> r.emb]
        OBVIOUS
      <4>2. x.id = c /\ x.key = r.key /\ x \in {y \in index : y.id = c}
        BY <4>1
      <4> QED
        BY <4>2
    <3>2. r \in rows /\ c \in StoredIds(rows)
      BY <2>3 DEF Embedded, StoredIds
    <3> QED
      BY <1>3, <2>1, <2>3, <3>1, <3>2
  <2> QED
    BY <2>2, <2>3
<1> QED
  BY <1>4, <1>5

(***************************************************************************)
(* A filtered search of SqlRite returns every embedded chunk that matches  *)
(* now and none that does not, whichever of the two indexes or the table   *)
(* answers, chunks changed by other handles excepted; where sidecars are   *)
(* kept, handles do not overlap and in WAL mode are not killed.            *)
(***************************************************************************)
THEOREM SearchesAreSound ==
    ASSUME SafeSidecars
    PROVE  Spec => []FilteredSearchSound
<1>1. StoreInv /\ VectorIndexFaithful /\ FilterInv => FilteredSearchSound
  <2> SUFFICES ASSUME StoreInv, VectorIndexFaithful, FilterInv, NEW h \in Handle, NEW req \in Request,
                      Idle(h), OneDimension(handle[h].index, rows)
               PROVE  LET own == {r \in rows : r.id \notin foreign[h]}
                      IN  /\ StoredIds(Embedded(Matching(own, req))) \subseteq Found(h, req)
                          /\ Found(h, req) \subseteq StoredIds(Matching(own, req)) \cup foreign[h]
    BY DEF FilteredSearchSound
  <2>1. TypeInv /\ rows \in SUBSET Row /\ handle[h].open
    BY DEF StoreInv, TypeInv, TableInv, Idle
  <2>2. ASSUME NEW c \in Chunk \ foreign[h]
        PROVE  /\ c \in Found(h, req) => \E r \in rows : r.id = c /\ Matches(r, req)
               /\ \A r \in Embedded(rows) : r.id = c /\ Matches(r, req) => c \in Found(h, req)
    <3>1. Listed(handle[h].filter, rows, c) /\ FilterKeyed(handle[h].filter, rows, nextKey)
      BY <2>1, IdleFilter DEF FilterInv, FilterTouch
    <3>2. Tracked(handle[h].index, rows, c)
      BY <2>1, NoSteps DEF StoreInv, Idle, IndexInv, InTouch, Tracking
    <3>3. Mirrors(handle[h].index, rows, {c})
      BY DEF VectorIndexFaithful, Mirrors
    <3> QED
      BY <2>1, <3>1, <3>2, <3>3, FoundIsRight
  <2>3. Found(h, req) \in SUBSET Chunk
    BY <2>1 DEF Found, StoredIds, Embedded, Matching, Row
  <2>4. \A r \in rows : r.id \in Chunk
    BY <2>1 DEF Row
  <2> QED
    BY <2>2, <2>3, <2>4 DEF StoredIds, Embedded, Matching
<1> QED
  BY <1>1, StoreInvariant, IndexesMirrorTable, FilterInvariant, PTL
=============================================================================
