------------------------- MODULE VectorIndexProofs -------------------------
(***************************************************************************)
(* The vector index, for any batches, dimensions, planes and sizes: what   *)
(* agrees in it after every record of a batch, by induction over batches,  *)
(* and that each of its steps is a step of the map that SimilarityMap says *)
(* it is.                                                                  *)
(***************************************************************************)
EXTENDS VectorIndex, SelectionLemmas

-----------------------------------------------------------------------------
(* Lists of anything.                                                      *)

IsList(s) == \E S : s \in Seq(S)

LEMMA WiderSequence ==
    ASSUME NEW S, NEW s \in Seq(S), NEW x
    PROVE  s \in Seq(S \cup {x})
<1>1. Len(s) \in Nat /\ \A i \in 1..Len(s) : s[i] \in S \cup {x}
    OBVIOUS
<1>2. s = [i \in 1..Len(s) |-> s[i]]
    OBVIOUS
<1> QED BY <1>1, <1>2

LEMMA AppendedList ==
    ASSUME NEW s, IsList(s), NEW x
    PROVE  /\ IsList(Append(s, x)) /\ Len(s) \in Nat /\ DOMAIN s = 1..Len(s)
           /\ Len(Append(s, x)) = Len(s) + 1 /\ DOMAIN Append(s, x) = DOMAIN s \cup {Len(s) + 1}
           /\ Len(s) + 1 \notin DOMAIN s /\ Len(s) + 1 \in Nat
           /\ \A i \in DOMAIN s : Append(s, x)[i] = s[i]
           /\ Append(s, x)[Len(s) + 1] = x
<1>1. PICK S : s \in Seq(S)
    BY DEF IsList
<1>2. s \in Seq(S \cup {x})
    BY <1>1, WiderSequence
<1>3. Append(s, x) \in Seq(S \cup {x})
    BY <1>2
<1>4. IsList(Append(s, x))
    BY <1>3 DEF IsList
<1> QED BY <1>1, <1>4

LEMMA ChangedList ==
    ASSUME NEW s, IsList(s), NEW n \in DOMAIN s, NEW x
    PROVE  IsList([s EXCEPT ![n] = x])
<1>1. PICK S : s \in Seq(S)
    BY DEF IsList
<1>2. s \in Seq(S \cup {x})
    BY <1>1, WiderSequence
<1>3. [s EXCEPT ![n] = x] \in Seq(S \cup {x})
    BY <1>2
<1> QED BY <1>3 DEF IsList

-----------------------------------------------------------------------------
(* The vector index.                                                       *)

StorageKinds == {"brute", "lsh", "hnsw"}
IndexEntry == [key : Nat, id : IndexIds, emb : Seq(Int)]
IndexFields == {"kind", "entries", "at", "byKey", "dim", "tables", "graph", "dirty", "next"}

\* A bucket names the positions, each once.
Holds(ps, positions) == ps \in Seq(Nat) /\ IsInjective(ps) /\ ToSet(ps) = positions

\* The positions of the vectors that belong in a bucket.
Belonging(vectors, t, b) == {p \in DOMAIN vectors : Bucket(vectors[p], t) = b}

\* The tables of a dimension for the vectors at some positions.
Filled(tables, dim, vectors) ==
    \A t \in DOMAIN tables :
       /\ DOMAIN tables[t] = SUBSET DOMAIN Planes[dim][t]
       /\ \A b \in DOMAIN tables[t] : Holds(tables[t][b], Belonging(vectors, t, b))

\* Tables after a position was put in, taken out, or renamed.
PutAt(tables, v, p) == [t \in DOMAIN tables |-> [tables[t] EXCEPT ![Bucket(v, t)] = Append(@, p)]]
TakenAt(tables, v, p) == [t \in DOMAIN tables |-> [tables[t] EXCEPT ![Bucket(v, t)] = Except(@, p)]]
Renamed(ps, old, p) == [i \in DOMAIN ps |-> IF ps[i] = old THEN p ELSE ps[i]]
RenamedAt(tables, v, old, p) ==
    [t \in DOMAIN tables |-> [tables[t] EXCEPT ![Bucket(v, t)] = Renamed(@, old, p)]]

\* Vectors at positions, with one more, one less, one elsewhere.
Plus(vectors, p, v) == [q \in DOMAIN vectors \cup {p} |-> IF q = p THEN v ELSE vectors[q]]
Minus(vectors, p) == [q \in DOMAIN vectors \ {p} |-> vectors[q]]
MovedTo(vectors, old, p) ==
    [q \in (DOMAIN vectors \ {old}) \cup {p} |-> IF q = p THEN vectors[old] ELSE vectors[q]]

LEMMA ExceptFacts ==
    ASSUME NEW ps, NEW positions, Holds(ps, positions), NEW p
    PROVE  Holds(Except(ps, p), positions \ {p})
<1> DEFINE kept == {i \in DOMAIN ps : ps[i] # p}
<1>1. ps \in Seq(Nat) /\ \A i, j \in DOMAIN ps : ps[i] = ps[j] => i = j
    BY DEF Holds, IsInjective
<1>2. positions = {ps[i] : i \in DOMAIN ps}
    BY DEF Holds, ToSet
<1>3. Except(ps, p) = SelectAt(ps, kept) /\ kept \in SUBSET DOMAIN ps
    BY DEF Except
<1> DEFINE q == SelectAt(ps, kept)
<1>4. /\ q \in Seq(Nat)
      /\ \A n \in DOMAIN q : Nth(kept, n) \in kept /\ q[n] = ps[Nth(kept, n)] /\ RankIn(kept, Nth(kept, n)) = n
      /\ \A i \in kept : RankIn(kept, i) \in DOMAIN q /\ q[RankIn(kept, i)] = ps[i]
    BY <1>1, <1>3, SelectAtFacts
<1>5. \A m, n \in DOMAIN q : q[m] = q[n] => m = n
    BY <1>1, <1>4
<1>6. {q[n] : n \in DOMAIN q} = positions \ {p}
    <2>1. ASSUME NEW n \in DOMAIN q PROVE q[n] \in positions \ {p}
        BY <1>2, <1>4
    <2>2. ASSUME NEW o \in positions, o # p PROVE \E n \in DOMAIN q : q[n] = o
        <3>1. PICK i \in DOMAIN ps : ps[i] = o
            BY <1>2
        <3>2. i \in kept
            BY <2>2, <3>1
        <3> HIDE DEF q, kept
        <3> QED BY <1>4, <3>1, <3>2
    <2> HIDE DEF q
    <2> QED BY <2>1, <2>2
<1>7. Except(ps, p) = q
    BY <1>3
<1> HIDE DEF q
<1> QED BY <1>4, <1>5, <1>6, <1>7 DEF Holds, IsInjective, ToSet

LEMMA AppendHolds ==
    ASSUME NEW ps, NEW positions, Holds(ps, positions), NEW p \in Nat, p \notin positions
    PROVE  Holds(Append(ps, p), positions \cup {p})
<1> DEFINE q == Append(ps, p)
<1>1. ps \in Seq(Nat) /\ (\A i, j \in DOMAIN ps : ps[i] = ps[j] => i = j)
      /\ positions = {ps[i] : i \in DOMAIN ps}
    BY DEF Holds, IsInjective, ToSet
<1>2. q \in Seq(Nat) /\ DOMAIN q = DOMAIN ps \cup {Len(ps) + 1} /\ q[Len(ps) + 1] = p
      /\ \A i \in DOMAIN ps : q[i] = ps[i]
    BY <1>1
<1>3. \A i, j \in DOMAIN q : q[i] = q[j] => i = j
    BY <1>1, <1>2
<1>4. {q[i] : i \in DOMAIN q} = positions \cup {p}
    BY <1>1, <1>2
<1> QED BY <1>2, <1>3, <1>4 DEF Holds, IsInjective, ToSet

LEMMA RenamedHolds ==
    ASSUME NEW ps, NEW positions, Holds(ps, positions), NEW old \in positions, NEW p \in Nat,
           p \notin positions
    PROVE  Holds(Renamed(ps, old, p), (positions \ {old}) \cup {p})
<1> DEFINE q == Renamed(ps, old, p)
<1>1. ps \in Seq(Nat) /\ (\A i, j \in DOMAIN ps : ps[i] = ps[j] => i = j)
      /\ positions = {ps[i] : i \in DOMAIN ps}
    BY DEF Holds, IsInjective, ToSet
<1>2. q \in Seq(Nat) /\ DOMAIN q = DOMAIN ps
      /\ \A i \in DOMAIN ps : q[i] = IF ps[i] = old THEN p ELSE ps[i]
    BY <1>1 DEF Renamed
<1>3. \A i, j \in DOMAIN q : q[i] = q[j] => i = j
    BY <1>1, <1>2
<1>4. {q[i] : i \in DOMAIN q} = (positions \ {old}) \cup {p}
    BY <1>1, <1>2
<1> QED BY <1>2, <1>3, <1>4 DEF Holds, IsInjective, ToSet

-----------------------------------------------------------------------------
(* What the LSH tables hold after a position was taken out, put in, or     *)
(* renamed.                                                                *)

LEMMA TakenAtFacts ==
    ASSUME NEW tables, NEW dim, NEW vectors, DOMAIN vectors \subseteq Nat, Filled(tables, dim, vectors),
           NEW p \in DOMAIN vectors
    PROVE  Filled(TakenAt(tables, vectors[p], p), dim, Minus(vectors, p))
<1> DEFINE new == TakenAt(tables, vectors[p], p)
           other == Minus(vectors, p)
<1>1. ASSUME NEW t \in DOMAIN tables, NEW b \in DOMAIN tables[t]
      PROVE  Holds(new[t][b], Belonging(other, t, b))
    <2>1. Holds(tables[t][b], Belonging(vectors, t, b))
        BY DEF Filled
    <2>2. CASE b = Bucket(vectors[p], t)
        <3>1. new[t][b] = Except(tables[t][b], p)
            BY <2>2 DEF TakenAt
        <3>2. Belonging(other, t, b) = Belonging(vectors, t, b) \ {p}
            BY <2>2 DEF Belonging, Minus
        <3>3. Holds(Except(tables[t][b], p), Belonging(vectors, t, b) \ {p})
            BY <2>1, <3>2, ExceptFacts
        <3> QED BY <3>1, <3>2, <3>3
    <2>3. CASE b # Bucket(vectors[p], t)
        <3>1. new[t][b] = tables[t][b]
            BY <2>3 DEF TakenAt
        <3>2. Belonging(other, t, b) = Belonging(vectors, t, b)
            BY <2>3 DEF Belonging, Minus
        <3> QED BY <2>1, <3>1, <3>2
    <2> QED BY <2>2, <2>3
<1>2. DOMAIN new = DOMAIN tables
      /\ \A t \in DOMAIN tables : DOMAIN new[t] = DOMAIN tables[t]
                                 /\ DOMAIN tables[t] = SUBSET DOMAIN Planes[dim][t]
    BY DEF Filled, TakenAt
<1> HIDE DEF new, other
<1>3. Filled(new, dim, other)
    BY <1>1, <1>2 DEF Filled
<1> QED BY <1>3 DEF new, other

LEMMA PutAtFacts ==
    ASSUME NEW tables, NEW dim, NEW vectors, DOMAIN vectors \subseteq Nat, Filled(tables, dim, vectors),
           NEW p \in Nat, p \notin DOMAIN vectors, NEW v
    PROVE  Filled(PutAt(tables, v, p), dim, Plus(vectors, p, v))
<1> DEFINE new == PutAt(tables, v, p)
           other == Plus(vectors, p, v)
<1>1. ASSUME NEW t \in DOMAIN tables, NEW b \in DOMAIN tables[t]
      PROVE  Holds(new[t][b], Belonging(other, t, b))
    <2>1. Holds(tables[t][b], Belonging(vectors, t, b))
        BY DEF Filled
    <2>2. CASE b = Bucket(v, t)
        <3>1. new[t][b] = Append(tables[t][b], p)
            BY <2>2 DEF PutAt
        <3>2. Belonging(other, t, b) = Belonging(vectors, t, b) \cup {p}
              /\ p \notin Belonging(vectors, t, b)
            BY <2>2 DEF Belonging, Plus
        <3>3. Holds(Append(tables[t][b], p), Belonging(vectors, t, b) \cup {p})
            BY <2>1, <3>2, AppendHolds
        <3> QED BY <3>1, <3>2, <3>3
    <2>3. CASE b # Bucket(v, t)
        <3>1. new[t][b] = tables[t][b]
            BY <2>3 DEF PutAt
        <3>2. Belonging(other, t, b) = Belonging(vectors, t, b)
            BY <2>3 DEF Belonging, Plus
        <3> QED BY <2>1, <3>1, <3>2
    <2> QED BY <2>2, <2>3
<1>2. DOMAIN new = DOMAIN tables
      /\ \A t \in DOMAIN tables : DOMAIN new[t] = DOMAIN tables[t]
                                 /\ DOMAIN tables[t] = SUBSET DOMAIN Planes[dim][t]
    BY DEF Filled, PutAt
<1> HIDE DEF new, other
<1>3. Filled(new, dim, other)
    BY <1>1, <1>2 DEF Filled
<1> QED BY <1>3 DEF new, other

LEMMA RenamedAtFacts ==
    ASSUME NEW tables, NEW dim, NEW vectors, DOMAIN vectors \subseteq Nat, Filled(tables, dim, vectors),
           NEW old \in DOMAIN vectors, NEW p \in Nat, p \notin DOMAIN vectors
    PROVE  Filled(RenamedAt(tables, vectors[old], old, p), dim, MovedTo(vectors, old, p))
<1> DEFINE new == RenamedAt(tables, vectors[old], old, p)
           other == MovedTo(vectors, old, p)
<1>1. ASSUME NEW t \in DOMAIN tables, NEW b \in DOMAIN tables[t]
      PROVE  Holds(new[t][b], Belonging(other, t, b))
    <2>1. Holds(tables[t][b], Belonging(vectors, t, b))
        BY DEF Filled
    <2>2. CASE b = Bucket(vectors[old], t)
        <3>1. new[t][b] = Renamed(tables[t][b], old, p)
            BY <2>2 DEF RenamedAt
        <3>2. Belonging(other, t, b) = (Belonging(vectors, t, b) \ {old}) \cup {p}
              /\ p \notin Belonging(vectors, t, b) /\ old \in Belonging(vectors, t, b)
            BY <2>2 DEF Belonging, MovedTo
        <3>3. Holds(Renamed(tables[t][b], old, p), (Belonging(vectors, t, b) \ {old}) \cup {p})
            BY <2>1, <3>2, RenamedHolds
        <3> QED BY <3>1, <3>2, <3>3
    <2>3. CASE b # Bucket(vectors[old], t)
        <3>1. new[t][b] = tables[t][b]
            BY <2>3 DEF RenamedAt
        <3>2. Belonging(other, t, b) = Belonging(vectors, t, b)
            BY <2>3 DEF Belonging, MovedTo
        <3> QED BY <2>1, <3>1, <3>2
    <2> QED BY <2>2, <2>3
<1>2. DOMAIN new = DOMAIN tables
      /\ \A t \in DOMAIN tables : DOMAIN new[t] = DOMAIN tables[t]
                                 /\ DOMAIN tables[t] = SUBSET DOMAIN Planes[dim][t]
    BY DEF Filled, RenamedAt
<1> HIDE DEF new, other
<1>3. Filled(new, dim, other)
    BY <1>1, <1>2 DEF Filled
<1> QED BY <1>3 DEF new, other

-----------------------------------------------------------------------------
(* What agrees in an index between its changes, and between the records of *)
(* a batch.                                                                *)

VectorsOf(ix) == [p \in DOMAIN ix.entries |-> ix.entries[p].emb]

IndexShape(ix) ==
    /\ DOMAIN ix = IndexFields
    /\ ix.kind \in StorageKinds /\ ix.entries \in Seq(IndexEntry) /\ ix.dim \in Nat /\ ix.next \in Nat
    /\ ix.dirty \in BOOLEAN
KeysFit(ix) ==
    /\ DOMAIN ix.byKey = {ix.entries[p].key : p \in DOMAIN ix.entries}
    /\ \A p \in DOMAIN ix.entries : ix.byKey[ix.entries[p].key] = p
IdsFit(ix) ==
    \A id \in DOMAIN ix.at : ix.at[id] \in DOMAIN ix.entries /\ ix.entries[ix.at[id]].id = id
VectorsFit(ix) ==
    \A p \in DOMAIN ix.entries : Len(ix.entries[p].emb) = ix.dim /\ ix.entries[p].key < ix.next
TablesFit(ix) ==
    /\ DOMAIN ix.tables = IF ix.kind = "lsh" /\ ix.dim # 0 THEN DOMAIN Planes[ix.dim] ELSE {}
    /\ Filled(ix.tables, ix.dim, VectorsOf(ix))

Sound(ix) == IndexShape(ix) /\ KeysFit(ix) /\ IdsFit(ix) /\ VectorsFit(ix) /\ TablesFit(ix)

\* No id has two keys, and each is found.
Complete(ix) ==
    /\ DOMAIN ix.at = {ix.entries[p].id : p \in DOMAIN ix.entries}
    /\ \A p, o \in DOMAIN ix.entries : ix.entries[p].id = ix.entries[o].id => p = o

AnyRecord == [key : Nat, id : IndexIds, emb : Seq(Int)]

LEMMA UnitFacts ==
    ASSUME NEW v \in Seq(Int)
    PROVE  Unit(v) \in Seq(Int) /\ Len(Unit(v)) = Len(v)
<1>1. \A i \in DOMAIN v : Sign(v[i]) \in Int
    BY DEF Sign
<1>2. Unit(v) = [i \in 1..Len(v) |-> Sign(v[i])]
    BY DEF Unit
<1> QED BY <1>1, <1>2

LEMMA EntryOfFacts ==
    ASSUME NEW r \in AnyRecord
    PROVE  /\ EntryOf(r) \in IndexEntry
           /\ EntryOf(r).key = r.key /\ EntryOf(r).id = r.id /\ EntryOf(r).emb = Unit(r.emb)
           /\ Len(EntryOf(r).emb) = Len(r.emb)
<1>1. r.emb \in Seq(Int) /\ r.key \in Nat /\ r.id \in IndexIds
    BY DEF AnyRecord
<1>2. Unit(r.emb) \in Seq(Int) /\ Len(Unit(r.emb)) = Len(r.emb)
    BY <1>1, UnitFacts
<1> QED BY <1>1, <1>2 DEF EntryOf, IndexEntry

\* What the three changes of the tables leave alone.
SameBut(new, ix) ==
    /\ DOMAIN new = IndexFields
    /\ new.kind = ix.kind /\ new.entries = ix.entries /\ new.at = ix.at /\ new.byKey = ix.byKey
    /\ new.dim = ix.dim /\ new.graph = ix.graph /\ new.dirty = ix.dirty /\ new.next = ix.next

LEMMA TableSteps ==
    ASSUME NEW ix, DOMAIN ix = IndexFields, NEW p, NEW v, NEW old
    PROVE  /\ SameBut(Inserted(ix, p, v), ix) /\ Inserted(ix, p, v).tables = PutAt(ix.tables, v, p)
           /\ SameBut(TakenOut(ix, p, v), ix) /\ TakenOut(ix, p, v).tables = TakenAt(ix.tables, v, p)
           /\ SameBut(Rebound(ix, old, p, v), ix)
           /\ Rebound(ix, old, p, v).tables = RenamedAt(ix.tables, v, old, p)
<1> DEFINE b == Buckets(ix, v)
           ins == [t \in DOMAIN b |-> [ix.tables[t] EXCEPT ![b[t]] = Append(@, p)]]
           out == [t \in DOMAIN b |-> [ix.tables[t] EXCEPT ![b[t]] = Except(@, p)]]
           ren == [t \in DOMAIN b |-> [ix.tables[t] EXCEPT ![b[t]] = Renamed(@, old, p)]]
<1>1. /\ Inserted(ix, p, v) = [ix EXCEPT !.tables = ins]
      /\ TakenOut(ix, p, v) = [ix EXCEPT !.tables = out]
      /\ Rebound(ix, old, p, v) = [ix EXCEPT !.tables = ren]
    BY DEF Inserted, TakenOut, Rebound, Renamed
<1>2. DOMAIN b = DOMAIN ix.tables /\ \A t \in DOMAIN b : b[t] = Bucket(v, t)
    BY DEF Buckets
<1>3. ins = PutAt(ix.tables, v, p) /\ out = TakenAt(ix.tables, v, p)
      /\ ren = RenamedAt(ix.tables, v, old, p)
    BY <1>2 DEF PutAt, TakenAt, RenamedAt
<1> HIDE DEF ins, out, ren
<1>4. "tables" \in DOMAIN ix /\ \A f \in IndexFields : f \in DOMAIN ix
    BY DEF IndexFields
<1>5. \A x : /\ DOMAIN [ix EXCEPT !.tables = x] = IndexFields /\ [ix EXCEPT !.tables = x].tables = x
             /\ \A f \in IndexFields : f # "tables" => [ix EXCEPT !.tables = x][f] = ix[f]
    BY <1>4
<1> QED BY <1>1, <1>3, <1>5 DEF IndexFields, SameBut

\* A new key takes a position of its own.
LEMMA PushedSound ==
    ASSUME NEW ix, Sound(ix), NEW r \in AnyRecord, Len(r.emb) = ix.dim, r.key < ix.next,
           r.key \notin DOMAIN ix.byKey
    PROVE  LET new == Pushed(ix, r)
           IN  /\ Sound(new) /\ new.dim = ix.dim /\ new.kind = ix.kind
               /\ new.graph = ix.graph /\ new.dirty = ix.dirty /\ new.entries # << >>
               /\ Complete(ix) /\ ~Crowds(new) => Complete(new)
<1> DEFINE p == Size(ix) + 1
           e == EntryOf(r)
           m == [ix EXCEPT !.entries = Append(@, EntryOf(r)), !.at = Mapped(@, r.id, p),
                           !.byKey = Mapped(@, r.key, p)]
           new == Pushed(ix, r)
           more == Plus(VectorsOf(ix), p, Unit(r.emb))
<1>1. /\ DOMAIN ix = IndexFields /\ ix.entries \in Seq(IndexEntry) /\ p \in Nat \ {0}
      /\ p \notin DOMAIN ix.entries /\ DOMAIN ix.entries \subseteq Nat
    BY DEF Sound, IndexShape, Size
<1>2. e \in IndexEntry /\ e.key = r.key /\ e.id = r.id /\ e.emb = Unit(r.emb) /\ Len(e.emb) = ix.dim
    BY EntryOfFacts
<1>3. /\ DOMAIN m = IndexFields /\ m.kind = ix.kind /\ m.dim = ix.dim /\ m.graph = ix.graph
      /\ m.dirty = ix.dirty /\ m.next = ix.next /\ m.tables = ix.tables
      /\ m.entries = Append(ix.entries, e)
      /\ m.at = Mapped(ix.at, r.id, p) /\ m.byKey = Mapped(ix.byKey, r.key, p)
    BY <1>1 DEF IndexFields
<1>4. new = Inserted(m, p, Unit(r.emb))
    BY DEF Pushed
<1> HIDE DEF m
<1>5. /\ DOMAIN new = IndexFields /\ new.kind = ix.kind /\ new.dim = ix.dim /\ new.graph = ix.graph
      /\ new.dirty = ix.dirty /\ new.next = ix.next
      /\ new.entries = Append(ix.entries, e)
      /\ new.at = Mapped(ix.at, r.id, p) /\ new.byKey = Mapped(ix.byKey, r.key, p)
      /\ new.tables = PutAt(ix.tables, Unit(r.emb), p)
    BY <1>3, <1>4, TableSteps DEF SameBut
<1> HIDE DEF new, e
<1>6. /\ new.entries \in Seq(IndexEntry) /\ DOMAIN new.entries = DOMAIN ix.entries \cup {p}
      /\ new.entries[p] = e /\ \A q \in DOMAIN ix.entries : new.entries[q] = ix.entries[q]
      /\ new.entries # << >>
    BY <1>1, <1>2, <1>5 DEF Size
<1> HIDE DEF p
<1>7. IndexShape(new)
    BY <1>5, <1>6 DEF Sound, IndexShape
<1>8. KeysFit(new)
    <2>1. \A q \in DOMAIN ix.entries : ix.entries[q].key \in DOMAIN ix.byKey
                                       /\ ix.byKey[ix.entries[q].key] = q
        BY DEF Sound, KeysFit
    <2>2. DOMAIN new.byKey = DOMAIN ix.byKey \cup {r.key}
          /\ \A k \in DOMAIN new.byKey : new.byKey[k] = IF k = r.key THEN p ELSE ix.byKey[k]
        BY <1>5 DEF Mapped
    <2>3. DOMAIN ix.byKey = {ix.entries[q].key : q \in DOMAIN ix.entries}
        BY DEF Sound, KeysFit
    <2>4. \A k : k \in DOMAIN new.byKey <=> \E q \in DOMAIN new.entries : k = new.entries[q].key
        BY <1>2, <1>6, <2>2, <2>3
    <2>5. \A q \in DOMAIN new.entries : new.byKey[new.entries[q].key] = q
        BY <1>2, <1>6, <2>1, <2>2
    <2>6. DOMAIN new.byKey = {new.entries[q].key : q \in DOMAIN new.entries}
        BY <2>4
    <2> QED BY <2>5, <2>6 DEF KeysFit
<1>9. DOMAIN new.at = DOMAIN ix.at \cup {r.id}
      /\ \A id \in DOMAIN new.at : new.at[id] = IF id = r.id THEN p ELSE ix.at[id]
    BY <1>5 DEF Mapped
<1>10. IdsFit(new)
    BY <1>2, <1>6, <1>9 DEF Sound, IdsFit
<1>11. VectorsFit(new)
    BY <1>2, <1>5, <1>6 DEF Sound, VectorsFit
<1>12. TablesFit(new)
    <2>1. DOMAIN VectorsOf(ix) = DOMAIN ix.entries
        BY DEF VectorsOf
    <2>2. VectorsOf(new) = more
        BY <1>2, <1>6, <2>1 DEF VectorsOf, Plus
    <2>3. Len(Unit(r.emb)) = ix.dim /\ Filled(ix.tables, ix.dim, VectorsOf(ix))
        BY <1>2 DEF Sound, TablesFit
    <2>4. Filled(new.tables, ix.dim, more)
        BY <1>1, <1>5, <2>1, <2>3, PutAtFacts
    <2>5. DOMAIN new.tables = DOMAIN ix.tables
        BY <1>5 DEF PutAt
    <2> QED BY <1>5, <2>2, <2>4, <2>5 DEF Sound, TablesFit
<1>13. ASSUME Complete(ix), ~Crowds(new) PROVE Complete(new)
    <2>1. \A id : id \in DOMAIN new.at <=> \E q \in DOMAIN new.entries : id = new.entries[q].id
        BY <1>2, <1>6, <1>9, <1>13 DEF Complete
    <2>2. DOMAIN new.at = {new.entries[q].id : q \in DOMAIN new.entries}
        BY <2>1
    <2> QED BY <1>13, <2>2 DEF Complete, Crowds
<1> QED BY <1>5, <1>6, <1>7, <1>8, <1>10, <1>11, <1>12, <1>13 DEF Sound, new

\* A known key keeps its position.
LEMMA ReplacedSound ==
    ASSUME NEW ix, Sound(ix), NEW r \in AnyRecord, Len(r.emb) = ix.dim, r.key < ix.next,
           r.key \in DOMAIN ix.byKey
    PROVE  LET new == Replaced(ix, r, ix.byKey[r.key])
           IN  /\ Sound(new) /\ new.dim = ix.dim /\ new.kind = ix.kind
               /\ new.graph = ix.graph /\ new.dirty = ix.dirty /\ new.entries # << >>
               /\ Complete(ix) /\ ~Crowds(new) => Complete(new)
<1>0. PICK p \in DOMAIN ix.entries : ix.entries[p].key = r.key /\ ix.byKey[r.key] = p
    BY DEF Sound, KeysFit
<1> DEFINE e == EntryOf(r)
           old == ix.entries[p]
           m == [ix EXCEPT !.entries[p] = EntryOf(r), !.at = Mapped(Unmapped(@, old.id), r.id, p)]
           out == TakenOut(m, p, old.emb)
           new == Replaced(ix, r, p)
           rest == Minus(VectorsOf(ix), p)
           more == Plus(rest, p, Unit(r.emb))
<1>1. /\ DOMAIN ix = IndexFields /\ ix.entries \in Seq(IndexEntry) /\ p \in Nat
      /\ DOMAIN ix.entries \subseteq Nat /\ old \in IndexEntry
    BY DEF Sound, IndexShape
<1>2. e \in IndexEntry /\ e.key = r.key /\ e.id = r.id /\ e.emb = Unit(r.emb) /\ Len(e.emb) = ix.dim
    BY EntryOfFacts
<1>3. /\ DOMAIN m = IndexFields /\ m.kind = ix.kind /\ m.dim = ix.dim /\ m.graph = ix.graph
      /\ m.dirty = ix.dirty /\ m.next = ix.next /\ m.tables = ix.tables /\ m.byKey = ix.byKey
      /\ m.entries = [ix.entries EXCEPT ![p] = e]
      /\ m.at = Mapped(Unmapped(ix.at, old.id), r.id, p)
    BY <1>1 DEF IndexFields
<1>4. new = Inserted(out, p, Unit(r.emb))
    BY DEF Replaced
<1> HIDE DEF m
<1>5. /\ DOMAIN out = IndexFields /\ out.kind = ix.kind /\ out.dim = ix.dim /\ out.graph = ix.graph
      /\ out.dirty = ix.dirty /\ out.next = ix.next /\ out.byKey = ix.byKey
      /\ out.entries = [ix.entries EXCEPT ![p] = e]
      /\ out.at = Mapped(Unmapped(ix.at, old.id), r.id, p)
      /\ out.tables = TakenAt(ix.tables, old.emb, p)
    BY <1>3, TableSteps DEF SameBut
<1> HIDE DEF out
<1>6. /\ DOMAIN new = IndexFields /\ new.kind = ix.kind /\ new.dim = ix.dim /\ new.graph = ix.graph
      /\ new.dirty = ix.dirty /\ new.next = ix.next /\ new.byKey = ix.byKey
      /\ new.entries = [ix.entries EXCEPT ![p] = e]
      /\ new.at = Mapped(Unmapped(ix.at, old.id), r.id, p)
      /\ new.tables = PutAt(out.tables, Unit(r.emb), p)
    BY <1>4, <1>5, TableSteps DEF SameBut
<1> HIDE DEF new, e
<1>7. /\ new.entries \in Seq(IndexEntry) /\ DOMAIN new.entries = DOMAIN ix.entries
      /\ new.entries[p] = e /\ \A q \in DOMAIN ix.entries : q # p => new.entries[q] = ix.entries[q]
      /\ new.entries # << >>
    BY <1>1, <1>2, <1>6
<1>8. IndexShape(new)
    BY <1>6, <1>7 DEF Sound, IndexShape
<1>9. KeysFit(new)
    <2>1. \A q \in DOMAIN ix.entries : new.entries[q].key = ix.entries[q].key
        BY <1>0, <1>2, <1>7
    <2>2. {new.entries[q].key : q \in DOMAIN new.entries} = {ix.entries[q].key : q \in DOMAIN ix.entries}
        BY <1>7, <2>1
    <2> QED BY <1>6, <1>7, <2>1, <2>2 DEF Sound, KeysFit
<1>10. DOMAIN new.at = (DOMAIN ix.at \ {old.id}) \cup {r.id}
       /\ \A id \in DOMAIN new.at : new.at[id] = IF id = r.id THEN p ELSE ix.at[id]
    BY <1>6 DEF Mapped, Unmapped
<1>11. IdsFit(new)
    <2> SUFFICES ASSUME NEW id \in DOMAIN new.at
                 PROVE  new.at[id] \in DOMAIN new.entries /\ new.entries[new.at[id]].id = id
        BY DEF IdsFit
    <2>1. CASE id = r.id
        BY <1>2, <1>7, <1>10, <2>1
    <2>2. CASE id # r.id
        <3>1. id \in DOMAIN ix.at /\ id # old.id /\ new.at[id] = ix.at[id]
            BY <1>10, <2>2
        <3>2. ix.at[id] \in DOMAIN ix.entries /\ ix.entries[ix.at[id]].id = id
            BY <3>1 DEF Sound, IdsFit
        <3>3. ix.at[id] # p
            BY <3>1, <3>2
        <3> QED BY <1>7, <3>1, <3>2, <3>3
    <2> QED BY <2>1, <2>2
<1>12. VectorsFit(new)
    BY <1>2, <1>6, <1>7 DEF Sound, VectorsFit
<1>13. TablesFit(new)
    <2>1. DOMAIN VectorsOf(ix) = DOMAIN ix.entries /\ VectorsOf(ix)[p] = old.emb
        BY DEF VectorsOf
    <2>2. DOMAIN rest = DOMAIN ix.entries \ {p} /\ p \notin DOMAIN rest /\ DOMAIN rest \subseteq Nat
          /\ \A q \in DOMAIN rest : rest[q] = VectorsOf(ix)[q]
        BY <1>1, <2>1 DEF Minus
    <2>3. VectorsOf(new) = more
        <3>1. DOMAIN more = DOMAIN new.entries
            BY <1>7, <2>2 DEF Plus
        <3>2. ASSUME NEW q \in DOMAIN new.entries PROVE more[q] = new.entries[q].emb
            BY <1>2, <1>7, <2>1, <2>2 DEF VectorsOf, Plus
        <3>3. more = [q \in DOMAIN more |-> more[q]]
            BY DEF Plus
        <3> HIDE DEF more
        <3> QED BY <3>1, <3>2, <3>3 DEF VectorsOf
    <2>4. Len(old.emb) = ix.dim /\ Filled(ix.tables, ix.dim, VectorsOf(ix))
        BY DEF Sound, TablesFit, VectorsFit
    <2>5. Filled(out.tables, ix.dim, rest)
        BY <1>1, <1>5, <2>1, <2>4, TakenAtFacts
    <2> HIDE DEF rest
    <2>6. Filled(new.tables, ix.dim, more)
        BY <1>1, <1>2, <1>6, <2>2, <2>5, PutAtFacts
    <2>7. DOMAIN new.tables = DOMAIN ix.tables
        BY <1>5, <1>6 DEF PutAt, TakenAt
    <2> QED BY <1>6, <2>3, <2>6, <2>7 DEF Sound, TablesFit
<1>14. ASSUME Complete(ix), ~Crowds(new) PROVE Complete(new)
    <2>1. ASSUME NEW id PROVE id \in DOMAIN new.at <=> \E q \in DOMAIN new.entries : id = new.entries[q].id
        <3>1. CASE id = r.id
            BY <1>2, <1>7, <1>10, <3>1
        <3>2. CASE id # r.id
            <4>1. id \in DOMAIN new.at <=> (id # old.id /\ \E q \in DOMAIN ix.entries : id = ix.entries[q].id)
                BY <1>10, <1>14, <3>2 DEF Complete
            <4>2. \A q \in DOMAIN ix.entries : ix.entries[q].id = old.id => q = p
                BY <1>14 DEF Complete
            <4> QED BY <1>2, <1>7, <3>2, <4>1, <4>2
        <3> QED BY <3>1, <3>2
    <2>2. DOMAIN new.at = {new.entries[q].id : q \in DOMAIN new.entries}
        BY <2>1
    <2> QED BY <1>14, <2>2 DEF Complete, Crowds
<1> QED BY <1>0, <1>6, <1>7, <1>8, <1>9, <1>11, <1>12, <1>13, <1>14 DEF Sound, new

-----------------------------------------------------------------------------
(* A batch, record by record.                                              *)

Raised(ix, r) == [ix EXCEPT !.next = AtLeast(@, r.key + 1)]

SameButNext(new, ix) ==
    /\ DOMAIN new = IndexFields
    /\ new.kind = ix.kind /\ new.entries = ix.entries /\ new.at = ix.at /\ new.byKey = ix.byKey
    /\ new.dim = ix.dim /\ new.tables = ix.tables /\ new.graph = ix.graph /\ new.dirty = ix.dirty

\* An index that differs from another one by a higher next key.
Later(new, ix) == SameButNext(new, ix) /\ new.next \in Nat /\ ix.next <= new.next

LEMMA LaterSound ==
    ASSUME NEW ix, Sound(ix), NEW new, Later(new, ix)
    PROVE  Sound(new) /\ (Complete(ix) => Complete(new))
<1>1. /\ DOMAIN new = IndexFields /\ new.kind = ix.kind /\ new.entries = ix.entries
      /\ new.at = ix.at /\ new.byKey = ix.byKey /\ new.dim = ix.dim /\ new.tables = ix.tables
      /\ new.dirty = ix.dirty /\ new.next \in Nat /\ ix.next <= new.next
    BY DEF Later, SameButNext
<1>2. IndexShape(new)
    BY <1>1 DEF Sound, IndexShape
<1>3. KeysFit(new) /\ IdsFit(new)
    BY <1>1 DEF Sound, KeysFit, IdsFit
<1>4. VectorsFit(new)
    <2> SUFFICES ASSUME NEW p \in DOMAIN ix.entries
                 PROVE  Len(ix.entries[p].emb) = ix.dim /\ ix.entries[p].key < new.next
        BY <1>1 DEF VectorsFit
    <2>1. Len(ix.entries[p].emb) = ix.dim /\ ix.entries[p].key < ix.next
        BY DEF Sound, VectorsFit
    <2>0. ix.entries \in Seq(IndexEntry) /\ ix.next \in Nat
        BY DEF Sound, IndexShape
    <2>2. ix.entries[p] \in IndexEntry /\ ix.next \in Nat
        BY <2>0
    <2>3. ix.entries[p].key \in Nat
        BY <2>2 DEF IndexEntry
    <2> QED BY <1>1, <2>1, <2>2, <2>3
<1>5. TablesFit(new)
    <2>1. VectorsOf(new) = VectorsOf(ix)
        BY <1>1 DEF VectorsOf
    <2> QED BY <1>1, <2>1 DEF Sound, TablesFit
<1>6. ASSUME Complete(ix) PROVE Complete(new)
    BY <1>1, <1>6 DEF Complete
<1> QED BY <1>2, <1>3, <1>4, <1>5, <1>6 DEF Sound

\* What a record changes of an index whose dimension it has.
LEMMA PutRecordSound ==
    ASSUME NEW ix, Sound(ix), NEW r \in AnyRecord, Len(r.emb) = ix.dim
    PROVE  LET new == PutRecord(ix, r)
           IN  /\ Sound(new) /\ new.dim = ix.dim /\ new.kind = ix.kind
               /\ new.graph = ix.graph /\ new.dirty = ix.dirty /\ new.entries # << >>
               /\ Complete(ix) /\ ~Crowds(new) => Complete(new)
<1> DEFINE raised == Raised(ix, r)
           new == PutRecord(ix, r)
<1>1. r.key \in Nat /\ ix.next \in Nat /\ DOMAIN ix = IndexFields
    BY DEF AnyRecord, Sound, IndexShape
<1>2. /\ AtLeast(ix.next, r.key + 1) \in Nat /\ ix.next <= AtLeast(ix.next, r.key + 1)
      /\ r.key < AtLeast(ix.next, r.key + 1)
    BY <1>1 DEF AtLeast
<1>3. Later(raised, ix) /\ r.key < raised.next
    BY <1>1, <1>2 DEF Raised, Later, SameButNext, IndexFields
<1>4. new = IF r.key \in DOMAIN ix.byKey THEN Replaced(raised, r, ix.byKey[r.key]) ELSE Pushed(raised, r)
    BY DEF PutRecord, Raised
<1>5. /\ raised.byKey = ix.byKey /\ raised.dim = ix.dim /\ raised.kind = ix.kind /\ raised.graph = ix.graph
      /\ raised.dirty = ix.dirty
    BY <1>3 DEF Later, SameButNext
<1>6. Sound(raised) /\ (Complete(ix) => Complete(raised))
    BY <1>3, LaterSound
<1> HIDE DEF raised, new
<1>7. CASE r.key \in DOMAIN ix.byKey
    <2>1. new = Replaced(raised, r, raised.byKey[r.key])
        BY <1>4, <1>5, <1>7
    <2> QED BY <1>3, <1>5, <1>6, <1>7, <2>1, ReplacedSound DEF new
<1>8. CASE r.key \notin DOMAIN ix.byKey
    <2>1. new = Pushed(raised, r)
        BY <1>4, <1>8
    <2> QED BY <1>3, <1>5, <1>6, <1>8, <2>1, PushedSound DEF new
<1> QED BY <1>7, <1>8

\* The dimension is taken from the first record; the tables are made then.
LEMMA OpenedSound ==
    ASSUME NEW ix, Sound(ix), NEW dim \in Nat \ {0}, ix.dim \in {0, dim},
           ix.dim = 0 => ix.entries = << >> /\ ix.tables = << >>
    PROVE  LET new == Opened(ix, dim)
           IN  /\ Sound(new) /\ new.dim = dim /\ new.kind = ix.kind
               /\ new.graph = ix.graph /\ new.dirty = ix.dirty /\ new.next = ix.next
               /\ new.at = ix.at /\ new.entries = ix.entries /\ new.byKey = ix.byKey
               /\ Complete(ix) => Complete(new)
<1> DEFINE new == Opened(ix, dim)
<1>1. CASE ix.dim # 0
    <2>1. new = ix
        BY <1>1 DEF Opened
    <2> QED BY <1>1, <2>1
<1>2. CASE ix.dim = 0
    <2> DEFINE tabs == IF ix.kind = "lsh" THEN NoBuckets(dim) ELSE << >>
    <2>1. DOMAIN ix = IndexFields /\ ix.entries = << >> /\ ix.tables = << >>
        BY <1>2 DEF Sound, IndexShape
    <2>2. new = [ix EXCEPT !.dim = dim, !.tables = tabs]
        BY <1>2, <2>1 DEF Opened
    <2> HIDE DEF tabs
    <2>3. /\ DOMAIN new = IndexFields /\ new.kind = ix.kind /\ new.graph = ix.graph
          /\ new.dirty = ix.dirty /\ new.next = ix.next /\ new.at = ix.at
          /\ new.entries = ix.entries /\ new.byKey = ix.byKey /\ new.dim = dim /\ new.tables = tabs
        BY <2>1, <2>2 DEF IndexFields
    <2> HIDE DEF new
    <2>4. IndexShape(new)
        BY <2>3 DEF Sound, IndexShape
    <2>5. KeysFit(new) /\ IdsFit(new)
        BY <2>3 DEF Sound, KeysFit, IdsFit
    <2>6. DOMAIN new.entries = {}
        BY <2>1, <2>3
    <2>7. VectorsFit(new)
        BY <2>6 DEF VectorsFit
    <2>8. TablesFit(new)
        <3>1. DOMAIN tabs = IF ix.kind = "lsh" THEN DOMAIN Planes[dim] ELSE {}
            <4>1. DOMAIN << >> = {}
                OBVIOUS
            <4>2. DOMAIN NoBuckets(dim) = DOMAIN Planes[dim]
                BY DEF NoBuckets
            <4> QED BY <4>1, <4>2 DEF tabs
        <3>2. ASSUME NEW t \in DOMAIN tabs
              PROVE  /\ DOMAIN tabs[t] = SUBSET DOMAIN Planes[dim][t]
                     /\ \A b \in DOMAIN tabs[t] : tabs[t][b] = << >>
            BY <3>1, <3>2 DEF tabs, NoBuckets
        <3>3. \A t, b : Belonging(VectorsOf(new), t, b) = {}
            BY <2>6 DEF Belonging, VectorsOf
        <3>4. Holds(<< >>, {})
            BY DEF Holds, IsInjective, ToSet
        <3>5. Filled(tabs, dim, VectorsOf(new))
            BY <3>2, <3>3, <3>4 DEF Filled
        <3> QED BY <2>3, <3>1, <3>5 DEF TablesFit
    <2>9. Complete(ix) => Complete(new)
        BY <2>3 DEF Complete
    <2> QED BY <2>3, <2>4, <2>5, <2>7, <2>8, <2>9 DEF Sound, new
<1> QED BY <1>1, <1>2

\* The first stages of a batch as one function.
PutPrefix(f, ix, records, m) ==
    f = [n \in 0..m |-> IF n = 0 THEN Opened(ix, Len(records[1].emb)) ELSE PutRecord(f[n - 1], records[n])]

LEMMA PutStagesAre ==
    ASSUME NEW ix, NEW records, Len(records) \in Nat
    PROVE  LET stage == PutStages(ix, records)
           IN  /\ stage[0] = Opened(ix, Len(records[1].emb))
               /\ \A n \in 1..Len(records) : stage[n] = PutRecord(stage[n - 1], records[n])
<1> DEFINE G == {m \in Nat : \E f : PutPrefix(f, ix, records, m)}
           first == Opened(ix, Len(records[1].emb))
<1>1. 0 \in G
    <2> DEFINE f == [n \in 0..0 |-> first]
    <2>1. PutPrefix(f, ix, records, 0)
        BY DEF PutPrefix
    <2> QED BY <2>1
<1>2. ASSUME NEW m \in Nat, m \in G PROVE m + 1 \in G
    <2>1. PICK f : PutPrefix(f, ix, records, m)
        BY <1>2
    <2> DEFINE g == [n \in 0..(m + 1) |-> IF n = 0 THEN first ELSE PutRecord(f[n - 1], records[n])]
    <2>2. \A n \in 0..m : f[n] = IF n = 0 THEN first ELSE PutRecord(f[n - 1], records[n])
        BY <2>1 DEF PutPrefix
    <2>3. \A n \in 0..(m + 1) : g[n] = IF n = 0 THEN first ELSE PutRecord(f[n - 1], records[n])
        OBVIOUS
    <2>4. \A n \in 0..m : n \in 0..(m + 1)
        OBVIOUS
    <2>5. \A n \in 0..m : g[n] = f[n]
        BY <2>2, <2>3, <2>4
    <2>6. \A n \in 0..(m + 1) : n # 0 => n - 1 \in 0..m
        OBVIOUS
    <2>7. \A n \in 0..(m + 1) : n # 0 => g[n - 1] = f[n - 1]
        BY <2>5, <2>6
    <2>8. g = [n \in 0..(m + 1) |-> IF n = 0 THEN first ELSE PutRecord(g[n - 1], records[n])]
        BY <2>3, <2>7
    <2> HIDE DEF g
    <2>9. PutPrefix(g, ix, records, m + 1)
        BY <2>8 DEF PutPrefix
    <2> QED BY <2>9
<1> HIDE DEF G
<1>3. \A m \in Nat : m \in G
    BY <1>1, <1>2, EveryNatural
<1>4. \E f : PutPrefix(f, ix, records, Len(records))
    BY <1>3 DEF G
<1> DEFINE stage == PutStages(ix, records)
<1>5. stage = CHOOSE f : PutPrefix(f, ix, records, Len(records))
    BY DEF PutStages, PutPrefix
<1>6. PutPrefix(stage, ix, records, Len(records))
    BY <1>4, <1>5
<1>7. \A n \in 1..Len(records) : n \in 0..Len(records) /\ n # 0
    OBVIOUS
<1>8. 0 \in 0..Len(records)
    OBVIOUS
<1> HIDE DEF stage, first
<1>9. \A n \in 0..Len(records) : stage[n] = IF n = 0 THEN first ELSE PutRecord(stage[n - 1], records[n])
    BY <1>6 DEF PutPrefix, first
<1> QED BY <1>7, <1>8, <1>9 DEF stage, first

-----------------------------------------------------------------------------
(* What holds of an index between its changes.                             *)

GraphFits(ix) ==
    /\ ix.graph = << >> \/ (~ix.dirty /\ ix.graph = Own(ix))
    /\ ix.kind # "hnsw" => ix.graph = << >>

Good(ix) ==
    /\ Sound(ix) /\ GraphFits(ix)
    /\ ix.dim = 0 <=> ix.entries = << >>
    /\ ix.dim = 0 => ix.tables = << >>
    /\ ix.kind = "lsh" /\ ix.dim # 0 => DOMAIN Planes[ix.dim] # {}

\* Records of one dimension, the arguments of a batch among them.
Batch(records) ==
    /\ records \in Seq(AnyRecord)
    /\ \A i, j \in DOMAIN records : Len(records[i].emb) = Len(records[j].emb)
    /\ \A i \in DOMAIN records : records[i].emb # << >> => DOMAIN Planes[Len(records[i].emb)] # {}

\* After each record of an accepted batch.
StageHolds(ix, records, n) ==
    LET stage == PutStages(ix, records)
    IN  /\ Sound(stage[n]) /\ stage[n].dim = Len(records[1].emb) /\ stage[n].kind = ix.kind
        /\ stage[n].graph = ix.graph /\ stage[n].dirty = ix.dirty
        /\ n # 0 => stage[n].entries # << >>
        /\ (Complete(ix) /\ \A m \in 1..n : ~Crowds(stage[m])) => Complete(stage[n])

LEMMA AcceptedFacts ==
    ASSUME NEW ix, Good(ix), NEW records, Batch(records), Accepted(ix, records)
    PROVE  /\ Len(records) \in Nat /\ Len(records) # 0 /\ Len(records[1].emb) \in Nat \ {0}
           /\ ix.dim \in {0, Len(records[1].emb)} /\ DOMAIN Planes[Len(records[1].emb)] # {}
           /\ \A n \in 1..Len(records) : records[n] \in AnyRecord
                                         /\ Len(records[n].emb) = Len(records[1].emb)
<1>1. records \in Seq(AnyRecord) /\ records # << >>
    BY DEF Batch, Accepted
<1>2. Len(records) \in Nat /\ Len(records) # 0 /\ DOMAIN records = 1..Len(records)
      /\ 1 \in DOMAIN records
    BY <1>1
<1>3. \A n \in DOMAIN records : records[n] \in AnyRecord
    BY <1>1
<1>4. records[1].emb \in Seq(Int)
    BY <1>2, <1>3 DEF AnyRecord
<1>5. records[1].emb # << >> /\ ix.dim \in {0, Len(records[1].emb)}
    BY <1>2 DEF Accepted, Fits
<1>6. Len(records[1].emb) \in Nat \ {0}
    BY <1>4, <1>5
<1> QED BY <1>2, <1>3, <1>5, <1>6 DEF Batch

LEMMA StagesHold ==
    ASSUME NEW ix, Good(ix), NEW records, Batch(records), Accepted(ix, records)
    PROVE  \A n \in 0..Len(records) : StageHolds(ix, records, n)
<1> DEFINE L == Len(records)
           dim == Len(records[1].emb)
           stage == PutStages(ix, records)
           G == {n \in Nat : n <= L => StageHolds(ix, records, n)}
<1>1. /\ L \in Nat /\ L # 0 /\ dim \in Nat \ {0} /\ ix.dim \in {0, dim}
      /\ \A n \in 1..L : records[n] \in AnyRecord /\ Len(records[n].emb) = dim
    BY AcceptedFacts
<1>2. stage[0] = Opened(ix, dim) /\ \A n \in 1..L : stage[n] = PutRecord(stage[n - 1], records[n])
    BY <1>1, PutStagesAre
<1> HIDE DEF stage
<1>3. StageHolds(ix, records, 0)
    <2>1. Sound(ix) /\ (ix.dim = 0 => ix.entries = << >> /\ ix.tables = << >>)
        BY DEF Good
    <2>2. /\ Sound(Opened(ix, dim)) /\ Opened(ix, dim).dim = dim /\ Opened(ix, dim).kind = ix.kind
          /\ Opened(ix, dim).graph = ix.graph /\ Opened(ix, dim).dirty = ix.dirty
          /\ Complete(ix) => Complete(Opened(ix, dim))
        BY <1>1, <2>1, OpenedSound
    <2> QED BY <1>2, <2>2 DEF StageHolds, stage
<1>4. ASSUME NEW n \in Nat, n \in G PROVE n + 1 \in G
    <2> SUFFICES ASSUME n + 1 <= L PROVE StageHolds(ix, records, n + 1)
        BY <1>1
    <2>1. n <= L /\ n + 1 \in 1..L /\ (n + 1) - 1 = n /\ n + 1 # 0
        BY <1>1
    <2>2. StageHolds(ix, records, n)
        BY <1>4, <2>1
    <2>3. stage[n + 1] = PutRecord(stage[n], records[n + 1])
        BY <1>2, <2>1
    <2>4. Sound(stage[n]) /\ stage[n].dim = dim
        BY <2>2 DEF StageHolds, stage
    <2>5. records[n + 1] \in AnyRecord /\ Len(records[n + 1].emb) = stage[n].dim
        BY <1>1, <2>1, <2>4
    <2>6. /\ Sound(stage[n + 1]) /\ stage[n + 1].dim = stage[n].dim
          /\ stage[n + 1].kind = stage[n].kind
          /\ stage[n + 1].graph = stage[n].graph /\ stage[n + 1].dirty = stage[n].dirty
          /\ stage[n + 1].entries # << >>
          /\ Complete(stage[n]) /\ ~Crowds(stage[n + 1]) => Complete(stage[n + 1])
        BY <2>3, <2>4, <2>5, PutRecordSound
    <2>7. \A m \in 1..n : m \in 1..(n + 1)
        OBVIOUS
    <2>8. n + 1 \in 1..(n + 1)
        OBVIOUS
    <2> QED BY <2>1, <2>2, <2>6, <2>7, <2>8 DEF StageHolds, stage
<1>5. 0 \in G
    BY <1>3
<1> HIDE DEF G
<1>6. \A n \in Nat : n \in G
    BY <1>4, <1>5, EveryNatural
<1> QED BY <1>1, <1>6 DEF G

LEMMA TouchedFacts ==
    ASSUME NEW ix, Sound(ix), ix.kind # "hnsw" => ix.graph = << >>
    PROVE  LET new == Touched(ix)
           IN  /\ Sound(new) /\ GraphFits(new) /\ (Complete(ix) => Complete(new))
               /\ new.kind = ix.kind /\ new.dim = ix.dim /\ new.entries = ix.entries
               /\ new.tables = ix.tables
<1> DEFINE new == Touched(ix)
<1>1. DOMAIN ix = IndexFields /\ ix.next \in Nat /\ ix.kind \in StorageKinds /\ ix.dirty \in BOOLEAN
    BY DEF Sound, IndexShape
<1>2. CASE ix.kind # "hnsw"
    <2>1. new = ix
        BY <1>2 DEF Touched
    <2> QED BY <1>2, <2>1 DEF GraphFits
<1>3. CASE ix.kind = "hnsw"
    <2>1. new = [ix EXCEPT !.graph = << >>, !.dirty = TRUE]
        BY <1>3 DEF Touched
    <2>2. /\ DOMAIN new = IndexFields /\ new.kind = ix.kind /\ new.entries = ix.entries
          /\ new.at = ix.at /\ new.byKey = ix.byKey /\ new.dim = ix.dim /\ new.tables = ix.tables
          /\ new.graph = << >> /\ new.dirty = TRUE /\ new.next = ix.next
        BY <1>1, <2>1 DEF IndexFields
    <2> HIDE DEF new
    <2>3. IndexShape(new)
        BY <1>1, <2>2 DEF Sound, IndexShape
    <2>4. KeysFit(new) /\ IdsFit(new) /\ VectorsFit(new)
        BY <2>2 DEF Sound, KeysFit, IdsFit, VectorsFit
    <2>5. TablesFit(new)
        <3>1. VectorsOf(new) = VectorsOf(ix)
            BY <2>2 DEF VectorsOf
        <3> QED BY <2>2, <3>1 DEF Sound, TablesFit
    <2>6. Complete(ix) => Complete(new)
        BY <2>2 DEF Complete
    <2>7. GraphFits(new)
        BY <1>3, <2>2 DEF GraphFits
    <2> QED BY <2>2, <2>3, <2>4, <2>5, <2>6, <2>7 DEF Sound, new
<1> QED BY <1>2, <1>3

LEMMA PutRecordsGood ==
    ASSUME NEW ix, Good(ix), NEW records, Batch(records)
    PROVE  LET new == PutRecords(ix, records)
           IN  /\ Good(new) /\ new.kind = ix.kind
               /\ Complete(ix) /\ ~CrowdedBy(ix, records) => Complete(new)
<1> DEFINE new == PutRecords(ix, records)
           L == Len(records)
           s == PutStages(ix, records)[L]
<1>1. CASE ~Accepted(ix, records)
    <2>1. new = ix
        BY <1>1 DEF PutRecords
    <2> QED BY <2>1
<1>2. CASE Accepted(ix, records)
    <2>1. /\ L \in Nat /\ L # 0 /\ Len(records[1].emb) \in Nat \ {0}
          /\ DOMAIN Planes[Len(records[1].emb)] # {}
        BY <1>2, AcceptedFacts
    <2>2. L \in 0..L
        BY <2>1
    <2>3. StageHolds(ix, records, L)
        BY <1>2, <2>2, StagesHold
    <2>4. new = Touched(s)
        BY <1>2 DEF PutRecords
    <2>5. /\ Sound(s) /\ s.dim = Len(records[1].emb) /\ s.kind = ix.kind
          /\ s.graph = ix.graph /\ s.entries # << >>
          /\ (Complete(ix) /\ \A m \in 1..L : ~Crowds(PutStages(ix, records)[m])) => Complete(s)
        BY <2>1, <2>3 DEF StageHolds
    <2>6. s.kind # "hnsw" => s.graph = << >>
        BY <2>5 DEF Good, GraphFits
    <2> HIDE DEF s, new
    <2>7. /\ Sound(new) /\ GraphFits(new) /\ (Complete(s) => Complete(new))
          /\ new.kind = ix.kind /\ new.dim = s.dim /\ new.entries = s.entries
          /\ new.tables = s.tables
        BY <2>4, <2>5, <2>6, TouchedFacts
    <2>8. Good(new)
        BY <2>1, <2>5, <2>7 DEF Good
    <2>9. DOMAIN records = 1..L
        BY DEF Batch
    <2>10. ASSUME ~CrowdedBy(ix, records) PROVE \A m \in 1..L : ~Crowds(PutStages(ix, records)[m])
        BY <1>2, <2>9, <2>10 DEF CrowdedBy
    <2> QED BY <2>5, <2>7, <2>8, <2>10 DEF new
<1> QED BY <1>1, <1>2

-----------------------------------------------------------------------------
(* Keys for records that come with an id only.                             *)

LEMMA LaterGood ==
    ASSUME NEW ix, Good(ix), NEW new, Later(new, ix)
    PROVE  Good(new) /\ new.kind = ix.kind /\ (Complete(ix) => Complete(new))
<1>1. Sound(new) /\ (Complete(ix) => Complete(new))
    BY LaterSound DEF Good
<1>2. new.kind = ix.kind /\ new.entries = ix.entries /\ new.dim = ix.dim /\ new.tables = ix.tables
      /\ new.graph = ix.graph /\ new.dirty = ix.dirty
    BY DEF Later, SameButNext
<1>3. Own(new) = Own(ix)
    BY <1>2 DEF Own, Size
<1> QED BY <1>1, <1>2, <1>3 DEF Good, GraphFits

LEMMA SpentLater ==
    ASSUME NEW ix, Sound(ix), NEW now, Later(now, ix)
    PROVE  Later(Spent(now), ix)
<1>1. ix.next \in Nat /\ now.next \in Nat /\ ix.next <= now.next /\ DOMAIN now = IndexFields
    BY DEF Sound, IndexShape, Later, SameButNext
<1>2. AtLeast(now.next, 1) + 1 \in Nat /\ ix.next <= AtLeast(now.next, 1) + 1
    BY <1>1 DEF AtLeast
<1> DEFINE new == Spent(now)
<1>3. /\ DOMAIN new = IndexFields /\ new.next = AtLeast(now.next, 1) + 1
      /\ \A f \in IndexFields : f # "next" => new[f] = now[f]
    BY <1>1 DEF Spent, IndexFields
<1> HIDE DEF new
<1>4. SameButNext(new, ix)
    BY <1>3 DEF Later, SameButNext, IndexFields
<1> QED BY <1>2, <1>3, <1>4 DEF Later, new

KeyPrefix(f, ix, records, m) ==
    f = [n \in 0..m |-> IF n = 0 THEN ix
                        ELSE IF records[n].id \in DOMAIN ix.at THEN f[n - 1] ELSE Spent(f[n - 1])]

LEMMA KeyStagesAre ==
    ASSUME NEW ix, NEW records, Len(records) \in Nat
    PROVE  LET stage == KeyStages(ix, records)
           IN  /\ stage[0] = ix
               /\ \A n \in 1..Len(records) :
                     stage[n] = IF records[n].id \in DOMAIN ix.at THEN stage[n - 1] ELSE Spent(stage[n - 1])
<1> DEFINE G == {m \in Nat : \E f : KeyPrefix(f, ix, records, m)}
           Known(n) == records[n].id \in DOMAIN ix.at
<1>1. 0 \in G
    <2> DEFINE f == [n \in 0..0 |-> ix]
    <2>1. KeyPrefix(f, ix, records, 0)
        BY DEF KeyPrefix
    <2> QED BY <2>1
<1>2. ASSUME NEW m \in Nat, m \in G PROVE m + 1 \in G
    <2>1. PICK f : KeyPrefix(f, ix, records, m)
        BY <1>2
    <2> DEFINE g == [n \in 0..(m + 1) |-> IF n = 0 THEN ix ELSE IF Known(n) THEN f[n - 1] ELSE Spent(f[n - 1])]
    <2>2. \A n \in 0..m : f[n] = IF n = 0 THEN ix ELSE IF Known(n) THEN f[n - 1] ELSE Spent(f[n - 1])
        BY <2>1 DEF KeyPrefix
    <2>3. \A n \in 0..(m + 1) : g[n] = IF n = 0 THEN ix ELSE IF Known(n) THEN f[n - 1] ELSE Spent(f[n - 1])
        OBVIOUS
    <2>4. \A n \in 0..m : n \in 0..(m + 1)
        OBVIOUS
    <2>5. \A n \in 0..m : g[n] = f[n]
        BY <2>2, <2>3, <2>4
    <2>6. \A n \in 0..(m + 1) : n # 0 => n - 1 \in 0..m
        OBVIOUS
    <2>7. \A n \in 0..(m + 1) : n # 0 => g[n - 1] = f[n - 1]
        BY <2>5, <2>6
    <2>8. g = [n \in 0..(m + 1) |-> IF n = 0 THEN ix ELSE IF Known(n) THEN g[n - 1] ELSE Spent(g[n - 1])]
        BY <2>3, <2>7
    <2> HIDE DEF g
    <2>9. KeyPrefix(g, ix, records, m + 1)
        BY <2>8 DEF KeyPrefix
    <2> QED BY <2>9
<1> HIDE DEF G
<1>3. \A m \in Nat : m \in G
    BY <1>1, <1>2, EveryNatural
<1>4. \E f : KeyPrefix(f, ix, records, Len(records))
    BY <1>3 DEF G
<1> DEFINE stage == KeyStages(ix, records)
<1>5. stage = CHOOSE f : KeyPrefix(f, ix, records, Len(records))
    BY DEF KeyStages, KeyPrefix
<1>6. KeyPrefix(stage, ix, records, Len(records))
    BY <1>4, <1>5
<1>7. \A n \in 1..Len(records) : n \in 0..Len(records) /\ n # 0
    OBVIOUS
<1>8. 0 \in 0..Len(records)
    OBVIOUS
<1> HIDE DEF stage
<1>9. \A n \in 0..Len(records) :
         stage[n] = IF n = 0 THEN ix ELSE IF Known(n) THEN stage[n - 1] ELSE Spent(stage[n - 1])
    BY <1>6 DEF KeyPrefix
<1> QED BY <1>7, <1>8, <1>9 DEF stage

LEMMA KeyStagesHold ==
    ASSUME NEW ix, Sound(ix), NEW records, Len(records) \in Nat
    PROVE  \A n \in 0..Len(records) : Later(KeyStages(ix, records)[n], ix)
<1> DEFINE L == Len(records)
           stage == KeyStages(ix, records)
           G == {n \in Nat : n <= L => Later(stage[n], ix)}
<1>1. stage[0] = ix /\ \A n \in 1..L :
         stage[n] = IF records[n].id \in DOMAIN ix.at THEN stage[n - 1] ELSE Spent(stage[n - 1])
    BY KeyStagesAre
<1> HIDE DEF stage
<1>2. Later(ix, ix)
    BY DEF Sound, IndexShape, Later, SameButNext
<1>3. 0 \in G
    BY <1>1, <1>2
<1>4. ASSUME NEW n \in Nat, n \in G PROVE n + 1 \in G
    <2> SUFFICES ASSUME n + 1 <= L PROVE Later(stage[n + 1], ix)
        OBVIOUS
    <2>1. n <= L /\ n + 1 \in 1..L /\ (n + 1) - 1 = n
        OBVIOUS
    <2>2. Later(stage[n], ix)
        BY <1>4, <2>1
    <2>3. stage[n + 1] = IF records[n + 1].id \in DOMAIN ix.at THEN stage[n] ELSE Spent(stage[n])
        BY <1>1, <2>1
    <2>4. Later(Spent(stage[n]), ix)
        BY <2>2, SpentLater
    <2> QED BY <2>2, <2>3, <2>4
<1> HIDE DEF G
<1>5. \A n \in Nat : n \in G
    BY <1>3, <1>4, EveryNatural
<1> QED BY <1>5 DEF G, stage

LEMMA KeyedFacts ==
    ASSUME NEW ix, Good(ix), NEW records, Batch(records)
    PROVE  /\ Batch(Keyed(ix, records)) /\ Good(Drained(ix, records))
           /\ Drained(ix, records).kind = ix.kind
           /\ Complete(ix) => Complete(Drained(ix, records))
<1> DEFINE L == Len(records)
           keyed == Keyed(ix, records)
           Fit(n) == KeyFor(KeyStages(ix, records)[n - 1], records[n].id)
<1>1. records \in Seq(AnyRecord) /\ L \in Nat /\ DOMAIN records = 1..L
    BY DEF Batch
<1>2. Sound(ix)
    BY DEF Good
<1>3. \A n \in 0..L : Later(KeyStages(ix, records)[n], ix)
    BY <1>1, <1>2, KeyStagesHold
<1>4. ASSUME NEW now, Sound(now), NEW id PROVE KeyFor(now, id) \in Nat
    <2>1. now.next \in Nat /\ now.entries \in Seq(IndexEntry)
        BY <1>4 DEF Sound, IndexShape
    <2>2. CASE id \in DOMAIN now.at
        <3>1. now.at[id] \in DOMAIN now.entries
            BY <1>4, <2>2 DEF Sound, IdsFit
        <3>2. now.entries[now.at[id]] \in IndexEntry
            BY <2>1, <3>1
        <3> QED BY <2>2, <3>2 DEF KeyFor, IndexEntry
    <2>3. CASE id \notin DOMAIN now.at
        BY <2>1, <2>3 DEF KeyFor, AtLeast
    <2> QED BY <2>2, <2>3
<1>5. ASSUME NEW n \in 1..L PROVE Fit(n) \in Nat
    <2>1. n - 1 \in 0..L
        BY <1>1
    <2>2. Sound(KeyStages(ix, records)[n - 1])
        BY <1>2, <1>3, <2>1, LaterSound
    <2> QED BY <1>4, <2>2
<1>6. DOMAIN keyed = 1..L /\ \A n \in 1..L : keyed[n] = [records[n] EXCEPT !.key = Fit(n)]
    BY <1>1 DEF Keyed
<1>7. keyed = [n \in 1..L |-> keyed[n]]
    BY <1>1 DEF Keyed
<1> HIDE DEF keyed, Fit
<1>8. ASSUME NEW n \in 1..L PROVE keyed[n] \in AnyRecord /\ keyed[n].emb = records[n].emb
    <2>1. records[n] \in AnyRecord
        BY <1>1
    <2> QED BY <1>5, <1>6, <2>1 DEF AnyRecord
<1>9. keyed \in Seq(AnyRecord)
    BY <1>1, <1>7, <1>8
<1>10. Batch(keyed)
    BY <1>1, <1>6, <1>8, <1>9 DEF Batch
<1>11. Later(Drained(ix, records), ix)
    BY <1>1, <1>3 DEF Drained
<1>12. Good(Drained(ix, records)) /\ Drained(ix, records).kind = ix.kind
       /\ (Complete(ix) => Complete(Drained(ix, records)))
    BY <1>11, LaterGood
<1> QED BY <1>10, <1>12 DEF keyed

\* An index with nothing in it.
Vacant(new) ==
    /\ DOMAIN new = IndexFields /\ new.kind \in StorageKinds /\ new.entries = << >> /\ new.at = << >>
    /\ new.byKey = << >> /\ new.dim = 0 /\ new.tables = << >> /\ new.graph = << >>
    /\ new.dirty \in BOOLEAN /\ new.next \in Nat

LEMMA BlankGood ==
    ASSUME NEW new, Vacant(new)
    PROVE  Good(new) /\ Complete(new)
<1>1. /\ DOMAIN new = IndexFields /\ new.kind \in StorageKinds /\ new.entries = << >> /\ new.at = << >>
      /\ new.byKey = << >> /\ new.dim = 0 /\ new.tables = << >> /\ new.graph = << >>
      /\ new.dirty \in BOOLEAN /\ new.next \in Nat
    BY DEF Vacant
<1>2. DOMAIN << >> = {} /\ << >> \in Seq(IndexEntry)
    OBVIOUS
<1>3. IndexShape(new)
    BY <1>1, <1>2 DEF IndexShape
<1>4. KeysFit(new) /\ IdsFit(new) /\ VectorsFit(new) /\ Complete(new)
    BY <1>1, <1>2 DEF KeysFit, IdsFit, VectorsFit, Complete
<1>5. TablesFit(new)
    BY <1>1, <1>2 DEF TablesFit, Filled
<1>6. GraphFits(new)
    BY <1>1 DEF GraphFits
<1> QED BY <1>1, <1>3, <1>4, <1>5, <1>6 DEF Good, Sound

LEMMA BlankIndexes ==
    ASSUME NEW k \in StorageKinds, NEW next \in Nat
    PROVE  /\ Vacant(EmptyIndex(k)) /\ Vacant(NewIndex(k)) /\ Vacant([EmptyIndex(k) EXCEPT !.next = next])
           /\ EmptyIndex(k).kind = k /\ NewIndex(k).kind = k /\ [EmptyIndex(k) EXCEPT !.next = next].kind = k
<1>1. Vacant(EmptyIndex(k)) /\ EmptyIndex(k).kind = k
    BY DEF Vacant, EmptyIndex, IndexFields
<1>2. Vacant(NewIndex(k)) /\ NewIndex(k).kind = k
    BY DEF NewIndex, Vacant, EmptyIndex, IndexFields
<1>3. Vacant([EmptyIndex(k) EXCEPT !.next = next]) /\ [EmptyIndex(k) EXCEPT !.next = next].kind = k
    BY DEF Vacant, EmptyIndex, IndexFields
<1> QED BY <1>1, <1>2, <1>3

\* What removing the last entry and a reset leave.
LEMMA ClearedGood ==
    ASSUME NEW ix, Good(ix)
    PROVE  /\ Good(Reset(ix)) /\ Complete(Reset(ix)) /\ Reset(ix).kind = ix.kind
           /\ Good(Emptied(ix)) /\ Complete(Emptied(ix)) /\ Emptied(ix).kind = ix.kind
<1>1. ix.kind \in StorageKinds /\ ix.next \in Nat
    BY DEF Good, Sound, IndexShape
<1> QED BY <1>1, BlankIndexes, BlankGood DEF Reset, Emptied

-----------------------------------------------------------------------------
(* Removal: the last entry moves into the gap.                             *)

LEMMA SwapRemovedFacts ==
    ASSUME NEW S, NEW s \in Seq(S), NEW p \in DOMAIN s
    PROVE  /\ SwapRemoved(s, p) \in Seq(S) /\ DOMAIN SwapRemoved(s, p) = DOMAIN s \ {Len(s)}
           /\ Len(s) \in DOMAIN s
           /\ \A q \in DOMAIN SwapRemoved(s, p) : q = p => SwapRemoved(s, p)[q] = s[Len(s)]
           /\ \A q \in DOMAIN SwapRemoved(s, p) : q # p => SwapRemoved(s, p)[q] = s[q]
<1> DEFINE u == [s EXCEPT ![p] = Last(s)]
           t == SwapRemoved(s, p)
<1>1. Len(s) \in Nat /\ DOMAIN s = 1..Len(s) /\ Len(s) \in DOMAIN s /\ Last(s) = s[Len(s)]
    BY DEF Last
<1>2. u \in Seq(S) /\ Len(u) = Len(s) /\ \A q \in DOMAIN s : u[q] = IF q = p THEN s[Len(s)] ELSE s[q]
    BY <1>1
<1>3. t = SubSeq(u, 1, Len(s) - 1)
    BY DEF SwapRemoved
<1> HIDE DEF u, t
<1>4. t \in Seq(S) /\ DOMAIN t = 1..(Len(s) - 1) /\ \A q \in 1..(Len(s) - 1) : t[q] = u[q]
    BY <1>1, <1>2, <1>3
<1>5. DOMAIN t = DOMAIN s \ {Len(s)}
    BY <1>1, <1>4
<1>6. \A q \in DOMAIN t : t[q] = IF q = p THEN s[Len(s)] ELSE s[q]
    BY <1>1, <1>2, <1>4, <1>5
<1> QED BY <1>1, <1>4, <1>5, <1>6 DEF t

\* The entry at p is out and the last one, if another, is at p.
Swapped(new, ix, p) ==
    LET last == Len(ix.entries)
        gone == ix.entries[p]
        moved == ix.entries[last]
    IN  /\ DOMAIN new = IndexFields /\ new.kind = ix.kind /\ new.dim = ix.dim /\ new.graph = ix.graph
        /\ new.dirty = ix.dirty /\ new.next = ix.next
        /\ new.entries = SwapRemoved(ix.entries, p)
        /\ new.at = IF p = last THEN Unmapped(ix.at, gone.id)
                    ELSE Mapped(Unmapped(ix.at, gone.id), moved.id, p)
        /\ new.byKey = IF p = last THEN Unmapped(ix.byKey, gone.key)
                       ELSE Mapped(Unmapped(ix.byKey, gone.key), moved.key, p)
        /\ new.tables = IF p = last THEN TakenAt(ix.tables, gone.emb, p)
                        ELSE RenamedAt(TakenAt(ix.tables, gone.emb, p), moved.emb, last, p)

LEMMA WithoutIs ==
    ASSUME NEW ix, Sound(ix), NEW p \in DOMAIN ix.entries, Len(ix.entries) # 1
    PROVE  \E new : Swapped(new, ix, p) /\ Without(ix, p) = Touched(new)
<1> DEFINE gone == ix.entries[p]
           last == Size(ix)
           moved == ix.entries[last]
           out == TakenOut(ix, p, gone.emb)
           cut == [out EXCEPT !.entries = SwapRemoved(@, p),
                              !.at = Unmapped(@, gone.id), !.byKey = Unmapped(@, gone.key)]
           back == Rebound(cut, last, p, moved.emb)
           refilled == [back EXCEPT !.at = Mapped(@, moved.id, p), !.byKey = Mapped(@, moved.key, p)]
           new == IF p = last THEN cut ELSE refilled
<1>0. last = Len(ix.entries) /\ DOMAIN ix = IndexFields
    BY DEF Sound, IndexShape, Size
<1>1. Without(ix, p) = Touched(new)
    BY <1>0 DEF Without
<1>2. SameBut(out, ix) /\ out.tables = TakenAt(ix.tables, gone.emb, p)
    BY <1>0, TableSteps
<1> HIDE DEF out
<1>3. /\ DOMAIN cut = IndexFields /\ cut.kind = ix.kind /\ cut.dim = ix.dim /\ cut.graph = ix.graph
      /\ cut.dirty = ix.dirty /\ cut.next = ix.next
      /\ cut.entries = SwapRemoved(ix.entries, p)
      /\ cut.at = Unmapped(ix.at, gone.id) /\ cut.byKey = Unmapped(ix.byKey, gone.key)
      /\ cut.tables = TakenAt(ix.tables, gone.emb, p)
    BY <1>2 DEF SameBut, IndexFields
<1> HIDE DEF cut
<1>4. SameBut(back, cut) /\ back.tables = RenamedAt(cut.tables, moved.emb, last, p)
    BY <1>3, TableSteps
<1> HIDE DEF back
<1>5. /\ DOMAIN refilled = IndexFields /\ refilled.kind = ix.kind /\ refilled.dim = ix.dim
      /\ refilled.graph = ix.graph /\ refilled.dirty = ix.dirty /\ refilled.next = ix.next
      /\ refilled.entries = SwapRemoved(ix.entries, p)
      /\ refilled.at = Mapped(Unmapped(ix.at, gone.id), moved.id, p)
      /\ refilled.byKey = Mapped(Unmapped(ix.byKey, gone.key), moved.key, p)
      /\ refilled.tables = RenamedAt(TakenAt(ix.tables, gone.emb, p), moved.emb, last, p)
    BY <1>3, <1>4 DEF SameBut, IndexFields
<1> HIDE DEF refilled
<1>6. Swapped(new, ix, p)
    BY <1>0, <1>3, <1>5 DEF Swapped
<1> QED BY <1>1, <1>6

LEMMA SwappedSound ==
    ASSUME NEW ix, Sound(ix), NEW p \in DOMAIN ix.entries, NEW new, Swapped(new, ix, p)
    PROVE  Sound(new) /\ (Complete(ix) => Complete(new))
<1> DEFINE last == Len(ix.entries)
           gone == ix.entries[p]
           moved == ix.entries[last]
           rest == Minus(VectorsOf(ix), p)
<1>1. /\ DOMAIN new = IndexFields /\ new.kind = ix.kind /\ new.dim = ix.dim /\ new.graph = ix.graph
      /\ new.dirty = ix.dirty /\ new.next = ix.next
      /\ new.entries = SwapRemoved(ix.entries, p)
      /\ new.at = IF p = last THEN Unmapped(ix.at, gone.id)
                  ELSE Mapped(Unmapped(ix.at, gone.id), moved.id, p)
      /\ new.byKey = IF p = last THEN Unmapped(ix.byKey, gone.key)
                     ELSE Mapped(Unmapped(ix.byKey, gone.key), moved.key, p)
      /\ new.tables = IF p = last THEN TakenAt(ix.tables, gone.emb, p)
                      ELSE RenamedAt(TakenAt(ix.tables, gone.emb, p), moved.emb, last, p)
    BY DEF Swapped
<1>2. /\ ix.entries \in Seq(IndexEntry) /\ DOMAIN ix.entries \subseteq Nat
      /\ ix.kind \in StorageKinds /\ ix.dim \in Nat /\ ix.next \in Nat /\ ix.dirty \in BOOLEAN
    BY DEF Sound, IndexShape
<1>3. /\ new.entries \in Seq(IndexEntry) /\ DOMAIN new.entries = DOMAIN ix.entries \ {last}
      /\ last \in DOMAIN ix.entries
      /\ \A q \in DOMAIN new.entries : new.entries[q] = IF q = p THEN moved ELSE ix.entries[q]
    <2> DEFINE u == SwapRemoved(ix.entries, p)
    <2>1. /\ u \in Seq(IndexEntry) /\ DOMAIN u = DOMAIN ix.entries \ {last} /\ last \in DOMAIN ix.entries
          /\ \A q \in DOMAIN u : u[q] = IF q = p THEN moved ELSE ix.entries[q]
        <3>1. ix.entries \in Seq(IndexEntry) /\ p \in DOMAIN ix.entries
            BY <1>2
        <3>2. u \in Seq(IndexEntry)
            BY <3>1, SwapRemovedFacts
        <3>3. DOMAIN u = DOMAIN ix.entries \ {last}
            BY <3>1, SwapRemovedFacts
        <3>4. last \in DOMAIN ix.entries
            BY <3>1, SwapRemovedFacts
        <3>5. ASSUME NEW q \in DOMAIN u PROVE u[q] = IF q = p THEN moved ELSE ix.entries[q]
            <4>1. q = p => u[q] = ix.entries[Len(ix.entries)]
                BY <3>1, SwapRemovedFacts
            <4>2. q # p => u[q] = ix.entries[q]
                BY <3>1, SwapRemovedFacts
            <4> QED BY <4>1, <4>2
        <3> QED BY <3>2, <3>3, <3>4, <3>5
    <2> HIDE DEF u
    <2>2. new.entries = u
        BY <1>1 DEF u
    <2> QED BY <2>1, <2>2
<1> HIDE DEF last
<1>4. IndexShape(new)
    BY <1>1, <1>2, <1>3 DEF IndexShape
<1>5. /\ \A q \in DOMAIN ix.entries : ix.byKey[ix.entries[q].key] = q
      /\ DOMAIN ix.byKey = {ix.entries[q].key : q \in DOMAIN ix.entries}
    BY DEF Sound, KeysFit
<1>6. \A q, o \in DOMAIN ix.entries : ix.entries[q].key = ix.entries[o].key => q = o
    BY <1>5
<1>7. KeysFit(new)
    <2>1. /\ \A k : k \in DOMAIN new.byKey <=>
                    (k \in DOMAIN ix.byKey /\ k # gone.key) \/ (p # last /\ k = moved.key)
          /\ \A k \in DOMAIN new.byKey : new.byKey[k] = IF p # last /\ k = moved.key THEN p ELSE ix.byKey[k]
        BY <1>1 DEF Mapped, Unmapped
    <2>2. \A k : k \in DOMAIN ix.byKey <=> \E q \in DOMAIN ix.entries : k = ix.entries[q].key
        BY <1>5
    <2>3. ASSUME NEW q \in DOMAIN new.entries
          PROVE  new.entries[q].key \in DOMAIN new.byKey /\ new.byKey[new.entries[q].key] = q
        <3>1. CASE q = p
            BY <1>3, <2>1, <3>1
        <3>2. CASE q # p
            <4>1. new.entries[q] = ix.entries[q] /\ q # last /\ q \in DOMAIN ix.entries
                BY <1>3, <3>2
            <4>2. ix.entries[q].key # gone.key /\ ix.entries[q].key # moved.key
                BY <1>3, <1>6, <3>2, <4>1
            <4> QED BY <1>5, <2>1, <2>2, <4>1, <4>2
        <3> QED BY <3>1, <3>2
    <2>4. ASSUME NEW k \in DOMAIN new.byKey PROVE \E q \in DOMAIN new.entries : k = new.entries[q].key
        <3>1. CASE p # last /\ k = moved.key
            BY <1>3, <3>1
        <3>2. CASE ~(p # last /\ k = moved.key)
            <4>1. k \in DOMAIN ix.byKey /\ k # gone.key
                BY <2>1, <3>2
            <4>2. PICK q \in DOMAIN ix.entries : k = ix.entries[q].key
                BY <2>2, <4>1
            <4>3. q # p /\ q # last
                BY <3>2, <4>1, <4>2
            <4> QED BY <1>3, <4>2, <4>3
        <3> QED BY <3>1, <3>2
    <2>5. DOMAIN new.byKey = {new.entries[q].key : q \in DOMAIN new.entries}
        BY <2>3, <2>4
    <2> QED BY <2>3, <2>5 DEF KeysFit
<1>8. /\ \A id : id \in DOMAIN new.at <=>
                 (id \in DOMAIN ix.at /\ id # gone.id) \/ (p # last /\ id = moved.id)
      /\ \A id \in DOMAIN new.at : new.at[id] = IF p # last /\ id = moved.id THEN p ELSE ix.at[id]
    BY <1>1 DEF Mapped, Unmapped
<1>9. IdsFit(new)
    <2> SUFFICES ASSUME NEW id \in DOMAIN new.at
                 PROVE  new.at[id] \in DOMAIN new.entries /\ new.entries[new.at[id]].id = id
        BY DEF IdsFit
    <2>1. CASE p # last /\ id = moved.id
        BY <1>3, <1>8, <2>1
    <2>2. CASE ~(p # last /\ id = moved.id)
        <3>1. id \in DOMAIN ix.at /\ id # gone.id /\ new.at[id] = ix.at[id]
            BY <1>8, <2>2
        <3>2. ix.at[id] \in DOMAIN ix.entries /\ ix.entries[ix.at[id]].id = id
            BY <3>1 DEF Sound, IdsFit
        <3>3. ix.at[id] # p /\ ix.at[id] # last
            BY <2>2, <3>1, <3>2
        <3> QED BY <1>3, <3>1, <3>2, <3>3
    <2> QED BY <2>1, <2>2
<1>10. VectorsFit(new)
    <2> SUFFICES ASSUME NEW q \in DOMAIN new.entries
                 PROVE  Len(new.entries[q].emb) = ix.dim /\ new.entries[q].key < ix.next
        BY <1>1 DEF VectorsFit
    <2>1. \E o \in DOMAIN ix.entries : new.entries[q] = ix.entries[o]
        BY <1>3
    <2> QED BY <2>1 DEF Sound, VectorsFit
<1>11. TablesFit(new)
    <2>1. /\ DOMAIN VectorsOf(ix) = DOMAIN ix.entries
          /\ \A q \in DOMAIN ix.entries : VectorsOf(ix)[q] = ix.entries[q].emb
        BY DEF VectorsOf
    <2>2. Filled(ix.tables, ix.dim, VectorsOf(ix))
        BY DEF Sound, TablesFit
    <2>3. Filled(TakenAt(ix.tables, gone.emb, p), ix.dim, rest)
        BY <1>2, <2>1, <2>2, TakenAtFacts
    <2>4. DOMAIN rest = DOMAIN ix.entries \ {p} /\ \A q \in DOMAIN rest : rest[q] = ix.entries[q].emb
        BY <2>1 DEF Minus
    <2> HIDE DEF rest
    <2>5. CASE p = last
        <3>1. VectorsOf(new) = rest
            <4>1. DOMAIN rest = DOMAIN new.entries
                BY <1>3, <2>4, <2>5
            <4>2. ASSUME NEW q \in DOMAIN new.entries PROVE rest[q] = new.entries[q].emb
                BY <1>3, <2>4, <2>5, <4>1
            <4>3. rest = [q \in DOMAIN rest |-> rest[q]]
                BY DEF rest, Minus
            <4> HIDE DEF rest
            <4> QED BY <4>1, <4>2, <4>3 DEF VectorsOf
        <3>2. new.tables = TakenAt(ix.tables, gone.emb, p)
            BY <1>1, <2>5
        <3>3. DOMAIN new.tables = DOMAIN ix.tables
            BY <3>2 DEF TakenAt
        <3> QED BY <1>1, <2>3, <3>1, <3>2, <3>3 DEF Sound, TablesFit
    <2>6. CASE p # last
        <3> DEFINE taken == TakenAt(ix.tables, gone.emb, p)
                   there == MovedTo(rest, last, p)
        <3>1. last \in DOMAIN rest /\ rest[last] = moved.emb /\ p \notin DOMAIN rest
              /\ DOMAIN rest \subseteq Nat /\ p \in Nat
            BY <1>2, <1>3, <2>4, <2>6
        <3>2. new.tables = RenamedAt(taken, moved.emb, last, p)
            BY <1>1, <2>6
        <3>3. Filled(RenamedAt(taken, rest[last], last, p), ix.dim, there)
            <4> HIDE DEF taken
            <4> QED BY <2>3, <3>1, RenamedAtFacts DEF taken
        <3>4. DOMAIN new.tables = DOMAIN ix.tables
            BY <3>2 DEF TakenAt, RenamedAt
        <3>5. VectorsOf(new) = there
            <4>1. DOMAIN there = DOMAIN new.entries
                BY <1>3, <2>4, <2>6 DEF MovedTo
            <4>2. ASSUME NEW q \in DOMAIN new.entries PROVE there[q] = new.entries[q].emb
                BY <1>3, <2>4, <2>6, <3>1, <4>1 DEF MovedTo
            <4>3. there = [q \in DOMAIN there |-> there[q]]
                BY DEF MovedTo
            <4> HIDE DEF there
            <4> QED BY <4>1, <4>2, <4>3 DEF VectorsOf
        <3> HIDE DEF taken, there
        <3> QED BY <1>1, <3>1, <3>2, <3>3, <3>4, <3>5 DEF Sound, TablesFit
    <2> QED BY <2>5, <2>6
<1>12. ASSUME Complete(ix) PROVE Complete(new)
    <2>1. /\ DOMAIN ix.at = {ix.entries[q].id : q \in DOMAIN ix.entries}
          /\ \A q, o \in DOMAIN ix.entries : ix.entries[q].id = ix.entries[o].id => q = o
        BY <1>12 DEF Complete
    <2>2. \A id : id \in DOMAIN ix.at <=> \E q \in DOMAIN ix.entries : id = ix.entries[q].id
        BY <2>1
    <2>3. ASSUME NEW q \in DOMAIN new.entries PROVE new.entries[q].id \in DOMAIN new.at
        <3>1. CASE q = p
            BY <1>3, <1>8, <3>1
        <3>2. CASE q # p
            <4>1. new.entries[q] = ix.entries[q] /\ q \in DOMAIN ix.entries
                BY <1>3, <3>2
            <4> QED BY <1>8, <2>1, <2>2, <3>2, <4>1
        <3> QED BY <3>1, <3>2
    <2>4. ASSUME NEW id \in DOMAIN new.at PROVE \E q \in DOMAIN new.entries : id = new.entries[q].id
        <3>1. CASE p # last /\ id = moved.id
            BY <1>3, <3>1
        <3>2. CASE ~(p # last /\ id = moved.id)
            <4>1. id \in DOMAIN ix.at /\ id # gone.id
                BY <1>8, <3>2
            <4>2. PICK q \in DOMAIN ix.entries : id = ix.entries[q].id
                BY <2>2, <4>1
            <4>3. q # p /\ q # last
                BY <3>2, <4>1, <4>2
            <4> QED BY <1>3, <4>2, <4>3
        <3> QED BY <3>1, <3>2
    <2>5. DOMAIN new.at = {new.entries[q].id : q \in DOMAIN new.entries}
        BY <2>3, <2>4
    <2>6. ASSUME NEW q \in DOMAIN new.entries, NEW o \in DOMAIN new.entries,
                 new.entries[q].id = new.entries[o].id
          PROVE  q = o
        <3>1. q # last /\ o # last /\ q \in DOMAIN ix.entries /\ o \in DOMAIN ix.entries
            BY <1>3
        <3>2. CASE q = p
            BY <1>3, <2>1, <2>6, <3>1, <3>2
        <3>3. CASE o = p
            BY <1>3, <2>1, <2>6, <3>1, <3>3
        <3>4. CASE q # p /\ o # p
            BY <1>3, <2>1, <2>6, <3>1, <3>4
        <3> QED BY <3>2, <3>3, <3>4
    <2> QED BY <2>5, <2>6 DEF Complete
<1> QED BY <1>4, <1>7, <1>9, <1>10, <1>11, <1>12 DEF Sound

LEMMA RemovedGood ==
    ASSUME NEW ix, Good(ix), NEW id
    PROVE  Good(Removed(ix, id)) /\ Removed(ix, id).kind = ix.kind
           /\ (Complete(ix) => Complete(Removed(ix, id)))
<1> DEFINE p == ix.at[id]
           new == Removed(ix, id)
<1>1. CASE id \notin DOMAIN ix.at
    <2>1. new = ix
        BY <1>1 DEF Removed
    <2> QED BY <2>1
<1>2. CASE id \in DOMAIN ix.at
    <2>1. p \in DOMAIN ix.entries /\ new = Without(ix, p)
        BY <1>2 DEF Removed, Good, Sound, IdsFit
    <2>2. CASE Len(ix.entries) = 1
        <3>1. new = Emptied(ix)
            BY <2>1, <2>2 DEF Without, Size
        <3> QED BY <3>1, ClearedGood
    <2>3. CASE Len(ix.entries) # 1
        <3>0. Sound(ix)
            BY DEF Good
        <3> HIDE DEF p, new
        <3>1. PICK cut : Swapped(cut, ix, p) /\ Without(ix, p) = Touched(cut)
            BY <2>1, <2>3, <3>0, WithoutIs
        <3>2. Sound(cut) /\ (Complete(ix) => Complete(cut))
            BY <2>1, <3>0, <3>1, SwappedSound
        <3>3. /\ cut.kind = ix.kind /\ cut.dim = ix.dim /\ cut.graph = ix.graph
              /\ cut.entries = SwapRemoved(ix.entries, p)
              /\ \A t : t \in DOMAIN cut.tables <=> t \in DOMAIN ix.tables
            BY <3>1 DEF Swapped, TakenAt, RenamedAt
        <3>4. cut.kind # "hnsw" => cut.graph = << >>
            BY <3>3 DEF Good, GraphFits
        <3>5. /\ Sound(new) /\ GraphFits(new) /\ (Complete(cut) => Complete(new))
              /\ new.kind = cut.kind /\ new.dim = cut.dim /\ new.entries = cut.entries
              /\ new.tables = cut.tables
            BY <2>1, <3>1, <3>2, <3>4, TouchedFacts
        <3>6. ix.entries \in Seq(IndexEntry) /\ ix.entries # << >>
            BY <2>1 DEF Good, Sound, IndexShape
        <3>7. Len(ix.entries) \in Nat /\ 1 \in DOMAIN ix.entries /\ 1 # Len(ix.entries)
            BY <2>3, <3>6
        <3>8. DOMAIN SwapRemoved(ix.entries, p) = DOMAIN ix.entries \ {Len(ix.entries)}
            BY <2>1, <3>6, SwapRemovedFacts
        <3>9. cut.entries # << >>
            <4>1. 1 \in DOMAIN cut.entries
                BY <3>3, <3>7, <3>8
            <4> QED BY <4>1
        <3>10. ix.dim # 0
            BY <3>6 DEF Good
        <3>11. Good(new)
            BY <3>3, <3>5, <3>9, <3>10 DEF Good
        <3> QED BY <3>2, <3>3, <3>5, <3>11 DEF new
    <2> QED BY <2>2, <2>3
<1> QED BY <1>1, <1>2

-----------------------------------------------------------------------------
(* A segment file.                                                         *)

LEMMA MappedFileGood ==
    ASSUME NEW ix, Good(ix)
    PROVE  /\ Good(MappedFile(Exported(ix))) /\ (Complete(ix) => Complete(MappedFile(Exported(ix))))
           /\ MappedFile(Exported(ix)).kind = "brute"
<1> DEFINE records == ix.entries
           P == DOMAIN records
           IdAt(id) == {p \in P : records[p].id = id}
           KeyAt(key) == {p \in P : records[p].key = key}
           Ids == {records[p].id : p \in P}
           Keys == {records[p].key : p \in P}
           new == MappedFile(records)
<1>1. /\ records \in Seq(IndexEntry) /\ Len(records) \in Nat /\ P = 1..Len(records)
      /\ \A p \in P : records[p] \in AnyRecord
      /\ ix.next \in Nat /\ ix.dim \in Nat
    <2>1. records \in Seq(IndexEntry) /\ ix.next \in Nat /\ ix.dim \in Nat
        BY DEF Good, Sound, IndexShape
    <2>2. IndexEntry = AnyRecord
        BY DEF IndexEntry, AnyRecord
    <2>3. \A p \in P : records[p] \in IndexEntry
        BY <2>1
    <2> QED BY <2>1, <2>2, <2>3
<1>2. /\ new.kind = "brute" /\ DOMAIN new = IndexFields
      /\ new.entries = [p \in P |-> EntryOf(records[p])]
      /\ new.dim = IF records = << >> THEN 0 ELSE Len(records[1].emb)
      /\ new.at = [id \in Ids |-> Max(IdAt(id))]
      /\ new.byKey = [k \in Keys |-> Max(KeyAt(k))]
      /\ new.next = Max({0} \cup Keys) + 1
      /\ new.tables = << >> /\ new.graph = << >> /\ new.dirty = FALSE
    BY DEF MappedFile, EmptyIndex, IndexFields
<1> HIDE DEF new
<1>3. \A p \in P : EntryOf(records[p]) \in IndexEntry /\ EntryOf(records[p]).key = records[p].key
                   /\ EntryOf(records[p]).id = records[p].id
                   /\ Len(EntryOf(records[p]).emb) = Len(records[p].emb)
    BY <1>1, EntryOfFacts
<1>4. /\ new.entries \in Seq(IndexEntry) /\ DOMAIN new.entries = P
      /\ \A p \in P : new.entries[p].key = records[p].key /\ new.entries[p].id = records[p].id
                      /\ Len(new.entries[p].emb) = Len(records[p].emb)
    BY <1>1, <1>2, <1>3
<1>5. \A p \in P : Len(records[p].emb) = ix.dim /\ records[p].key < ix.next
    BY DEF Good, Sound, VectorsFit
<1>6. new.dim = ix.dim
    <2>1. records = << >> => ix.dim = 0
        BY DEF Good
    <2>2. records # << >> => 1 \in P
        BY <1>1
    <2> QED BY <1>2, <1>5, <2>1, <2>2
<1>7. ASSUME NEW id \in Ids PROVE new.at[id] \in IdAt(id)
    <2>1. IdAt(id) # {} /\ IdAt(id) \subseteq 0..Len(records)
        BY <1>1
    <2> HIDE DEF IdAt
    <2>2. Max(IdAt(id)) \in IdAt(id)
        BY <1>1, <2>1, GreatestNatural
    <2> QED BY <1>2, <2>2
<1>8. ASSUME NEW k \in Keys PROVE new.byKey[k] \in KeyAt(k)
    <2>1. KeyAt(k) # {} /\ KeyAt(k) \subseteq 0..Len(records)
        BY <1>1
    <2> HIDE DEF KeyAt
    <2>2. Max(KeyAt(k)) \in KeyAt(k)
        BY <1>1, <2>1, GreatestNatural
    <2> QED BY <1>2, <2>2
<1>9. new.next \in Nat /\ \A p \in P : records[p].key < new.next
    <2>1. \A p \in P : records[p].key \in Nat
        BY <1>1 DEF AnyRecord
    <2>2. {0} \cup Keys \subseteq 0..ix.next /\ {0} \cup Keys # {}
        BY <1>1, <1>5, <2>1
    <2>3. Max({0} \cup Keys) \in {0} \cup Keys /\ \A x \in {0} \cup Keys : x <= Max({0} \cup Keys)
        <3> HIDE DEF Keys
        <3> QED BY <1>1, <2>2, GreatestNatural
    <2>4. Max({0} \cup Keys) \in Nat
        BY <2>2, <2>3
    <2>5. \A p \in P : records[p].key \in {0} \cup Keys
        OBVIOUS
    <2> HIDE DEF Keys
    <2>6. \A p \in P : records[p].key <= Max({0} \cup Keys)
        BY <2>3, <2>5
    <2>7. \A k, m \in Nat : k <= m => k < m + 1
        OBVIOUS
    <2>8. new.next = Max({0} \cup Keys) + 1
        BY <1>2
    <2>9. ASSUME NEW p \in P PROVE records[p].key < new.next
        BY <2>1, <2>4, <2>6, <2>7, <2>8
    <2>10. \A m \in Nat : m + 1 \in Nat
        OBVIOUS
    <2>11. new.next \in Nat
        BY <2>4, <2>8, <2>10
    <2> QED BY <2>9, <2>11, Zenon
<1>10. IndexShape(new)
    BY <1>1, <1>2, <1>4, <1>6, <1>9 DEF IndexShape, StorageKinds
<1>11. KeysFit(new)
    <2>0. {new.entries[p].key : p \in P} = Keys
        BY <1>4
    <2>1. DOMAIN new.byKey = {new.entries[p].key : p \in DOMAIN new.entries}
        <3> HIDE DEF Keys
        <3>1. DOMAIN new.byKey = Keys
            BY <1>2
        <3> QED BY <1>4, <2>0, <3>1
    <2>2. \A p, o \in P : records[p].key = records[o].key => p = o
        BY DEF Good, Sound, KeysFit
    <2>3. ASSUME NEW p \in P PROVE new.byKey[new.entries[p].key] = p
        <3>1. new.entries[p].key = records[p].key /\ records[p].key \in Keys
            BY <1>4
        <3>2. new.byKey[records[p].key] \in KeyAt(records[p].key)
            BY <1>8, <3>1
        <3> QED BY <2>2, <3>1, <3>2
    <2> QED BY <1>4, <2>1, <2>3 DEF KeysFit
<1>12. DOMAIN new.at = Ids
    BY <1>2
<1>13. IdsFit(new)
    <2> SUFFICES ASSUME NEW id \in Ids
                 PROVE  new.at[id] \in DOMAIN new.entries /\ new.entries[new.at[id]].id = id
        BY <1>12 DEF IdsFit
    <2>1. new.at[id] \in P /\ records[new.at[id]].id = id
        BY <1>7
    <2> QED BY <1>4, <2>1
<1>14. VectorsFit(new)
    BY <1>4, <1>5, <1>6, <1>9 DEF VectorsFit
<1>15. TablesFit(new) /\ GraphFits(new)
    <2>1. DOMAIN << >> = {}
        OBVIOUS
    <2> QED BY <1>2, <2>1 DEF TablesFit, Filled, GraphFits
<1>16. new.dim = 0 <=> new.entries = << >>
    <2>1. ix.dim = 0 <=> records = << >>
        BY DEF Good
    <2>2. records = << >> <=> P = {}
        BY <1>1
    <2>3. new.entries = << >> <=> P = {}
        BY <1>4
    <2> QED BY <1>6, <2>1, <2>2, <2>3
<1>17. Good(new)
    BY <1>2, <1>10, <1>11, <1>13, <1>14, <1>15, <1>16 DEF Good, Sound
<1>18. ASSUME Complete(ix) PROVE Complete(new)
    <2>1. DOMAIN new.at = {new.entries[p].id : p \in DOMAIN new.entries}
        BY <1>4, <1>12
    <2>2. \A p, o \in P : records[p].id = records[o].id => p = o
        BY <1>18 DEF Complete
    <2> QED BY <1>4, <2>1, <2>2 DEF Complete
<1> QED BY <1>2, <1>17, <1>18 DEF Exported, new

-----------------------------------------------------------------------------
(* Queries change no more than the graph.                                  *)

LEMMA WithGraphGood ==
    ASSUME NEW ix, Good(ix), ix.kind = "hnsw"
    PROVE  Good(WithGraph(ix)) /\ (Complete(ix) => Complete(WithGraph(ix)))
<1> DEFINE new == WithGraph(ix)
<1>1. CASE new = ix
    BY <1>1
<1>2. CASE new # ix
    <2>0. DOMAIN ix = IndexFields
        BY DEF Good, Sound, IndexShape
    <2>1. new = [ix EXCEPT !.graph = Own(ix), !.dirty = FALSE]
        BY <1>2 DEF WithGraph
    <2>2. /\ DOMAIN new = IndexFields /\ new.kind = ix.kind /\ new.entries = ix.entries
          /\ new.at = ix.at /\ new.byKey = ix.byKey /\ new.dim = ix.dim /\ new.tables = ix.tables
          /\ new.graph = Own(ix) /\ new.dirty = FALSE /\ new.next = ix.next
        BY <2>0, <2>1 DEF IndexFields
    <2> HIDE DEF new
    <2>3. IndexShape(new)
        BY <2>2 DEF Good, Sound, IndexShape
    <2>4. KeysFit(new) /\ IdsFit(new) /\ VectorsFit(new)
        BY <2>2 DEF Good, Sound, KeysFit, IdsFit, VectorsFit
    <2>5. VectorsOf(new) = VectorsOf(ix) /\ Own(new) = Own(ix)
        BY <2>2 DEF VectorsOf, Own, Size
    <2>6. TablesFit(new)
        BY <2>2, <2>5 DEF Good, Sound, TablesFit
    <2>7. GraphFits(new)
        BY <2>2, <2>5 DEF GraphFits
    <2>8. Complete(ix) => Complete(new)
        BY <2>2 DEF Complete
    <2> QED BY <2>2, <2>3, <2>4, <2>6, <2>7, <2>8 DEF Good, Sound, new
<1> QED BY <1>1, <1>2

LEMMA AskedGood ==
    ASSUME NEW ix, Good(ix), NEW q, NEW n, NEW keys,
           NEW new \in {Query(ix, q, n).ix, QueryFiltered(ix, q, n, keys).ix}
    PROVE  Good(new) /\ (Complete(ix) => Complete(new))
<1>1. Query(ix, q, n).ix = ix \/ (ix.kind = "hnsw" /\ Query(ix, q, n).ix = WithGraph(ix))
    BY DEF Query, Scans
<1>2. QueryFiltered(ix, q, n, keys).ix = ix
      \/ (ix.kind = "hnsw" /\ QueryFiltered(ix, q, n, keys).ix = WithGraph(ix))
    BY DEF QueryFiltered, ScansFiltered, FilteredByGraph
<1>3. new = ix \/ (ix.kind = "hnsw" /\ new = WithGraph(ix))
    BY <1>1, <1>2
<1> QED BY <1>3, WithGraphGood

-----------------------------------------------------------------------------
(***************************************************************************)
(* IndexConsistent for any batches of records, of any dimensions, any      *)
(* planes, and an index of any size.                                       *)
(***************************************************************************)
IndexInv == Good(index) /\ (crowded \/ Complete(index))

LEMMA SequencesOf ==
    ASSUME NEW A, NEW B, A \subseteq B, NEW s \in Seq(A)
    PROVE  s \in Seq(B) /\ (s = << >> <=> DOMAIN s = {})
<1>1. Len(s) \in Nat /\ DOMAIN s = 1..Len(s) /\ \A i \in 1..Len(s) : s[i] \in B
    OBVIOUS
<1>2. s = [i \in 1..Len(s) |-> s[i]]
    OBVIOUS
<1>3. s \in Seq(B)
    BY <1>1, <1>2
<1>4. s = << >> => DOMAIN s = {}
    OBVIOUS
<1>5. ASSUME DOMAIN s = {} PROVE s = << >>
    <2>1. Len(s) = 0
        BY <1>1, <1>5
    <2> QED BY <2>1
<1> QED BY <1>3, <1>4, <1>5

LEMMA ArgumentsAreBatches == \A records \in IndexBatches : Batch(records)
<1> TAKE records \in IndexBatches
<1>1. /\ records \in Seq([key : IndexKeys, id : IndexIds, emb : Seq(Int)])
      /\ IndexKeys \subseteq Nat
      /\ \A i, j \in DOMAIN records :
            /\ Len(records[i].emb) = Len(records[j].emb)
            /\ records[i].emb # << >> => DOMAIN Planes[Len(records[i].emb)] # {}
    BY IndexAssumption
<1>2. [key : IndexKeys, id : IndexIds, emb : Seq(Int)] \subseteq AnyRecord
    BY <1>1 DEF AnyRecord
<1>3. records \in Seq(AnyRecord)
    BY <1>1, <1>2, SequencesOf
<1> QED BY <1>1, <1>3 DEF Batch

LEMMA ImportedGood ==
    ASSUME NEW ix, Good(ix), NEW records, Batch(records)
    PROVE  /\ Good(Imported(ix, records)) /\ Imported(ix, records).kind = ix.kind
           /\ ~CrowdedBy(Reset(ix), records) => Complete(Imported(ix, records))
<1>1. Good(Reset(ix)) /\ Complete(Reset(ix)) /\ Reset(ix).kind = ix.kind
    BY ClearedGood
<1> QED BY <1>1, PutRecordsGood DEF Imported

LEMMA IndexInvInit == IndexInit => IndexInv
<1> SUFFICES ASSUME IndexInit PROVE IndexInv
    OBVIOUS
<1>1. PICK k \in IndexKinds : index = NewIndex(k)
    BY DEF IndexInit
<1>2. k \in StorageKinds
    BY IndexAssumption DEF StorageKinds
<1>3. Vacant(index)
    BY <1>1, <1>2, BlankIndexes
<1> QED BY <1>3, BlankGood DEF IndexInv

LEMMA IndexInvNext == IndexInv /\ [IndexNext]_indexVars => IndexInv'
<1> SUFFICES ASSUME IndexInv, [IndexNext]_indexVars PROVE IndexInv'
    OBVIOUS
<1>0. Good(index) /\ (crowded \/ Complete(index))
    BY DEF IndexInv
<1>1. CASE UpsertRecords
    <2>1. PICK records \in IndexBatches :
             Changes(PutRecords(index, records), crowded \/ CrowdedBy(index, records))
        BY <1>1 DEF UpsertRecords
    <2>2. /\ Good(PutRecords(index, records))
          /\ Complete(index) /\ ~CrowdedBy(index, records) => Complete(PutRecords(index, records))
        BY <1>0, ArgumentsAreBatches, PutRecordsGood
    <2>3. index' = PutRecords(index, records) /\ crowded' = (crowded \/ CrowdedBy(index, records))
        BY <2>1 DEF Changes
    <2> QED BY <1>0, <2>2, <2>3 DEF IndexInv
<1>2. CASE UpsertBatch
    <2>1. PICK records \in IndexBatches :
             Changes(PutIds(index, records),
                     crowded \/ CrowdedBy(Drained(index, records), Keyed(index, records)))
        BY <1>2 DEF UpsertBatch
    <2> DEFINE from == Drained(index, records)
               keyed == Keyed(index, records)
    <2>2. /\ Batch(keyed) /\ Good(from) /\ (Complete(index) => Complete(from))
        BY <1>0, ArgumentsAreBatches, KeyedFacts
    <2>3. /\ index' = PutRecords(from, keyed)
          /\ crowded' = (crowded \/ CrowdedBy(from, keyed))
        BY <2>1 DEF Changes, PutIds
    <2> HIDE DEF from, keyed
    <2>4. /\ Good(PutRecords(from, keyed))
          /\ Complete(from) /\ ~CrowdedBy(from, keyed) => Complete(PutRecords(from, keyed))
        BY <2>2, PutRecordsGood
    <2> QED BY <1>0, <2>2, <2>3, <2>4 DEF IndexInv
<1>3. CASE RemoveId
    <2>1. PICK id \in IndexIds : Changes(Removed(index, id), crowded)
        BY <1>3 DEF RemoveId
    <2>2. Good(Removed(index, id)) /\ (Complete(index) => Complete(Removed(index, id)))
        BY <1>0, RemovedGood
    <2>3. index' = Removed(index, id) /\ crowded' = crowded
        BY <2>1 DEF Changes
    <2> QED BY <1>0, <2>2, <2>3 DEF IndexInv
<1>4. CASE ResetIndex
    <2>1. index' = Reset(index)
        BY <1>4 DEF ResetIndex, Changes
    <2>2. Good(Reset(index)) /\ Complete(Reset(index))
        BY <1>0, ClearedGood
    <2> QED BY <2>1, <2>2 DEF IndexInv
<1>5. CASE ImportRecords
    <2>1. PICK records \in IndexBatches :
             Changes(Imported(index, records), CrowdedBy(Reset(index), records))
        BY <1>5 DEF ImportRecords
    <2>2. /\ Good(Imported(index, records))
          /\ ~CrowdedBy(Reset(index), records) => Complete(Imported(index, records))
        BY <1>0, ArgumentsAreBatches, ImportedGood
    <2>3. index' = Imported(index, records) /\ crowded' = CrowdedBy(Reset(index), records)
        BY <2>1 DEF Changes
    <2> QED BY <2>2, <2>3 DEF IndexInv
<1>6. CASE MapSegments
    <2>1. PICK records \in IndexBatches :
             Changes(MappedFile(Exported(Imported(index, records))), CrowdedBy(Reset(index), records))
        BY <1>6 DEF MapSegments
    <2> DEFINE im == Imported(index, records)
    <2>2. Good(im) /\ (~CrowdedBy(Reset(index), records) => Complete(im))
        BY <1>0, ArgumentsAreBatches, ImportedGood
    <2>3. index' = MappedFile(Exported(im)) /\ crowded' = CrowdedBy(Reset(index), records)
        BY <2>1 DEF Changes
    <2> HIDE DEF im
    <2>4. Good(MappedFile(Exported(im))) /\ (Complete(im) => Complete(MappedFile(Exported(im))))
        BY <2>2, MappedFileGood
    <2> QED BY <2>2, <2>3, <2>4 DEF IndexInv
<1>7. CASE Ask
    <2>1. /\ crowded' = crowded
          /\ \E q, n, keys : index' \in {Query(index, q, n).ix, QueryFiltered(index, q, n, keys).ix}
        BY <1>7 DEF Ask, Answer
    <2>2. Good(index') /\ (Complete(index) => Complete(index'))
        BY <1>0, <2>1, AskedGood
    <2> QED BY <1>0, <2>1, <2>2 DEF IndexInv
<1>8. CASE UNCHANGED indexVars
    <2>1. index' = index /\ crowded' = crowded
        BY <1>8 DEF indexVars
    <2> QED BY <1>0, <2>1 DEF IndexInv
<1> QED BY <1>1, <1>2, <1>3, <1>4, <1>5, <1>6, <1>7, <1>8 DEF IndexNext

LEMMA InvIsConsistent == IndexInv => IndexConsistent
<1> SUFFICES ASSUME IndexInv PROVE IndexConsistent
    OBVIOUS
<1> DEFINE Positions == DOMAIN index.entries
<1>0. /\ Sound(index) /\ GraphFits(index) /\ (index.dim = 0 <=> index.entries = << >>)
      /\ (index.dim = 0 => index.tables = << >>)
      /\ (index.kind = "lsh" /\ index.dim # 0 => DOMAIN Planes[index.dim] # {})
      /\ (crowded \/ Complete(index))
    BY DEF IndexInv, Good
<1>1. IndexShape(index) /\ KeysFit(index) /\ IdsFit(index) /\ VectorsFit(index) /\ TablesFit(index)
    BY <1>0 DEF Sound
<1>2. /\ DOMAIN index.byKey = {index.entries[p].key : p \in Positions}
      /\ \A p \in Positions : index.byKey[index.entries[p].key] = p
    BY <1>1 DEF KeysFit
<1>3. \A id \in DOMAIN index.at :
         index.at[id] \in Positions /\ index.entries[index.at[id]].id = id
    BY <1>1 DEF IdsFit
<1>4. crowded \/ DOMAIN index.at = {index.entries[p].id : p \in Positions}
    BY <1>0 DEF Complete
<1>5. index.dim = 0 <=> Positions = {}
    <2>1. index.entries \in Seq(IndexEntry)
        BY <1>1 DEF IndexShape
    <2>2. index.entries = << >> <=> Positions = {}
        BY <2>1, SequencesOf
    <2> QED BY <1>0, <2>2
<1>6. \A p \in Positions : Len(index.entries[p].emb) = index.dim
    BY <1>1 DEF VectorsFit
<1>7. \A p \in Positions : index.entries[p].key < index.next
    BY <1>1 DEF VectorsFit
<1>8. index.kind = "lsh" => (index.tables = << >> <=> Positions = {})
    <2>1. index.kind = "lsh" /\ index.dim # 0 => DOMAIN index.tables # {}
        BY <1>0, <1>1 DEF TablesFit
    <2>2. index.tables = << >> => DOMAIN index.tables = {}
        OBVIOUS
    <2> QED BY <1>0, <1>5, <2>1, <2>2
<1>9. ASSUME NEW t \in DOMAIN index.tables, NEW b \in DOMAIN index.tables[t]
      PROVE  /\ IsInjective(index.tables[t][b])
             /\ ToSet(index.tables[t][b]) =
                   {p \in Positions : Buckets(index, index.entries[p].emb)[t] = b}
    <2>1. Holds(index.tables[t][b], Belonging(VectorsOf(index), t, b))
        BY <1>1 DEF TablesFit, Filled
    <2>2. \A p \in Positions : Buckets(index, index.entries[p].emb)[t] = Bucket(index.entries[p].emb, t)
        BY DEF Buckets
    <2>3. Belonging(VectorsOf(index), t, b) =
             {p \in Positions : Buckets(index, index.entries[p].emb)[t] = b}
        BY <2>2 DEF Belonging, VectorsOf
    <2> QED BY <2>1, <2>3 DEF Holds
<1>10. index.graph = << >> \/ (~index.dirty /\ index.graph = Own(index))
    BY <1>0 DEF GraphFits
<1> QED BY <1>2, <1>3, <1>4, <1>5, <1>6, <1>7, <1>8, <1>9, <1>10 DEF IndexConsistent

THEOREM IndexInvariant == IndexSpec => []IndexInv
BY IndexInvInit, IndexInvNext, PTL DEF IndexSpec

(***************************************************************************)
(* Entries, maps, tables and graph agree after any sequence of insertions, *)
(* replacements, removals, imports and queries.                            *)
(***************************************************************************)
THEOREM IndexStaysConsistent == IndexSpec => []IndexConsistent
BY IndexInvariant, InvIsConsistent, PTL

-----------------------------------------------------------------------------
(* Records by their keys: a new one comes last, a known one stays in place. *)

\* A new key takes a place of its own, a known one keeps its place.
LEMMA PushedKeys ==
    ASSUME NEW ix, DOMAIN ix = IndexFields, KeysFit(ix), IsList(ix.entries), NEW r,
           r.key \notin DOMAIN ix.byKey
    PROVE  LET new == Pushed(ix, r)
           IN  /\ DOMAIN new = IndexFields /\ new.kind = ix.kind /\ new.graph = ix.graph
               /\ new.entries = Append(ix.entries, EntryOf(r)) /\ KeysFit(new)
<1> DEFINE p == Size(ix) + 1
           e == EntryOf(r)
           m == [ix EXCEPT !.entries = Append(@, EntryOf(r)), !.at = Mapped(@, r.id, p),
                           !.byKey = Mapped(@, r.key, p)]
           new == Pushed(ix, r)
<1>1. e.key = r.key
    BY DEF EntryOf
<1>2. /\ DOMAIN m = IndexFields /\ m.kind = ix.kind /\ m.graph = ix.graph
      /\ m.entries = Append(ix.entries, e) /\ m.byKey = Mapped(ix.byKey, r.key, p)
    BY DEF IndexFields
<1>3. new = Inserted(m, p, Unit(r.emb))
    BY DEF Pushed
<1> HIDE DEF m
<1>4. /\ DOMAIN new = IndexFields /\ new.kind = ix.kind /\ new.graph = ix.graph
      /\ new.entries = Append(ix.entries, e) /\ new.byKey = Mapped(ix.byKey, r.key, p)
    BY <1>2, <1>3, TableSteps DEF SameBut
<1> HIDE DEF new, e
<1>5. /\ DOMAIN new.entries = DOMAIN ix.entries \cup {p}
      /\ new.entries[p] = e /\ \A q \in DOMAIN ix.entries : new.entries[q] = ix.entries[q]
    BY <1>4, AppendedList DEF Size
<1> HIDE DEF p
<1>6. KeysFit(new)
    <2>1. \A q \in DOMAIN ix.entries : ix.entries[q].key \in DOMAIN ix.byKey
                                       /\ ix.byKey[ix.entries[q].key] = q
        BY DEF KeysFit
    <2>2. DOMAIN new.byKey = DOMAIN ix.byKey \cup {r.key}
          /\ \A k \in DOMAIN new.byKey : new.byKey[k] = IF k = r.key THEN p ELSE ix.byKey[k]
        BY <1>4 DEF Mapped
    <2>3. DOMAIN ix.byKey = {ix.entries[q].key : q \in DOMAIN ix.entries}
        BY DEF KeysFit
    <2>4. \A k : k \in DOMAIN new.byKey <=> \E q \in DOMAIN new.entries : k = new.entries[q].key
        BY <1>1, <1>5, <2>2, <2>3
    <2>5. \A q \in DOMAIN new.entries : new.byKey[new.entries[q].key] = q
        BY <1>1, <1>5, <2>1, <2>2
    <2>6. DOMAIN new.byKey = {new.entries[q].key : q \in DOMAIN new.entries}
        BY <2>4
    <2> QED BY <2>5, <2>6 DEF KeysFit
<1> QED BY <1>4, <1>6 DEF new, e

LEMMA ReplacedKeys ==
    ASSUME NEW ix, DOMAIN ix = IndexFields, KeysFit(ix), IsList(ix.entries), NEW r,
           NEW p \in DOMAIN ix.entries, ix.entries[p].key = r.key
    PROVE  LET new == Replaced(ix, r, p)
           IN  /\ DOMAIN new = IndexFields /\ new.kind = ix.kind /\ new.graph = ix.graph
               /\ new.entries = [ix.entries EXCEPT ![p] = EntryOf(r)] /\ KeysFit(new)
<1> DEFINE e == EntryOf(r)
           old == ix.entries[p]
           m == [ix EXCEPT !.entries[p] = EntryOf(r), !.at = Mapped(Unmapped(@, old.id), r.id, p)]
           out == TakenOut(m, p, old.emb)
           new == Replaced(ix, r, p)
<1>1. e.key = r.key
    BY DEF EntryOf
<1>2. /\ DOMAIN m = IndexFields /\ m.kind = ix.kind /\ m.graph = ix.graph /\ m.byKey = ix.byKey
      /\ m.entries = [ix.entries EXCEPT ![p] = e]
    BY DEF IndexFields
<1>3. new = Inserted(out, p, Unit(r.emb))
    BY DEF Replaced
<1> HIDE DEF m
<1>4. /\ DOMAIN out = IndexFields /\ out.kind = ix.kind /\ out.graph = ix.graph /\ out.byKey = ix.byKey
      /\ out.entries = [ix.entries EXCEPT ![p] = e]
    BY <1>2, TableSteps DEF SameBut
<1> HIDE DEF out
<1>5. /\ DOMAIN new = IndexFields /\ new.kind = ix.kind /\ new.graph = ix.graph /\ new.byKey = ix.byKey
      /\ new.entries = [ix.entries EXCEPT ![p] = e]
    BY <1>3, <1>4, TableSteps DEF SameBut
<1> HIDE DEF new, e
<1>6. /\ DOMAIN new.entries = DOMAIN ix.entries /\ new.entries[p] = e
      /\ \A q \in DOMAIN ix.entries : q # p => new.entries[q] = ix.entries[q]
    BY <1>5
<1>7. \A q \in DOMAIN ix.entries : new.entries[q].key = ix.entries[q].key
    BY <1>1, <1>6
<1>8. {new.entries[q].key : q \in DOMAIN new.entries} = {ix.entries[q].key : q \in DOMAIN ix.entries}
    BY <1>6, <1>7
<1>9. KeysFit(new)
    BY <1>5, <1>6, <1>7, <1>8 DEF KeysFit
<1> QED BY <1>5, <1>9 DEF new, e

LEMMA RaisedKeys ==
    ASSUME NEW ix, DOMAIN ix = IndexFields, NEW r
    PROVE  LET new == Raised(ix, r)
           IN  /\ DOMAIN new = IndexFields /\ new.kind = ix.kind /\ new.graph = ix.graph
               /\ new.entries = ix.entries /\ new.byKey = ix.byKey
BY DEF Raised, IndexFields

LEMMA PutNewKey ==
    ASSUME NEW ix, DOMAIN ix = IndexFields, KeysFit(ix), IsList(ix.entries), NEW r,
           \A q \in DOMAIN ix.entries : ix.entries[q].key # r.key
    PROVE  LET new == PutRecord(ix, r)
           IN  /\ DOMAIN new = IndexFields /\ new.kind = ix.kind /\ new.graph = ix.graph
               /\ new.entries = Append(ix.entries, EntryOf(r)) /\ KeysFit(new)
<1> DEFINE raised == Raised(ix, r)
           new == PutRecord(ix, r)
<1>1. r.key \notin DOMAIN ix.byKey
    BY DEF KeysFit
<1>2. new = Pushed(raised, r)
    BY <1>1 DEF PutRecord, Raised
<1>3. /\ DOMAIN raised = IndexFields /\ raised.kind = ix.kind /\ raised.graph = ix.graph
      /\ raised.entries = ix.entries /\ raised.byKey = ix.byKey
    BY RaisedKeys
<1> HIDE DEF raised
<1>4. KeysFit(raised) /\ IsList(raised.entries) /\ r.key \notin DOMAIN raised.byKey
    BY <1>1, <1>3 DEF KeysFit
<1> QED BY <1>2, <1>3, <1>4, PushedKeys

LEMMA PutKnownKey ==
    ASSUME NEW ix, DOMAIN ix = IndexFields, KeysFit(ix), IsList(ix.entries), NEW r,
           NEW p \in DOMAIN ix.entries, ix.entries[p].key = r.key
    PROVE  LET new == PutRecord(ix, r)
           IN  /\ DOMAIN new = IndexFields /\ new.kind = ix.kind /\ new.graph = ix.graph
               /\ new.entries = [ix.entries EXCEPT ![p] = EntryOf(r)] /\ KeysFit(new)
<1> DEFINE raised == Raised(ix, r)
           new == PutRecord(ix, r)
<1>1. r.key \in DOMAIN ix.byKey /\ ix.byKey[r.key] = p
    BY DEF KeysFit
<1>2. new = Replaced(raised, r, p)
    BY <1>1 DEF PutRecord, Raised
<1>3. /\ DOMAIN raised = IndexFields /\ raised.kind = ix.kind /\ raised.graph = ix.graph
      /\ raised.entries = ix.entries /\ raised.byKey = ix.byKey
    BY RaisedKeys
<1> HIDE DEF raised
<1>4. KeysFit(raised) /\ IsList(raised.entries) /\ p \in DOMAIN raised.entries /\ raised.entries[p].key = r.key
    BY <1>3 DEF KeysFit
<1>5. /\ DOMAIN Replaced(raised, r, p) = IndexFields /\ Replaced(raised, r, p).kind = raised.kind
      /\ Replaced(raised, r, p).graph = raised.graph
      /\ Replaced(raised, r, p).entries = [raised.entries EXCEPT ![p] = EntryOf(r)]
      /\ KeysFit(Replaced(raised, r, p))
    BY <1>3, <1>4, ReplacedKeys
<1> QED BY <1>2, <1>3, <1>5

LEMMA OpenedAlike ==
    ASSUME NEW ix, DOMAIN ix = IndexFields, NEW dim
    PROVE  LET new == Opened(ix, dim)
           IN  /\ DOMAIN new = IndexFields /\ new.kind = ix.kind /\ new.graph = ix.graph
               /\ new.entries = ix.entries /\ new.byKey = ix.byKey
<1>1. CASE ix.dim # 0
    BY <1>1 DEF Opened
<1>2. CASE ix.dim = 0
    <2>1. PICK t : Opened(ix, dim) = [ix EXCEPT !.dim = dim, !.tables = t]
        BY <1>2 DEF Opened
    <2> QED BY <2>1 DEF IndexFields
<1> QED BY <1>1, <1>2

LEMMA TouchedAlike ==
    ASSUME NEW ix, DOMAIN ix = IndexFields
    PROVE  LET new == Touched(ix)
           IN  /\ DOMAIN new = IndexFields /\ new.kind = ix.kind
               /\ new.entries = ix.entries /\ new.byKey = ix.byKey
               /\ ix.kind = "hnsw" \/ ix.graph = << >> => new.graph = << >>
BY DEF Touched, IndexFields

-----------------------------------------------------------------------------
(* The products of vectors are integers.                                   *)

\* The first sums.
SumPrefix(f, v, w, m) ==
    f = [i \in 0..m |-> IF i = 0 THEN 0 ELSE f[i - 1] + v[i] * w[i]]

LEMMA PartialSumsAre ==
    ASSUME NEW v, NEW w, AtMost(Len(v), Len(w)) \in Nat
    PROVE  /\ PartialSums(v, w)[0] = 0
           /\ \A i \in 1..AtMost(Len(v), Len(w)) : PartialSums(v, w)[i] = PartialSums(v, w)[i - 1] + v[i] * w[i]
<1> DEFINE G == {m \in Nat : \E f : SumPrefix(f, v, w, m)}
<1>1. 0 \in G
    <2> DEFINE f == [i \in 0..0 |-> 0]
    <2>1. SumPrefix(f, v, w, 0)
        BY DEF SumPrefix
    <2> QED BY <2>1
<1>2. ASSUME NEW m \in Nat, m \in G PROVE m + 1 \in G
    <2>1. PICK f : SumPrefix(f, v, w, m)
        BY <1>2
    <2> DEFINE g == [i \in 0..(m + 1) |-> IF i = 0 THEN 0 ELSE f[i - 1] + v[i] * w[i]]
    <2>2. \A i \in 0..m : f[i] = IF i = 0 THEN 0 ELSE f[i - 1] + v[i] * w[i]
        BY <2>1 DEF SumPrefix
    <2>3. \A i \in 0..(m + 1) : g[i] = IF i = 0 THEN 0 ELSE f[i - 1] + v[i] * w[i]
        OBVIOUS
    <2>4. \A i \in 0..m : i \in 0..(m + 1)
        OBVIOUS
    <2>5. \A i \in 0..m : g[i] = f[i]
        BY <2>2, <2>3, <2>4
    <2>6. \A i \in 0..(m + 1) : i # 0 => i - 1 \in 0..m
        OBVIOUS
    <2>7. \A i \in 0..(m + 1) : i # 0 => g[i - 1] = f[i - 1]
        BY <2>5, <2>6
    <2>8. g = [i \in 0..(m + 1) |-> IF i = 0 THEN 0 ELSE g[i - 1] + v[i] * w[i]]
        BY <2>3, <2>7
    <2> HIDE DEF g
    <2>9. SumPrefix(g, v, w, m + 1)
        BY <2>8 DEF SumPrefix
    <2> QED BY <2>9
<1> HIDE DEF G
<1>3. AtMost(Len(v), Len(w)) \in G
    BY <1>1, <1>2, EveryNatural
<1> DEFINE turn == PartialSums(v, w)
<1>4. \E f : SumPrefix(f, v, w, AtMost(Len(v), Len(w)))
    BY <1>3 DEF G
<1>5. turn = CHOOSE f : SumPrefix(f, v, w, AtMost(Len(v), Len(w)))
    BY DEF PartialSums, SumPrefix
<1>6. SumPrefix(turn, v, w, AtMost(Len(v), Len(w)))
    BY <1>4, <1>5
<1>7. 0 \in 0..(AtMost(Len(v), Len(w))) /\ \A i \in 1..(AtMost(Len(v), Len(w))) : i \in 0..(AtMost(Len(v), Len(w))) /\ i # 0
    OBVIOUS
<1> HIDE DEF turn
<1>8. \A i \in 0..(AtMost(Len(v), Len(w))) : turn[i] = IF i = 0 THEN 0 ELSE turn[i - 1] + v[i] * w[i]
    BY <1>6 DEF SumPrefix
<1>9. turn[0] = 0 /\ \A i \in 1..(AtMost(Len(v), Len(w))) : turn[i] = turn[i - 1] + v[i] * w[i]
    BY <1>7, <1>8
<1> QED BY <1>9 DEF turn

LEMMA DotIsInteger ==
    ASSUME NEW v \in Seq(Int), NEW w \in Seq(Int)
    PROVE  Dot(v, w) \in Int
<1> DEFINE n == AtMost(Len(v), Len(w))
           sum == PartialSums(v, w)
<1>1. n \in Nat /\ n <= Len(v) /\ n <= Len(w)
    BY DEF AtMost
<1>2. sum[0] = 0 /\ \A i \in 1..n : sum[i] = sum[i - 1] + v[i] * w[i]
    BY <1>1, PartialSumsAre
<1>3. \A i \in 1..n : v[i] * w[i] \in Int
    BY <1>1
<1> HIDE DEF n, sum
<1> DEFINE G == {m \in Nat : m <= n => sum[m] \in Int}
<1>4. 0 \in G
    BY <1>2
<1>5. ASSUME NEW m \in Nat, m \in G PROVE m + 1 \in G
    <2> SUFFICES ASSUME m + 1 <= n PROVE sum[m + 1] \in Int
        OBVIOUS
    <2>1. m + 1 \in 1..n /\ (m + 1) - 1 = m /\ m <= n
        BY <1>1
    <2>2. sum[m + 1] = sum[m] + v[m + 1] * w[m + 1]
        BY <1>2, <2>1
    <2> QED BY <1>3, <1>5, <2>1, <2>2
<1>6. \A m \in Nat : m \in G
    <2> HIDE DEF G
    <2> QED BY <1>4, <1>5, EveryNatural
<1>7. sum[n] \in Int
    BY <1>1, <1>6
<1> QED BY <1>7 DEF Dot, n, sum

-----------------------------------------------------------------------------
(* The index as a map from keys to what is filed under them.               *)

Item(e) == [id |-> e.id, emb |-> e.emb]
ContentOf(ix) == [k \in DOMAIN ix.byKey |-> Item(ix.entries[ix.byKey[k]])]

LEMMA ContentFacts ==
    ASSUME NEW ix, KeysFit(ix)
    PROVE  /\ DOMAIN ContentOf(ix) = {ix.entries[p].key : p \in DOMAIN ix.entries}
           /\ \A p \in DOMAIN ix.entries : ContentOf(ix)[ix.entries[p].key] = Item(ix.entries[p])
<1>1. DOMAIN ContentOf(ix) = DOMAIN ix.byKey
    BY DEF ContentOf
<1>2. DOMAIN ix.byKey = {ix.entries[p].key : p \in DOMAIN ix.entries}
    BY DEF KeysFit
<1>3. ASSUME NEW p \in DOMAIN ix.entries
      PROVE  ContentOf(ix)[ix.entries[p].key] = Item(ix.entries[p])
    <2>1. ix.entries[p].key \in DOMAIN ix.byKey /\ ix.byKey[ix.entries[p].key] = p
        BY DEF KeysFit
    <2> QED BY <2>1 DEF ContentOf
<1> QED BY <1>1, <1>2, <1>3

MapOn(c, S) == c = [k \in S |-> c[k]]

\* A map with the keys and the items of the entries is the content.
LEMMA ContentIs ==
    ASSUME NEW ix, KeysFit(ix), NEW S, NEW c, MapOn(c, S),
           S = {ix.entries[p].key : p \in DOMAIN ix.entries},
           \A p \in DOMAIN ix.entries : c[ix.entries[p].key] = Item(ix.entries[p])
    PROVE  c = ContentOf(ix)
<1>1. DOMAIN ContentOf(ix) = S
    BY ContentFacts
<1>2. \A k \in S : c[k] = ContentOf(ix)[k]
    <2> TAKE k \in S
    <2>1. PICK p \in DOMAIN ix.entries : k = ix.entries[p].key
        OBVIOUS
    <2>2. ContentOf(ix)[k] = Item(ix.entries[p])
        BY <2>1, ContentFacts
    <2> QED BY <2>1, <2>2
<1>3. ContentOf(ix) = [k \in S |-> ContentOf(ix)[k]]
    BY <1>1 DEF ContentOf
<1>4. c = [k \in S |-> c[k]]
    BY DEF MapOn
<1> QED BY <1>2, <1>3, <1>4

\* Entries that have the same keys and items make the same map.
LEMMA SameContent ==
    ASSUME NEW ix, NEW new, new.entries = ix.entries, new.byKey = ix.byKey
    PROVE  ContentOf(new) = ContentOf(ix)
BY DEF ContentOf

PutOneOf(m, r) == IndexMap!PutOne(m, r)

\* The map after one record, with the entry it becomes.
EntryAdded(old, r) == [k \in DOMAIN old \cup {r.key} |-> IF k = r.key THEN Item(EntryOf(r)) ELSE old[k]]

LEMMA PutOneIs ==
    ASSUME NEW m, NEW r
    PROVE  PutOneOf(m, r).content = EntryAdded(m.content, r)
<1>1. Item(EntryOf(r)) = [id |-> r.id, emb |-> Unit(r.emb)]
    BY DEF Item, EntryOf
<1> QED BY <1>1 DEF EntryAdded, PutOneOf, IndexMap!PutOne

LEMMA PutRecordContent ==
    ASSUME NEW ix, Sound(ix), NEW r, NEW m, m.content = ContentOf(ix)
    PROVE  PutOneOf(m, r).content = ContentOf(PutRecord(ix, r))
<1> DEFINE new == PutRecord(ix, r)
           c == PutOneOf(m, r).content
           S == DOMAIN ContentOf(ix) \cup {r.key}
           e == EntryOf(r)
<1>0. DOMAIN ix = IndexFields /\ KeysFit(ix) /\ IsList(ix.entries)
    BY DEF Sound, IndexShape, IsList
<1>1. /\ c = [k \in S |-> c[k]]
      /\ \A k \in S : c[k] = IF k = r.key THEN Item(e) ELSE ContentOf(ix)[k]
    <2>1. c = EntryAdded(ContentOf(ix), r)
        BY PutOneIs
    <2> HIDE DEF c
    <2> QED BY <2>1 DEF EntryAdded
<1>2. /\ DOMAIN ContentOf(ix) = {ix.entries[p].key : p \in DOMAIN ix.entries}
      /\ \A p \in DOMAIN ix.entries : ContentOf(ix)[ix.entries[p].key] = Item(ix.entries[p])
    BY <1>0, ContentFacts
<1>3. e.key = r.key
    BY DEF EntryOf
<1>4. CASE \A p \in DOMAIN ix.entries : ix.entries[p].key # r.key
    <2>1. new.entries = Append(ix.entries, e) /\ KeysFit(new)
        BY <1>0, <1>4, PutNewKey
    <2>2. /\ DOMAIN new.entries = DOMAIN ix.entries \cup {Len(ix.entries) + 1}
          /\ new.entries[Len(ix.entries) + 1] = e
          /\ \A p \in DOMAIN ix.entries : new.entries[p] = ix.entries[p]
        BY <1>0, <2>1, AppendedList
    <2> HIDE DEF new, c, e
    <2>3. S = {new.entries[p].key : p \in DOMAIN new.entries}
        BY <1>2, <1>3, <2>2
    <2>4. \A p \in DOMAIN new.entries : c[new.entries[p].key] = Item(new.entries[p])
        <3> TAKE p \in DOMAIN new.entries
        <3>1. new.entries[p].key \in S
            BY <2>3
        <3>2. CASE p = Len(ix.entries) + 1
            BY <1>1, <1>3, <2>2, <3>1, <3>2
        <3>3. CASE p \in DOMAIN ix.entries
            BY <1>1, <1>2, <1>4, <2>2, <3>1, <3>3
        <3> QED BY <2>2, <3>2, <3>3
    <2> HIDE DEF S
    <2>6. MapOn(c, S)
        BY <1>1 DEF MapOn
    <2>7. KeysFit(new)
        BY <2>1
    <2>5. c = ContentOf(new)
        BY <2>3, <2>4, <2>6, <2>7, ContentIs
    <2> QED BY <2>5 DEF c, new
<1>5. ASSUME NEW p \in DOMAIN ix.entries, ix.entries[p].key = r.key
      PROVE  c = ContentOf(new)
    <2>1. new.entries = [ix.entries EXCEPT ![p] = e] /\ KeysFit(new)
        BY <1>0, <1>5, PutKnownKey
    <2>2. /\ DOMAIN new.entries = DOMAIN ix.entries /\ new.entries[p] = e
          /\ \A q \in DOMAIN ix.entries : q # p => new.entries[q] = ix.entries[q]
        BY <2>1
    <2>3. \A q \in DOMAIN ix.entries : ix.entries[q].key = r.key => q = p
        BY <1>0, <1>5 DEF KeysFit
    <2> HIDE DEF new, c, e
    <2>4. \A q \in DOMAIN ix.entries : new.entries[q].key = ix.entries[q].key
        BY <1>3, <1>5, <2>2
    <2>5. S = {new.entries[q].key : q \in DOMAIN new.entries}
        BY <1>2, <1>5, <2>2, <2>4
    <2>6. \A q \in DOMAIN new.entries : c[new.entries[q].key] = Item(new.entries[q])
        BY <1>1, <1>2, <1>3, <1>5, <2>2, <2>3, <2>4
    <2> HIDE DEF S
    <2>7. MapOn(c, S)
        BY <1>1 DEF MapOn
    <2>8. KeysFit(new)
        BY <2>1
    <2>9. c = ContentOf(new)
        BY <2>5, <2>6, <2>7, <2>8, ContentIs
    <2> QED BY <2>9 DEF c, new
<1> QED BY <1>4, <1>5

\* The ids of a map are distinct when no entries crowd.
LEMMA DistinctContent ==
    ASSUME NEW ix, KeysFit(ix)
    PROVE  IndexMap!Distinct(ContentOf(ix)) <=> ~Crowds(ix)
<1> DEFINE c == ContentOf(ix)
           P == DOMAIN ix.entries
<1>1. /\ DOMAIN c = {ix.entries[p].key : p \in P}
      /\ \A p \in P : c[ix.entries[p].key] = Item(ix.entries[p])
      /\ \A p, o \in P : ix.entries[p].key = ix.entries[o].key => p = o
    BY ContentFacts DEF KeysFit
<1> HIDE DEF c
<1>2. \A p \in P : c[ix.entries[p].key].id = ix.entries[p].id
    <2> TAKE p \in P
    <2>1. c[ix.entries[p].key] = Item(ix.entries[p])
        BY <1>1
    <2>2. Item(ix.entries[p]).id = ix.entries[p].id
        BY DEF Item
    <2> QED BY <2>1, <2>2
<1> HIDE DEF P
<1>3. (\A k, l \in DOMAIN c : c[k].id = c[l].id => k = l)
      <=> (\A p, o \in P : ix.entries[p].id = ix.entries[o].id => p = o)
    BY <1>1, <1>2
<1>4. Crowds(ix) <=> \E p, o \in P : p # o /\ ix.entries[p].id = ix.entries[o].id
    BY DEF Crowds, P
<1>5. IndexMap!Distinct(c) <=> \A k, l \in DOMAIN c : c[k].id = c[l].id => k = l
    BY DEF IndexMap!Distinct
<1> QED BY <1>3, <1>4, <1>5 DEF c

-----------------------------------------------------------------------------
(* A batch, record by record.                                              *)

\* The first stages of a map as one function.
MapPrefix(f, m, records, l) == f = [n \in 0..l |-> IF n = 0 THEN m ELSE PutOneOf(f[n - 1], records[n])]

LEMMA MapStagesAre ==
    ASSUME NEW m, NEW records, Len(records) \in Nat
    PROVE  LET stage == IndexMap!PutStages(m, records)
           IN  /\ stage[0] = m
               /\ \A n \in 1..Len(records) : stage[n] = PutOneOf(stage[n - 1], records[n])
<1> DEFINE G == {l \in Nat : \E f : MapPrefix(f, m, records, l)}
<1>1. 0 \in G
    <2> DEFINE f == [n \in 0..0 |-> m]
    <2>1. MapPrefix(f, m, records, 0)
        BY DEF MapPrefix
    <2> QED BY <2>1
<1>2. ASSUME NEW l \in Nat, l \in G PROVE l + 1 \in G
    <2>1. PICK f : MapPrefix(f, m, records, l)
        BY <1>2
    <2> DEFINE g == [n \in 0..(l + 1) |-> IF n = 0 THEN m ELSE PutOneOf(f[n - 1], records[n])]
    <2>2. \A n \in 0..l : f[n] = IF n = 0 THEN m ELSE PutOneOf(f[n - 1], records[n])
        BY <2>1 DEF MapPrefix
    <2>3. \A n \in 0..(l + 1) : g[n] = IF n = 0 THEN m ELSE PutOneOf(f[n - 1], records[n])
        OBVIOUS
    <2>4. \A n \in 0..l : n \in 0..(l + 1)
        OBVIOUS
    <2>5. \A n \in 0..l : g[n] = f[n]
        BY <2>2, <2>3, <2>4
    <2>6. \A n \in 0..(l + 1) : n # 0 => n - 1 \in 0..l
        OBVIOUS
    <2>7. \A n \in 0..(l + 1) : n # 0 => g[n - 1] = f[n - 1]
        BY <2>5, <2>6
    <2>8. g = [n \in 0..(l + 1) |-> IF n = 0 THEN m ELSE PutOneOf(g[n - 1], records[n])]
        BY <2>3, <2>7
    <2> HIDE DEF g
    <2>9. MapPrefix(g, m, records, l + 1)
        BY <2>8 DEF MapPrefix
    <2> QED BY <2>9
<1> HIDE DEF G
<1>3. \A l \in Nat : l \in G
    BY <1>1, <1>2, EveryNatural
<1>4. \E f : MapPrefix(f, m, records, Len(records))
    BY <1>3 DEF G
<1> DEFINE stage == IndexMap!PutStages(m, records)
<1>5. stage = CHOOSE f : MapPrefix(f, m, records, Len(records))
    BY DEF IndexMap!PutStages, MapPrefix, PutOneOf
<1>6. MapPrefix(stage, m, records, Len(records))
    BY <1>4, <1>5
<1>7. 0 \in 0..Len(records) /\ \A n \in 1..Len(records) : n \in 0..Len(records) /\ n # 0
    OBVIOUS
<1> HIDE DEF stage
<1>8. \A n \in 0..Len(records) : stage[n] = IF n = 0 THEN m ELSE PutOneOf(stage[n - 1], records[n])
    BY <1>6 DEF MapPrefix
<1> QED BY <1>7, <1>8 DEF stage

\* The map stands for the index, and has been crowded if an id came under two keys.
Stands(m, ix, crowds) == m.content = ContentOf(ix) /\ m.crowded = crowds

LEMMA StagesStand ==
    ASSUME NEW ix, Good(ix), NEW records, Batch(records), Accepted(ix, records),
           NEW crowds \in BOOLEAN, NEW m, Stands(m, ix, crowds)
    PROVE  \A n \in 0..Len(records) :
              Stands(IndexMap!PutStages(m, records)[n], PutStages(ix, records)[n],
                     crowds \/ \E i \in 1..n : Crowds(PutStages(ix, records)[i]))
<1> DEFINE L == Len(records)
           stage == PutStages(ix, records)
           maps == IndexMap!PutStages(m, records)
           Since(n) == crowds \/ \E i \in 1..n : Crowds(stage[i])
           G == {n \in Nat : n <= L => Stands(maps[n], stage[n], Since(n))}
<1>1. L \in Nat /\ L # 0 /\ \A n \in 1..L : records[n] \in AnyRecord
    BY AcceptedFacts
<1>2. /\ stage[0] = Opened(ix, Len(records[1].emb))
      /\ \A n \in 1..L : stage[n] = PutRecord(stage[n - 1], records[n])
    BY <1>1, PutStagesAre
<1>3. maps[0] = m /\ \A n \in 1..L : maps[n] = PutOneOf(maps[n - 1], records[n])
    BY <1>1, MapStagesAre
<1>4. \A n \in 0..L : Sound(stage[n])
    BY StagesHold DEF StageHolds
<1> HIDE DEF stage, maps
<1>5. 0 \in G
    <2>1. DOMAIN ix = IndexFields
        BY DEF Good, Sound, IndexShape
    <2>2. stage[0].entries = ix.entries /\ stage[0].byKey = ix.byKey
        BY <1>2, <2>1, OpenedAlike
    <2>3. ContentOf(stage[0]) = ContentOf(ix)
        BY <2>2, SameContent
    <2>4. Since(0) = crowds
        OBVIOUS
    <2> HIDE DEF Since
    <2>5. Stands(maps[0], stage[0], Since(0))
        BY <1>3, <2>3, <2>4 DEF Stands
    <2> QED BY <2>5
<1>6. ASSUME NEW n \in Nat, n \in G PROVE n + 1 \in G
    <2> SUFFICES ASSUME n + 1 <= L PROVE Stands(maps[n + 1], stage[n + 1], Since(n + 1))
        OBVIOUS
    <2>1. n <= L /\ n \in 0..L /\ n + 1 \in 0..L /\ n + 1 \in 1..L /\ (n + 1) - 1 = n
        BY <1>1
    <2>2. maps[n].content = ContentOf(stage[n]) /\ maps[n].crowded = Since(n)
        BY <1>6, <2>1 DEF Stands
    <2>3. stage[n + 1] = PutRecord(stage[n], records[n + 1]) /\ maps[n + 1] = PutOneOf(maps[n], records[n + 1])
        BY <1>2, <1>3, <2>1
    <2>4. Sound(stage[n]) /\ Sound(stage[n + 1])
        BY <1>4, <2>1
    <2>5. maps[n + 1].content = ContentOf(stage[n + 1])
        BY <2>2, <2>3, <2>4, PutRecordContent
    <2>6. maps[n + 1].crowded = (maps[n].crowded \/ ~IndexMap!Distinct(maps[n + 1].content))
        BY <2>3 DEF PutOneOf, IndexMap!PutOne
    <2>7. IndexMap!Distinct(ContentOf(stage[n + 1])) <=> ~Crowds(stage[n + 1])
        BY <2>4, DistinctContent DEF Sound
    <2>8. 1..(n + 1) = (1..n) \cup {n + 1}
        OBVIOUS
    <2>9. Since(n + 1) <=> Since(n) \/ Crowds(stage[n + 1])
        BY <2>8
    <2>10. Since(n) \in BOOLEAN /\ Since(n + 1) \in BOOLEAN
        OBVIOUS
    <2> HIDE DEF Since
    <2>11. maps[n + 1].crowded = Since(n + 1)
        BY <2>2, <2>5, <2>6, <2>7, <2>9, <2>10
    <2> QED BY <2>5, <2>11 DEF Stands
<1> HIDE DEF G
<1>7. \A n \in Nat : n \in G
    BY <1>5, <1>6, EveryNatural
<1> QED BY <1>1, <1>7 DEF G, stage, maps

\* The map refuses what the index refuses.
LEMMA FitsAlike ==
    ASSUME NEW ix, Good(ix), NEW v \in Seq(Int)
    PROVE  Fits(ix, v) <=> IndexMap!Fits(ContentOf(ix), v)
<1> DEFINE c == ContentOf(ix)
           P == DOMAIN ix.entries
<1>1. /\ DOMAIN c = {ix.entries[p].key : p \in P}
      /\ \A p \in P : c[ix.entries[p].key] = Item(ix.entries[p])
    BY ContentFacts DEF Good, Sound
<1>2. \A p \in P : Len(ix.entries[p].emb) = ix.dim
    BY DEF Good, Sound, VectorsFit
<1>3. ix.entries \in Seq(IndexEntry)
    BY DEF Good, Sound, IndexShape
<1>4. ix.dim = 0 <=> P = {}
    <2>1. ix.entries = << >> <=> P = {}
        BY <1>3, SequencesOf
    <2> QED BY <2>1 DEF Good
<1> HIDE DEF c
<1>5. \A p \in P : Len(c[ix.entries[p].key].emb) = ix.dim
    <2> TAKE p \in P
    <2>1. c[ix.entries[p].key] = Item(ix.entries[p])
        BY <1>1
    <2> QED BY <1>2, <2>1 DEF Item
<1> HIDE DEF P
<1>6. (\A k \in DOMAIN c : Len(c[k].emb) = Len(v)) <=> (P = {} \/ ix.dim = Len(v))
    BY <1>1, <1>5
<1>7. IndexMap!Fits(c, v) <=> v # << >> /\ \A k \in DOMAIN c : Len(c[k].emb) = Len(v)
    BY DEF IndexMap!Fits
<1> QED BY <1>4, <1>6, <1>7 DEF Fits, c

LEMMA PutContent ==
    ASSUME NEW ix, Good(ix), NEW records, Batch(records), NEW crowds \in BOOLEAN,
           NEW m, Stands(m, ix, crowds)
    PROVE  Stands(IndexMap!PutAll(m, records), PutRecords(ix, records), crowds \/ CrowdedBy(ix, records))
<1> DEFINE L == Len(records)
           Taken == \A i \in DOMAIN records : IndexMap!Fits(m.content, records[i].emb)
           stage == PutStages(ix, records)
           maps == IndexMap!PutStages(m, records)
<1>1. L \in Nat /\ DOMAIN records = 1..L /\ \A i \in 1..L : records[i].emb \in Seq(Int)
    <2>1. records \in Seq(AnyRecord)
        BY DEF Batch
    <2>2. \A i \in 1..L : records[i] \in AnyRecord
        BY <2>1
    <2> QED BY <2>1, <2>2 DEF AnyRecord
<1>2. m.content = ContentOf(ix) /\ m.crowded = crowds
    BY DEF Stands
<1>3. Taken <=> \A i \in DOMAIN records : Fits(ix, records[i].emb)
    BY <1>1, <1>2, FitsAlike
<1>4. IndexMap!PutAll(m, records) = IF Taken THEN maps[L] ELSE m
    BY DEF IndexMap!PutAll
<1> HIDE DEF Taken, maps, stage
<1>5. CASE ~Accepted(ix, records)
    <2>1. PutRecords(ix, records) = ix /\ (crowds \/ CrowdedBy(ix, records)) = crowds
        BY <1>5 DEF PutRecords, CrowdedBy
    <2>2. ~Taken \/ records = << >>
        BY <1>3, <1>5 DEF Accepted
    <2>3. records = << >> => L = 0 /\ maps[0] = m
        <3>1. ASSUME records = << >> PROVE L = 0
            BY <3>1
        <3>2. maps[0] = m
            BY <1>1, MapStagesAre DEF maps
        <3> QED BY <3>1, <3>2
    <2>4. IndexMap!PutAll(m, records) = m
        BY <1>4, <2>2, <2>3
    <2> QED BY <2>1, <2>4
<1>6. CASE Accepted(ix, records)
    <2>1. Taken
        BY <1>3, <1>6 DEF Accepted
    <2>2. L \in 0..L
        BY <1>1
    <2>3. Stands(maps[L], stage[L], crowds \/ \E i \in 1..L : Crowds(stage[i]))
        BY <1>6, <2>2, StagesStand DEF maps, stage
    <2>4. (\E i \in 1..L : Crowds(stage[i])) <=> CrowdedBy(ix, records)
        BY <1>1, <1>6 DEF CrowdedBy, stage
    <2>5. (crowds \/ \E i \in 1..L : Crowds(stage[i])) = (crowds \/ CrowdedBy(ix, records))
        BY <2>4
    <2>6. PutRecords(ix, records) = Touched(stage[L])
        BY <1>6 DEF PutRecords, stage
    <2>7. DOMAIN stage[L] = IndexFields
        BY <1>6, <2>2, StagesHold DEF StageHolds, Sound, IndexShape, stage
    <2>8. /\ Touched(stage[L]).entries = stage[L].entries
          /\ Touched(stage[L]).byKey = stage[L].byKey
        BY <2>7, TouchedAlike
    <2>9. ContentOf(Touched(stage[L])) = ContentOf(stage[L])
        BY <2>8, SameContent
    <2> QED BY <1>4, <2>1, <2>3, <2>5, <2>6, <2>9 DEF Stands
<1> QED BY <1>5, <1>6

-----------------------------------------------------------------------------
(* Records that come with an id only.                                      *)

LEMMA LaterContent ==
    ASSUME NEW ix, NEW new, Later(new, ix)
    PROVE  ContentOf(new) = ContentOf(ix) /\ (\A r : Fits(new, r) <=> Fits(ix, r))
<1>1. new.entries = ix.entries /\ new.byKey = ix.byKey /\ new.dim = ix.dim
    BY DEF Later, SameButNext
<1> QED BY <1>1, SameContent DEF Fits

\* The keys given out grow with each new id.
LEMMA KeysGrow ==
    ASSUME NEW ix, Sound(ix), NEW records, Len(records) \in Nat, NEW i \in 1..Len(records),
           records[i].id \notin DOMAIN ix.at
    PROVE  \A n \in i..Len(records) :
              AtLeast(KeyStages(ix, records)[i - 1].next, 1) < KeyStages(ix, records)[n].next
<1> DEFINE L == Len(records)
           stage == KeyStages(ix, records)
           key == AtLeast(stage[i - 1].next, 1)
           G == {d \in Nat : i + d <= L => key < stage[i + d].next}
<1>1. \A n \in 1..L :
         stage[n] = IF records[n].id \in DOMAIN ix.at THEN stage[n - 1] ELSE Spent(stage[n - 1])
    BY KeyStagesAre
<1>2. \A n \in 0..L : DOMAIN stage[n] = IndexFields /\ stage[n].next \in Nat
    BY KeyStagesHold DEF Later, SameButNext
<1> HIDE DEF stage
<1>3. ASSUME NEW now, DOMAIN now = IndexFields, now.next \in Nat
      PROVE  Spent(now).next = AtLeast(now.next, 1) + 1
    BY <1>3 DEF Spent, IndexFields
<1>4. 0 \in G
    <2>1. i - 1 \in 0..L /\ i \in 1..L /\ i + 0 = i
        OBVIOUS
    <2>2. stage[i] = Spent(stage[i - 1])
        BY <1>1, <2>1
    <2>3. stage[i].next = key + 1
        BY <1>2, <1>3, <2>1, <2>2
    <2>4. key \in Nat
        BY <1>2, <2>1 DEF AtLeast
    <2> HIDE DEF key
    <2> QED BY <2>1, <2>3, <2>4
<1>5. ASSUME NEW d \in Nat, d \in G PROVE d + 1 \in G
    <2> SUFFICES ASSUME i + (d + 1) <= L PROVE key < stage[i + (d + 1)].next
        OBVIOUS
    <2>1. i + d <= L /\ i + (d + 1) \in 1..L /\ (i + (d + 1)) - 1 = i + d /\ i + d \in 0..L /\ i - 1 \in 0..L
        OBVIOUS
    <2>2. key < stage[i + d].next /\ stage[i + d].next \in Nat /\ key \in Nat
        BY <1>2, <1>5, <2>1 DEF AtLeast
    <2>3. \/ stage[i + (d + 1)] = stage[i + d]
          \/ stage[i + (d + 1)].next = AtLeast(stage[i + d].next, 1) + 1
        BY <1>1, <1>2, <1>3, <2>1
    <2>4. stage[i + d].next <= AtLeast(stage[i + d].next, 1) /\ AtLeast(stage[i + d].next, 1) \in Nat
        BY <2>2 DEF AtLeast
    <2> HIDE DEF key
    <2>5. CASE stage[i + (d + 1)] = stage[i + d]
        BY <2>2, <2>5
    <2>6. CASE stage[i + (d + 1)].next = AtLeast(stage[i + d].next, 1) + 1
        BY <2>2, <2>4, <2>6
    <2> QED BY <2>3, <2>5, <2>6
<1> HIDE DEF G
<1>6. \A d \in Nat : d \in G
    BY <1>4, <1>5, EveryNatural
<1> SUFFICES ASSUME NEW n \in i..L PROVE key < stage[n].next
    BY DEF stage
<1>7. n - i \in Nat /\ i + (n - i) = n /\ n <= L
    OBVIOUS
<1>8. n - i \in G
    BY <1>6, <1>7
<1> QED BY <1>7, <1>8 DEF G

\* A known id keeps its key, and a new one gets a key of its own.
LEMMA KeyedContent ==
    ASSUME NEW ix, Good(ix), NEW records, Batch(records)
    PROVE  LET keyed == Keyed(ix, records)
               c == ContentOf(ix)
           IN  /\ DOMAIN keyed = DOMAIN records
               /\ keyed = [i \in DOMAIN records |-> [records[i] EXCEPT !.key = keyed[i].key]]
               /\ \A i \in DOMAIN records :
                     IF records[i].id \in DOMAIN ix.at
                     THEN keyed[i].key \in DOMAIN c /\ c[keyed[i].key].id = records[i].id
                     ELSE keyed[i].key \notin DOMAIN c
               /\ \A i, j \in DOMAIN records : keyed[i].key = keyed[j].key => records[i].id = records[j].id
<1> DEFINE L == Len(records)
           keyed == Keyed(ix, records)
           c == ContentOf(ix)
           stage == KeyStages(ix, records)
           P == DOMAIN ix.entries
           Known(i) == records[i].id \in DOMAIN ix.at
<1>1. L \in Nat /\ DOMAIN records = 1..L /\ \A i \in 1..L : records[i] \in AnyRecord
    BY DEF Batch
<1>2. Sound(ix) /\ ix.next \in Nat
    BY DEF Good, Sound, IndexShape
<1>3. \A n \in 0..L : Later(stage[n], ix)
    BY <1>1, <1>2, KeyStagesHold
<1>4. \A n \in 0..L : /\ stage[n].at = ix.at /\ stage[n].entries = ix.entries
                      /\ ix.next <= stage[n].next /\ stage[n].next \in Nat
    BY <1>3 DEF Later, SameButNext
<1>5. /\ DOMAIN keyed = 1..L
      /\ \A i \in 1..L : keyed[i] = [records[i] EXCEPT !.key = KeyFor(stage[i - 1], records[i].id)]
      /\ keyed = [i \in 1..L |-> keyed[i]]
    BY <1>1 DEF Keyed
<1> HIDE DEF keyed
<1>6. \A i \in 1..L : keyed[i].key = KeyFor(stage[i - 1], records[i].id)
                      /\ keyed[i] = [records[i] EXCEPT !.key = keyed[i].key]
    BY <1>1, <1>5 DEF AnyRecord
<1>7. \A i \in 1..L : i - 1 \in 0..L
    BY <1>1
<1> HIDE DEF stage, c
<1>8. \A i \in 1..L : Known(i) => keyed[i].key = ix.entries[ix.at[records[i].id]].key
    BY <1>4, <1>6, <1>7 DEF KeyFor
<1>9. \A i \in 1..L : ~Known(i) => keyed[i].key = AtLeast(stage[i - 1].next, 1)
    BY <1>4, <1>6, <1>7 DEF KeyFor
<1>10. /\ DOMAIN c = {ix.entries[p].key : p \in P}
       /\ \A p \in P : c[ix.entries[p].key] = Item(ix.entries[p])
    BY ContentFacts DEF Good, Sound, c
<1>11. \A id \in DOMAIN ix.at : ix.at[id] \in P /\ ix.entries[ix.at[id]].id = id
    BY <1>2 DEF Sound, IdsFit
<1>12. \A p \in P : ix.entries[p].key < ix.next /\ ix.entries[p].key \in Nat
    <2>1. ix.entries \in Seq(IndexEntry)
        BY <1>2 DEF Sound, IndexShape
    <2>2. \A p \in P : ix.entries[p] \in IndexEntry
        BY <2>1
    <2> QED BY <1>2, <2>2 DEF Sound, VectorsFit, IndexEntry
<1>13. ASSUME NEW i \in 1..L, Known(i)
       PROVE  keyed[i].key \in DOMAIN c /\ c[keyed[i].key].id = records[i].id
    <2>1. PICK p \in P : p = ix.at[records[i].id] /\ ix.entries[p].id = records[i].id
        BY <1>11, <1>13
    <2>2. keyed[i].key = ix.entries[p].key
        BY <1>8, <1>13, <2>1
    <2>3. c[keyed[i].key] = Item(ix.entries[p])
        BY <1>10, <2>2
    <2>4. Item(ix.entries[p]).id = ix.entries[p].id
        BY DEF Item
    <2>5. keyed[i].key \in DOMAIN c
        BY <1>10, <2>2
    <2> QED BY <2>1, <2>3, <2>4, <2>5
<1>14. ASSUME NEW i \in 1..L, ~Known(i)
       PROVE  keyed[i].key \in Nat /\ ix.next <= keyed[i].key /\ keyed[i].key \notin DOMAIN c
    <2>1. keyed[i].key \in Nat /\ ix.next <= keyed[i].key
        BY <1>2, <1>4, <1>7, <1>9, <1>14 DEF AtLeast
    <2> QED BY <1>2, <1>10, <1>12, <2>1
<1>15. ASSUME NEW i \in 1..L, NEW j \in 1..L, ~Known(i), ~Known(j), i < j
       PROVE  keyed[i].key < keyed[j].key
    <2>1. j - 1 \in i..L /\ j - 1 \in 0..L
        BY <1>1, <1>15
    <2>2. AtLeast(stage[i - 1].next, 1) < stage[j - 1].next
        BY <1>1, <1>2, <1>15, <2>1, KeysGrow DEF stage
    <2>3. keyed[i].key < stage[j - 1].next /\ keyed[j].key = AtLeast(stage[j - 1].next, 1)
        BY <1>9, <1>15, <2>2
    <2>4. stage[j - 1].next \in Nat /\ keyed[i].key \in Nat
        BY <1>4, <1>14, <1>15, <2>1
    <2> QED BY <2>3, <2>4 DEF AtLeast
<1> HIDE DEF Known
<1>16. ASSUME NEW i \in 1..L, NEW j \in 1..L, keyed[i].key = keyed[j].key
       PROVE  records[i].id = records[j].id
    <2>1. CASE Known(i) /\ Known(j)
        BY <1>13, <1>16, <2>1
    <2>2. CASE Known(i) /\ ~Known(j)
        BY <1>13, <1>14, <1>16, <2>2
    <2>3. CASE ~Known(i) /\ Known(j)
        BY <1>13, <1>14, <1>16, <2>3
    <2>4. CASE ~Known(i) /\ ~Known(j)
        <3>1. keyed[i].key \in Nat /\ keyed[j].key \in Nat
            BY <1>14, <2>4
        <3>2. ~(i < j) /\ ~(j < i)
            BY <1>15, <1>16, <2>4, <3>1
        <3>3. i = j
            BY <3>2
        <3> QED BY <3>3
    <2> QED BY <2>1, <2>2, <2>3, <2>4
<1>17. keyed = [i \in 1..L |-> [records[i] EXCEPT !.key = keyed[i].key]]
    BY <1>5, <1>6
<1> QED BY <1>1, <1>5, <1>13, <1>14, <1>16, <1>17 DEF keyed, c, Known

LEMMA PutIdsContent ==
    ASSUME NEW ix, Good(ix), NEW records, Batch(records), NEW crowds \in BOOLEAN,
           NEW m, Stands(m, ix, crowds)
    PROVE  Stands(IndexMap!PutAll(m, Keyed(ix, records)), PutIds(ix, records),
                  crowds \/ CrowdedBy(Drained(ix, records), Keyed(ix, records)))
<1>1. Batch(Keyed(ix, records)) /\ Good(Drained(ix, records))
    BY KeyedFacts
<1>2. Later(Drained(ix, records), ix)
    <2>1. Len(records) \in Nat
        BY DEF Batch
    <2> QED BY <2>1, KeyStagesHold DEF Good, Drained
<1>3. Stands(m, Drained(ix, records), crowds)
    BY <1>2, LaterContent DEF Stands
<1> QED BY <1>1, <1>3, PutContent DEF PutIds


-----------------------------------------------------------------------------
(* Removal, a reset, and a segment file.                                   *)

Lacking(c, k) == [l \in DOMAIN c \ {k} |-> c[l]]

LEMMA OneLess ==
    ASSUME NEW ix, KeysFit(ix), NEW p \in DOMAIN ix.entries, NEW last \in DOMAIN ix.entries,
           NEW new, KeysFit(new), DOMAIN new.entries = DOMAIN ix.entries \ {last},
           \A q \in DOMAIN new.entries :
              new.entries[q] = IF q = p THEN ix.entries[last] ELSE ix.entries[q]
    PROVE  ContentOf(new) = Lacking(ContentOf(ix), ix.entries[p].key)
<1> DEFINE P == DOMAIN ix.entries
           key == ix.entries[p].key
           c == ContentOf(ix)
           less == Lacking(c, key)
           S == DOMAIN c \ {key}
<1>1. /\ DOMAIN c = {ix.entries[q].key : q \in P}
      /\ \A q \in P : c[ix.entries[q].key] = Item(ix.entries[q])
      /\ \A q, o \in P : ix.entries[q].key = ix.entries[o].key => q = o
    BY ContentFacts DEF KeysFit
<1> HIDE DEF c
<1>2. DOMAIN less = S /\ \A l \in S : less[l] = c[l]
    BY DEF Lacking
<1>3. MapOn(less, S)
    BY DEF Lacking, MapOn
<1> HIDE DEF less
<1>4. ASSUME NEW q \in DOMAIN new.entries
      PROVE  new.entries[q].key \in S /\ less[new.entries[q].key] = Item(new.entries[q])
    <2>1. PICK o \in P : o # p /\ new.entries[q] = ix.entries[o]
        <3>1. CASE q = p
            BY <3>1
        <3>2. CASE q # p
            BY <3>2
        <3> QED BY <3>1, <3>2
    <2>2. ix.entries[o].key \in S
        BY <1>1, <2>1
    <2> QED BY <1>1, <1>2, <2>1, <2>2
<1>5. ASSUME NEW k \in S PROVE \E q \in DOMAIN new.entries : k = new.entries[q].key
    <2>1. PICK o \in P : k = ix.entries[o].key /\ o # p
        BY <1>1
    <2>2. CASE o # last
        BY <2>1, <2>2
    <2>3. CASE o = last
        BY <2>1, <2>3
    <2> QED BY <2>2, <2>3
<1>6. S = {new.entries[q].key : q \in DOMAIN new.entries}
    BY <1>4, <1>5
<1> HIDE DEF S
<1>7. \A q \in DOMAIN new.entries : less[new.entries[q].key] = Item(new.entries[q])
    BY <1>4
<1>8. less = ContentOf(new)
    BY <1>3, <1>6, <1>7, ContentIs
<1> QED BY <1>8 DEF less, c

LEMMA RemovedContent ==
    ASSUME NEW ix, Good(ix), NEW id
    PROVE  \/ \E k \in DOMAIN ContentOf(ix) : /\ ContentOf(ix)[k].id = id
                                              /\ ContentOf(Removed(ix, id)) = Lacking(ContentOf(ix), k)
           \/ id \notin DOMAIN ix.at /\ ContentOf(Removed(ix, id)) = ContentOf(ix)
<1> DEFINE p == ix.at[id]
           c == ContentOf(ix)
           new == Removed(ix, id)
           last == Len(ix.entries)
<1>1. CASE id \notin DOMAIN ix.at
    <2>1. new = ix
        BY <1>1 DEF Removed
    <2> QED BY <1>1, <2>1
<1>2. CASE id \in DOMAIN ix.at
    <2>1. p \in DOMAIN ix.entries /\ ix.entries[p].id = id /\ new = Without(ix, p)
        BY <1>2 DEF Removed, Good, Sound, IdsFit
    <2>2. KeysFit(ix) /\ KeysFit(new) /\ Sound(ix)
        BY RemovedGood DEF Good, Sound
    <2>3. ix.entries \in Seq(IndexEntry)
        BY DEF Good, Sound, IndexShape
    <2> HIDE DEF p, new
    <2>4. /\ DOMAIN new.entries = DOMAIN ix.entries \ {last}
          /\ last \in DOMAIN ix.entries
          /\ \A q \in DOMAIN new.entries :
                new.entries[q] = IF q = p THEN ix.entries[last] ELSE ix.entries[q]
        <3>1. CASE last = 1
            <4>1. new = Emptied(ix)
                BY <2>1, <3>1 DEF Without, Size
            <4>2. new.entries = << >>
                BY <4>1 DEF Emptied, EmptyIndex
            <4>3. DOMAIN ix.entries = {1} /\ DOMAIN << >> = {}
                BY <2>3, <3>1
            <4> QED BY <3>1, <4>2, <4>3
        <3>2. CASE last # 1
            <4>1. PICK cut : Swapped(cut, ix, p) /\ Without(ix, p) = Touched(cut)
                BY <2>1, <2>2, <3>2, WithoutIs
            <4>2. cut.entries = SwapRemoved(ix.entries, p) /\ DOMAIN cut = IndexFields
                BY <4>1 DEF Swapped
            <4>3. new.entries = SwapRemoved(ix.entries, p)
                BY <2>1, <4>1, <4>2, TouchedAlike
            <4>4. DOMAIN SwapRemoved(ix.entries, p) = DOMAIN ix.entries \ {last} /\ last \in DOMAIN ix.entries
                BY <2>1, <2>3, SwapRemovedFacts
            <4>5. \A q \in DOMAIN SwapRemoved(ix.entries, p) :
                     q = p => SwapRemoved(ix.entries, p)[q] = ix.entries[last]
                BY <2>1, <2>3, SwapRemovedFacts
            <4>6. \A q \in DOMAIN SwapRemoved(ix.entries, p) :
                     q # p => SwapRemoved(ix.entries, p)[q] = ix.entries[q]
                BY <2>1, <2>3, SwapRemovedFacts
            <4> QED BY <4>3, <4>4, <4>5, <4>6
        <3> QED BY <3>1, <3>2
    <2> HIDE DEF last
    <2>5. ContentOf(new) = Lacking(c, ix.entries[p].key)
        BY <2>1, <2>2, <2>4, OneLess
    <2>6. ix.entries[p].key \in DOMAIN c /\ c[ix.entries[p].key] = Item(ix.entries[p])
        BY <2>1, <2>2, ContentFacts
    <2>7. Item(ix.entries[p]).id = ix.entries[p].id
        BY DEF Item
    <2> QED BY <2>1, <2>5, <2>6, <2>7 DEF new
<1> QED BY <1>1, <1>2

\* An id that no entry is found by is in no entry, while no id has had two keys.
LEMMA NoHolder ==
    ASSUME NEW ix, Good(ix), Complete(ix), NEW id, id \notin DOMAIN ix.at
    PROVE  \A k \in DOMAIN ContentOf(ix) : ContentOf(ix)[k].id # id
<1> TAKE k \in DOMAIN ContentOf(ix)
<1>0. KeysFit(ix)
    BY DEF Good, Sound
<1>a. DOMAIN ContentOf(ix) = {ix.entries[p].key : p \in DOMAIN ix.entries}
    BY <1>0, ContentFacts
<1>b. \A p \in DOMAIN ix.entries : ContentOf(ix)[ix.entries[p].key] = Item(ix.entries[p])
    BY <1>0, ContentFacts
<1>1. PICK p \in DOMAIN ix.entries : k = ix.entries[p].key /\ ContentOf(ix)[k] = Item(ix.entries[p])
    BY <1>a, <1>b
<1>2. ix.entries[p].id # id
    BY DEF Complete
<1>3. Item(ix.entries[p]).id = ix.entries[p].id
    BY DEF Item
<1> QED BY <1>1, <1>2, <1>3

LEMMA BlankContent ==
    ASSUME NEW new, new.byKey = << >>
    PROVE  ContentOf(new) = << >>
<1>1. ContentOf(new) = [k \in {} |-> Item(new.entries[new.byKey[k]])]
    BY DEF ContentOf
<1>2. [k \in {} |-> Item(new.entries[new.byKey[k]])] = << >>
    OBVIOUS
<1> QED BY <1>1, <1>2

LEMMA ResetContent ==
    ASSUME NEW ix
    PROVE  Stands(IndexMap!Empty, Reset(ix), FALSE)
<1>1. Reset(ix).byKey = << >>
    BY DEF Reset, EmptyIndex
<1>2. ContentOf(Reset(ix)) = << >>
    BY <1>1, BlankContent
<1> QED BY <1>2 DEF Stands, IndexMap!Empty

\* Vectors as they are kept, of a dimension that planes exist for.
IsKept(v) == Unit(v) = v /\ Planes[Len(v)] \in Seq(Seq(Seq(Int)))
AllKept(c) == \A k \in DOMAIN c : IsKept(c[k].emb)
Keepable(records) ==
    \A i \in DOMAIN records : records[i].emb # << >> => Planes[Len(records[i].emb)] \in Seq(Seq(Seq(Int)))

LEMMA UnitIsKept ==
    ASSUME NEW v \in Seq(Int), Planes[Len(v)] \in Seq(Seq(Seq(Int)))
    PROVE  IsKept(Unit(v))
<1>1. Unit(v) \in Seq(Int) /\ Len(Unit(v)) = Len(v) /\ DOMAIN Unit(v) = DOMAIN v
    BY UnitFacts DEF Unit
<1>2. \A i \in DOMAIN v : Sign(Sign(v[i])) = Sign(v[i])
    BY DEF Sign
<1>3. Unit(v) = [i \in DOMAIN v |-> Sign(v[i])]
    BY DEF Unit
<1>4. Unit(Unit(v)) = [i \in DOMAIN v |-> Sign(Unit(v)[i])]
    BY <1>1 DEF Unit
<1>5. \A i \in DOMAIN v : Unit(v)[i] = Sign(v[i])
    BY <1>3
<1>6. Unit(Unit(v)) = Unit(v)
    BY <1>2, <1>3, <1>4, <1>5
<1> QED BY <1>1, <1>6 DEF IsKept

LEMMA PutAllKept ==
    ASSUME NEW m, AllKept(m.content), NEW records, Batch(records), Keepable(records)
    PROVE  AllKept(IndexMap!PutAll(m, records).content)
<1> DEFINE L == Len(records)
           Taken == \A i \in DOMAIN records : IndexMap!Fits(m.content, records[i].emb)
           maps == IndexMap!PutStages(m, records)
           G == {n \in Nat : n <= L => AllKept(maps[n].content)}
<1>1. L \in Nat /\ DOMAIN records = 1..L /\ \A i \in 1..L : records[i].emb \in Seq(Int)
    <2>1. records \in Seq(AnyRecord)
        BY DEF Batch
    <2>2. \A i \in 1..L : records[i] \in AnyRecord
        BY <2>1
    <2> QED BY <2>1, <2>2 DEF AnyRecord
<1>2. IndexMap!PutAll(m, records) = IF Taken THEN maps[L] ELSE m
    BY DEF IndexMap!PutAll
<1>3. CASE ~Taken
    BY <1>2, <1>3
<1>4. CASE Taken
    <2>1. maps[0] = m /\ \A n \in 1..L : maps[n] = PutOneOf(maps[n - 1], records[n])
        BY <1>1, MapStagesAre
    <2> HIDE DEF maps
    <2>2. 0 \in G
        BY <2>1
    <2>3. ASSUME NEW n \in Nat, n \in G PROVE n + 1 \in G
        <3> SUFFICES ASSUME n + 1 <= L PROVE AllKept(maps[n + 1].content)
            OBVIOUS
        <3>1. n <= L /\ n + 1 \in 1..L /\ (n + 1) - 1 = n
            BY <1>1
        <3> DEFINE r == records[n + 1]
                   c == PutOneOf(maps[n], r).content
        <3>2. AllKept(maps[n].content) /\ maps[n + 1].content = c
            BY <2>1, <2>3, <3>1
        <3>3. r.emb # << >>
            BY <1>1, <1>4, <3>1 DEF IndexMap!Fits
        <3>4. IsKept(Unit(r.emb))
            BY <1>1, <3>1, <3>3, UnitIsKept DEF Keepable
        <3>5. Item(EntryOf(r)).emb = Unit(r.emb)
            BY DEF Item, EntryOf
        <3> HIDE DEF r
        <3>6. /\ c = [k \in DOMAIN maps[n].content \cup {r.key} |-> c[k]]
              /\ \A k \in DOMAIN maps[n].content \cup {r.key} :
                    c[k] = IF k = r.key THEN Item(EntryOf(r)) ELSE maps[n].content[k]
            <4>1. c = EntryAdded(maps[n].content, r)
                BY PutOneIs
            <4> HIDE DEF c
            <4> QED BY <4>1 DEF EntryAdded
        <3> HIDE DEF c
        <3>7. DOMAIN c = DOMAIN maps[n].content \cup {r.key}
            BY <3>6
        <3>8. AllKept(c)
            BY <3>2, <3>4, <3>5, <3>6, <3>7 DEF AllKept
        <3> QED BY <3>2, <3>8
    <2> HIDE DEF G
    <2>4. \A n \in Nat : n \in G
        BY <2>2, <2>3, EveryNatural
    <2> QED BY <1>1, <1>2, <1>4, <2>4 DEF G
<1> QED BY <1>3, <1>4

\* Reading back what was written gives the same map.
LEMMA MappedContent ==
    ASSUME NEW ix, Good(ix), AllKept(ContentOf(ix))
    PROVE  ContentOf(MappedFile(Exported(ix))) = ContentOf(ix)
<1> DEFINE P == DOMAIN ix.entries
           c == ContentOf(ix)
           new == MappedFile(Exported(ix))
           S == {ix.entries[p].key : p \in P}
<1>1. DOMAIN c = S /\ \A p \in P : c[ix.entries[p].key] = Item(ix.entries[p])
    BY ContentFacts DEF Good, Sound
<1>2. KeysFit(new)
    BY MappedFileGood DEF Good, Sound
<1>3. new.entries = [p \in P |-> EntryOf(ix.entries[p])]
    BY DEF MappedFile, EmptyIndex, Exported
<1>4. MapOn(c, S)
    BY <1>1 DEF ContentOf, MapOn
<1> HIDE DEF new, c
<1>5. ASSUME NEW p \in P
      PROVE  new.entries[p].key = ix.entries[p].key /\ Item(new.entries[p]) = Item(ix.entries[p])
    <2>1. new.entries[p] = EntryOf(ix.entries[p])
        BY <1>3
    <2>2. /\ EntryOf(ix.entries[p]).key = ix.entries[p].key
          /\ EntryOf(ix.entries[p]).id = ix.entries[p].id
          /\ EntryOf(ix.entries[p]).emb = Unit(ix.entries[p].emb)
        BY DEF EntryOf
    <2>3. ix.entries[p].key \in DOMAIN c /\ Item(ix.entries[p]).emb = ix.entries[p].emb
        BY <1>1 DEF Item
    <2>4. Unit(ix.entries[p].emb) = ix.entries[p].emb
        BY <1>1, <2>3 DEF AllKept, IsKept, c
    <2> QED BY <2>1, <2>2, <2>4 DEF Item
<1>6. DOMAIN new.entries = P
    BY <1>3
<1>7. S = {new.entries[p].key : p \in DOMAIN new.entries}
    BY <1>5, <1>6
<1>8. \A p \in DOMAIN new.entries : c[new.entries[p].key] = Item(new.entries[p])
    BY <1>1, <1>5, <1>6
<1> HIDE DEF S
<1>9. c = ContentOf(new)
    BY <1>2, <1>4, <1>7, <1>8, ContentIs
<1> QED BY <1>9 DEF c, new

-----------------------------------------------------------------------------
(* What a query answers.                                                   *)

Hit == [id : Nat, score : Int]

LEMMA DotCommutes ==
    ASSUME NEW v \in Seq(Int), NEW w \in Seq(Int)
    PROVE  Dot(v, w) = Dot(w, v)
<1> DEFINE n == AtMost(Len(v), Len(w))
           sum == PartialSums(v, w)
           mus == PartialSums(w, v)
<1>1. n \in Nat /\ n <= Len(v) /\ n <= Len(w) /\ AtMost(Len(w), Len(v)) = n
    BY DEF AtMost
<1>2. sum[0] = 0 /\ \A i \in 1..n : sum[i] = sum[i - 1] + v[i] * w[i]
    BY <1>1, PartialSumsAre
<1>3. mus[0] = 0 /\ \A i \in 1..n : mus[i] = mus[i - 1] + w[i] * v[i]
    BY <1>1, PartialSumsAre
<1>4. \A a, b \in Int : a * b = b * a
    OBVIOUS
<1>5. \A i \in 1..n : v[i] * w[i] = w[i] * v[i]
    <2> TAKE i \in 1..n
    <2>1. v[i] \in Int /\ w[i] \in Int
        BY <1>1
    <2> QED BY <1>4, <2>1
<1> HIDE DEF n, sum, mus
<1> DEFINE G == {m \in Nat : m <= n => sum[m] = mus[m]}
<1>6. 0 \in G
    BY <1>2, <1>3
<1>7. ASSUME NEW m \in Nat, m \in G PROVE m + 1 \in G
    <2> SUFFICES ASSUME m + 1 <= n PROVE sum[m + 1] = mus[m + 1]
        OBVIOUS
    <2>1. m + 1 \in 1..n /\ (m + 1) - 1 = m /\ m <= n
        BY <1>1
    <2>2. sum[m + 1] = sum[m] + v[m + 1] * w[m + 1] /\ mus[m + 1] = mus[m] + w[m + 1] * v[m + 1]
        BY <1>2, <1>3, <2>1
    <2>3. v[m + 1] * w[m + 1] = w[m + 1] * v[m + 1] /\ sum[m] = mus[m]
        BY <1>5, <1>7, <2>1
    <2> QED BY <2>2, <2>3
<1>8. \A m \in Nat : m \in G
    <2> HIDE DEF G
    <2> QED BY <1>6, <1>7, EveryNatural
<1>9. sum[n] = mus[n]
    BY <1>1, <1>8
<1>10. Dot(v, w) = sum[n] /\ Dot(w, v) = mus[n]
    BY <1>1 DEF Dot, sum, mus, n
<1> QED BY <1>9, <1>10

LEMMA HitOrderOrders ==
    ASSUME NEW positions \in SUBSET Nat, NEW hit, \A p \in positions : hit[p] \in Hit
    PROVE  /\ Orders(HitOrder(hit, positions), positions)
           /\ \A p, o \in positions : <<p, o>> \in HitOrder(hit, positions) => ~Better(hit[o], hit[p])
<1> DEFINE order == HitOrder(hit, positions)
           Leads(p, o) == Better(hit[p], hit[o]) \/ (hit[p] = hit[o] /\ p < o)
<1>1. \A p, o \in positions : <<p, o>> \in order <=> Leads(p, o)
    BY DEF HitOrder
<1>2. \A x, y, z \in Hit : Better(x, y) /\ Better(y, z) => Better(x, z)
    BY DEF Hit, Better
<1>3. \A x, y \in Hit : /\ ~Better(x, x) /\ (Better(x, y) => ~Better(y, x))
                        /\ x # y => Better(x, y) \/ Better(y, x)
    BY DEF Hit, Better
<1>4. \A p, o, r \in positions : /\ p < o /\ o < r => p < r
                                 /\ ~(p < p) /\ (p # o => p < o \/ o < p)
    OBVIOUS
<1> HIDE DEF order
<1>5. ASSUME NEW p \in positions PROVE ~Leads(p, p)
    BY <1>3, <1>4
<1>6. ASSUME NEW p \in positions, NEW o \in positions, p # o PROVE Leads(p, o) \/ Leads(o, p)
    <2>1. hit[p] \in Hit /\ hit[o] \in Hit /\ (p < o \/ o < p)
        BY <1>4, <1>6
    <2> QED BY <1>3, <2>1, Zenon
<1>7. ASSUME NEW p \in positions, NEW o \in positions, NEW r \in positions, Leads(p, o), Leads(o, r)
      PROVE  Leads(p, r)
    <2>1. hit[p] \in Hit /\ hit[o] \in Hit /\ hit[r] \in Hit
        OBVIOUS
    <2>2. CASE Better(hit[p], hit[o]) /\ Better(hit[o], hit[r])
        BY <1>2, <2>1, <2>2
    <2>3. CASE Better(hit[p], hit[o]) /\ hit[o] = hit[r]
        BY <2>3
    <2>4. CASE hit[p] = hit[o] /\ Better(hit[o], hit[r])
        BY <2>4
    <2>5. CASE hit[p] = hit[o] /\ p < o /\ hit[o] = hit[r] /\ o < r
        BY <1>4, <2>5
    <2> QED BY <1>7, <2>2, <2>3, <2>4, <2>5
<1>8. ASSUME NEW p \in positions, NEW o \in positions, Leads(p, o) PROVE ~Better(hit[o], hit[p])
    BY <1>3, <1>8
<1> HIDE DEF Leads
<1>9. Orders(order, positions)
    BY <1>1, <1>5, <1>6, <1>7 DEF Orders
<1> QED BY <1>1, <1>8, <1>9 DEF order

\* The best of some positions, and what the answer is made of.
HitsOf(ix, vectors, q, positions) ==
    [p \in positions |-> [id |-> ix.entries[p].id, score |-> Dot(vectors[p], q)]]
RankedPlaces(ix, vectors, q, positions) ==
    Ordered(positions, HitOrder(HitsOf(ix, vectors, q, positions), positions))

\* The answer lists the best of the positions, and the places after it hold no better one.
BestListed(ix, vectors, q, n, positions) ==
    LET N == Cardinality(positions)
        M == AtMost(n, N)
        hits == Best(ix, vectors, q, n, positions)
        s == RankedPlaces(ix, vectors, q, positions)
        hit == HitsOf(ix, vectors, q, positions)
    IN  /\ N \in Nat /\ M \in Nat /\ M <= n /\ M <= N /\ (M = n \/ M = N)
        /\ Len(hits) = M /\ \A i \in 1..M : hits[i] = hit[s[i]]
        /\ \A i \in 1..N : s[i] \in positions
        /\ \A i, j \in 1..N : i < j => s[i] # s[j] /\ ~Better(hit[s[j]], hit[s[i]])
        /\ \A p \in positions : \E i \in 1..N : s[i] = p

LEMMA BestFacts ==
    ASSUME NEW ix, Good(ix), NEW positions \in SUBSET DOMAIN ix.entries, NEW q \in Seq(Int), NEW n \in Nat,
           NEW vectors, \A p \in positions : vectors[p] = ix.entries[p].emb
    PROVE  BestListed(ix, vectors, q, n, positions)
<1> DEFINE N == Cardinality(positions)
           M == AtMost(n, N)
           hits == Best(ix, vectors, q, n, positions)
           s == RankedPlaces(ix, vectors, q, positions)
           hit == HitsOf(ix, vectors, q, positions)
           order == HitOrder(hit, positions)
<1>1. /\ ix.entries \in Seq(IndexEntry) /\ DOMAIN ix.entries = 1..Len(ix.entries)
      /\ \A p \in DOMAIN ix.entries : ix.entries[p] \in IndexEntry
    <2>1. ix.entries \in Seq(IndexEntry)
        BY DEF Good, Sound, IndexShape
    <2> QED BY <2>1
<1>2. positions \in SUBSET Nat /\ IsFiniteSet(positions)
    <2>1. Len(ix.entries) \in Nat
        BY <1>1
    <2>2. IsFiniteSet(1..Len(ix.entries))
        BY <2>1, FS_Interval
    <2> QED BY <1>1, <2>1, <2>2, FS_Subset
<1>3. \A p \in positions : hit[p] \in Hit
    <2> TAKE p \in positions
    <2>1. ix.entries[p].id \in Nat /\ ix.entries[p].emb \in Seq(Int)
        BY <1>1, IndexAssumption DEF IndexEntry
    <2>2. Dot(vectors[p], q) \in Int
        BY <2>1, DotIsInteger
    <2> QED BY <2>1, <2>2 DEF HitsOf, Hit
<1>4. /\ Orders(order, positions)
      /\ \A p, o \in positions : <<p, o>> \in order => ~Better(hit[o], hit[p])
    <2> HIDE DEF hit
    <2> QED BY <1>2, <1>3, HitOrderOrders
<1>5. s = Ordered(positions, order)
    BY DEF RankedPlaces
<1> HIDE DEF order
<1>6. /\ s \in Seq(positions) /\ N \in Nat /\ Len(s) = N /\ DOMAIN s = 1..N
      /\ \A i, j \in 1..N : i < j => <<s[i], s[j]>> \in order
      /\ \A p \in positions : \E i \in 1..N : s[i] = p
    BY <1>2, <1>4, <1>5, OrderedFacts
<1>7. hits = [i \in 1..AtMost(n, Len(s)) |-> hit[s[i]]]
    BY DEF Best, RankedPlaces, HitsOf
<1> HIDE DEF hits, s, hit, N
<1>8. M \in Nat /\ M <= n /\ M <= N /\ (M = n \/ M = N)
    BY <1>6 DEF AtMost
<1>9. hits = [i \in 1..M |-> hit[s[i]]]
    BY <1>6, <1>7
<1> HIDE DEF M
<1>10. Len(hits) = M /\ \A i \in 1..M : hits[i] = hit[s[i]]
    BY <1>8, <1>9
<1>11. \A i \in 1..N : s[i] \in positions
    BY <1>6
<1>12. ASSUME NEW i \in 1..N, NEW j \in 1..N, i < j
       PROVE  s[i] # s[j] /\ ~Better(hit[s[j]], hit[s[i]])
    <2>1. <<s[i], s[j]>> \in order /\ s[i] \in positions /\ s[j] \in positions
        BY <1>6, <1>11, <1>12
    <2>2. <<s[i], s[i]>> \notin order
        BY <1>4, <2>1 DEF Orders
    <2> QED BY <1>4, <2>1, <2>2
<1> QED BY <1>6, <1>8, <1>10, <1>11, <1>12 DEF BestListed, hits, s, hit, M, N

\* What is promised of an answer that is given from some positions.
LEMMA BestIsPromised ==
    ASSUME Good(index), NEW positions \in SUBSET DOMAIN index.entries, NEW q \in Seq(Int), NEW n \in Nat,
           NEW vectors, \A p \in positions : vectors[p] = index.entries[p].emb,
           NEW keys, \A p \in positions : index.entries[p].key \in keys,
           NEW exact \in BOOLEAN,
           LET All == \A k \in keys : \E p \in positions : k = index.entries[p].key
           IN  /\ exact => All
               /\ exact \/ index.kind = "lsh" => All \/ n <= Cardinality(positions)
    PROVE  IndexMap!Promised(Best(index, vectors, q, n, positions), q, n, keys, exact)
<1> DEFINE N == Cardinality(positions)
           M == AtMost(n, N)
           hits == Best(index, vectors, q, n, positions)
           s == RankedPlaces(index, vectors, q, positions)
           hit == HitsOf(index, vectors, q, positions)
           c == ContentOf(index)
           h == IndexMap!Hits(q, keys)
           Key(p) == index.entries[p].key
           All == \A k \in keys : \E p \in positions : k = Key(p)
           of == [i \in 1..M |-> Key(s[i])]
           left == keys \ {of[i] : i \in 1..Len(hits)}
<1>1. /\ N \in Nat /\ M \in Nat /\ M <= n /\ M <= N /\ (M = n \/ M = N)
      /\ Len(hits) = M /\ \A i \in 1..M : hits[i] = hit[s[i]]
      /\ \A i \in 1..N : s[i] \in positions
      /\ \A i, j \in 1..N : i < j => s[i] # s[j] /\ ~Better(hit[s[j]], hit[s[i]])
      /\ \A p \in positions : \E i \in 1..N : s[i] = p
    <2>1. BestListed(index, vectors, q, n, positions)
        BY BestFacts
    <2> QED BY <2>1 DEF BestListed
<1>2. \A p, o \in DOMAIN index.entries : Key(p) = Key(o) => p = o
    BY DEF Good, Sound, KeysFit
<1>3. ASSUME NEW p \in positions PROVE h[Key(p)] = hit[p] /\ Key(p) \in keys
    <2>1. index.entries[p] \in IndexEntry
        <3>1. index.entries \in Seq(IndexEntry)
            BY DEF Good, Sound, IndexShape
        <3> QED BY <3>1
    <2>2. index.entries[p].emb \in Seq(Int)
        BY <2>1 DEF IndexEntry
    <2>3. Dot(q, index.entries[p].emb) = Dot(index.entries[p].emb, q)
        BY <2>2, DotCommutes
    <2>4. c[Key(p)] = Item(index.entries[p])
        BY ContentFacts DEF Good, Sound
    <2>5. h[Key(p)] = [id |-> c[Key(p)].id, score |-> Dot(q, c[Key(p)].emb)]
        BY DEF IndexMap!Hits, ContentOf, Item
    <2>6. c[Key(p)].id = index.entries[p].id /\ c[Key(p)].emb = index.entries[p].emb
        BY <2>4 DEF Item
    <2>7. hit[p] = [id |-> index.entries[p].id, score |-> Dot(index.entries[p].emb, q)]
        BY DEF HitsOf
    <2> HIDE DEF h, c, hit
    <2>8. h[Key(p)] = hit[p]
        BY <2>3, <2>5, <2>6, <2>7
    <2> QED BY <2>8
<1>4. (exact => All) /\ (exact \/ index.kind = "lsh" => All \/ n <= N)
    OBVIOUS
<1> HIDE DEF hits, s, hit, h, N, M
<1>5. \A i \in 1..M : i \in 1..N
    BY <1>1
<1>6. of \in [1..Len(hits) -> keys] /\ \A i \in 1..M : of[i] = Key(s[i])
    BY <1>1, <1>3, <1>5
<1>7. ASSUME NEW i \in 1..Len(hits), NEW j \in 1..Len(hits), of[i] = of[j] PROVE i = j
    <2>1. i \in 1..M /\ j \in 1..M /\ i \in 1..N /\ j \in 1..N
        BY <1>1, <1>5
    <2>2. s[i] = s[j]
        BY <1>1, <1>2, <1>6, <1>7, <2>1
    <2>3. ~(i < j) /\ ~(j < i)
        BY <1>1, <2>1, <2>2
    <2> QED BY <2>1, <2>3
<1>8. ASSUME NEW i \in 1..Len(hits) PROVE hits[i] = h[of[i]]
    <2>1. i \in 1..M /\ i \in 1..N
        BY <1>1, <1>5
    <2> QED BY <1>1, <1>3, <1>6, <2>1
<1>9. ASSUME NEW i \in 1..(Len(hits) - 1) PROVE ~IndexMap!Better(hits[i + 1], hits[i])
    <2>1. i \in 1..M /\ i + 1 \in 1..M /\ i < i + 1
        BY <1>1
    <2>2. ~Better(hit[s[i + 1]], hit[s[i]])
        BY <1>1, <1>5, <2>1
    <2>3. ~Better(hits[i + 1], hits[i])
        BY <1>1, <2>1, <2>2
    <2> QED BY <2>3 DEF Better, IndexMap!Better
<1>10. ASSUME exact \/ index.kind = "lsh" PROVE Len(hits) = n \/ left = {}
    <2>1. CASE M = n
        BY <1>1, <2>1
    <2>2. CASE M # n
        <3>1. M = N /\ ~(n <= N) /\ All
            BY <1>1, <1>4, <1>10, <2>2
        <3>2. ASSUME NEW k \in keys PROVE \E i \in 1..Len(hits) : of[i] = k
            <4>1. PICK p \in positions : k = Key(p)
                BY <3>1
            <4>2. PICK i \in 1..N : s[i] = p
                BY <1>1
            <4> QED BY <1>1, <1>6, <3>1, <4>1, <4>2
        <3> QED BY <3>2
    <2> QED BY <2>1, <2>2
<1>11. ASSUME exact, NEW i \in 1..Len(hits), NEW l \in left PROVE ~IndexMap!Better(h[l], hits[i])
    <2>1. PICK p \in positions : l = Key(p)
        BY <1>4, <1>11
    <2>2. PICK j \in 1..N : s[j] = p
        BY <1>1
    <2>3. i \in 1..M /\ i \in 1..N
        BY <1>1, <1>5
    <2>4. j \notin 1..M
        <3>1. \A o \in 1..M : of[o] # l
            BY <1>1
        <3> QED BY <1>6, <2>1, <2>2, <3>1
    <2>5. i < j
        BY <1>1, <2>3, <2>4
    <2>6. ~Better(hit[s[j]], hit[s[i]])
        BY <1>1, <2>3, <2>5
    <2>7. hits[i] = hit[s[i]] /\ h[l] = hit[s[j]]
        BY <1>1, <1>3, <2>1, <2>2, <2>3
    <2>8. ~Better(h[l], hits[i])
        BY <2>6, <2>7
    <2> QED BY <2>8 DEF Better, IndexMap!Better
<1>12. IndexMap!Ranked(hits) /\ Len(hits) <= n
    BY <1>1, <1>9 DEF IndexMap!Ranked
<1> HIDE DEF of
<1>13. \E f \in [1..Len(hits) -> keys] :
          LET rest == keys \ {f[i] : i \in 1..Len(hits)}
          IN  /\ \A i, j \in 1..Len(hits) : f[i] = f[j] => i = j
              /\ \A i \in 1..Len(hits) : hits[i] = h[f[i]]
              /\ exact \/ index.kind = "lsh" => Len(hits) = n \/ rest = {}
              /\ exact => \A i \in 1..Len(hits), l \in rest : ~IndexMap!Better(h[l], hits[i])
    BY <1>6, <1>7, <1>8, <1>10, <1>11
<1> QED BY <1>12, <1>13 DEF IndexMap!Promised, h, hits

\* Nothing is a promised answer where nothing is asked for, and where there is nothing.
LEMMA NothingIsPromised ==
    ASSUME NEW q, NEW n \in Nat, NEW keys, NEW exact, n = 0 \/ keys = {}
    PROVE  IndexMap!Promised(<< >>, q, n, keys, exact)
<1> DEFINE none == [i \in 1..0 |-> 0]
           h == IndexMap!Hits(q, keys)
<1>1. Len(<< >>) = 0 /\ 1..0 = {} /\ 1..(0 - 1) = {}
    OBVIOUS
<1>2. none \in [1..Len(<< >>) -> keys]
    BY <1>1
<1>3. IndexMap!Ranked(<< >>) /\ Len(<< >>) <= n
    BY <1>1 DEF IndexMap!Ranked
<1> HIDE DEF none, h
<1>4. n = 0 \/ keys \ {none[i] : i \in 1..Len(<< >>)} = {}
    OBVIOUS
<1>5. \E f \in [1..Len(<< >>) -> keys] :
         LET rest == keys \ {f[i] : i \in 1..Len(<< >>)}
         IN  /\ \A i, j \in 1..Len(<< >>) : f[i] = f[j] => i = j
             /\ \A i \in 1..Len(<< >>) : << >>[i] = h[f[i]]
             /\ exact \/ index.kind = "lsh" => Len(<< >>) = n \/ rest = {}
             /\ exact => \A i \in 1..Len(<< >>), l \in rest : ~IndexMap!Better(h[l], << >>[i])
    BY <1>1, <1>2, <1>4
<1> QED BY <1>3, <1>5 DEF IndexMap!Promised, h

-----------------------------------------------------------------------------
(* The candidates of the LSH tables.                                       *)

\* A list of some places.
ListsPlaces(bucket, P) == Len(bucket) \in Nat /\ \A i \in 1..Len(bucket) : bucket[i] \in P

Collects(found, place, max) == IF Cardinality(found) >= max THEN found ELSE found \cup {place}
CollectPrefix(f, found, bucket, max, l) ==
    f = [n \in 0..l |-> IF n = 0 THEN found ELSE Collects(f[n - 1], bucket[n], max)]

LEMMA CollectedWithin ==
    ASSUME NEW P, NEW found \in SUBSET P, NEW bucket, ListsPlaces(bucket, P), NEW max
    PROVE  Collected(found, bucket, max) \subseteq P
<1> DEFINE L == Len(bucket)
           Is(f, l) == CollectPrefix(f, found, bucket, max, l)
           Step(x, n) == Collects(x, bucket[n], max)
           G == {l \in Nat : \E f : Is(f, l)}
<1>0. L \in Nat /\ \A i \in 1..L : \A x \in SUBSET P : Step(x, i) \subseteq P
    BY DEF ListsPlaces, Collects
<1>1. \A f, l : Is(f, l) <=> f = [n \in 0..l |-> IF n = 0 THEN found ELSE Step(f[n - 1], n)]
    BY DEF CollectPrefix
<1> HIDE DEF Is, Step
<1>2. 0 \in G
    <2> DEFINE f == [n \in 0..0 |-> found]
    <2>1. f = [n \in 0..0 |-> IF n = 0 THEN found ELSE Step(f[n - 1], n)]
        OBVIOUS
    <2> HIDE DEF f
    <2> QED BY <1>1, <2>1
<1>3. ASSUME NEW l \in Nat, l \in G PROVE l + 1 \in G
    <2>1. PICK f : f = [n \in 0..l |-> IF n = 0 THEN found ELSE Step(f[n - 1], n)]
        BY <1>1, <1>3
    <2> DEFINE g == [n \in 0..(l + 1) |-> IF n = 0 THEN found ELSE Step(f[n - 1], n)]
    <2>2. \A n \in 0..l : f[n] = IF n = 0 THEN found ELSE Step(f[n - 1], n)
        BY <2>1
    <2>3. \A n \in 0..(l + 1) : g[n] = IF n = 0 THEN found ELSE Step(f[n - 1], n)
        OBVIOUS
    <2>4. \A n \in 0..l : n \in 0..(l + 1)
        OBVIOUS
    <2>5. \A n \in 0..l : g[n] = f[n]
        BY <2>2, <2>3, <2>4
    <2>6. \A n \in 0..(l + 1) : n # 0 => n - 1 \in 0..l
        OBVIOUS
    <2>7. \A n \in 0..(l + 1) : n # 0 => g[n - 1] = f[n - 1]
        BY <2>5, <2>6
    <2>8. g = [n \in 0..(l + 1) |-> IF n = 0 THEN found ELSE Step(g[n - 1], n)]
        BY <2>3, <2>7
    <2> HIDE DEF g
    <2>9. Is(g, l + 1)
        BY <1>1, <2>8
    <2> QED BY <2>9
<1> HIDE DEF G
<1>4. \E f : Is(f, L)
    <2>1. L \in G
        BY <1>0, <1>2, <1>3, EveryNatural
    <2> QED BY <2>1 DEF G
<1> DEFINE stage == CHOOSE f : Is(f, L)
<1>5. Collected(found, bucket, max) = stage[L]
    BY DEF Collected, Is, CollectPrefix, Collects
<1>6. \A n \in 0..L : stage[n] = IF n = 0 THEN found ELSE Step(stage[n - 1], n)
    BY <1>1, <1>4
<1> HIDE DEF stage
<1> DEFINE H == {n \in Nat : n <= L => stage[n] \subseteq P}
<1>7. 0 \in H
    BY <1>0, <1>6
<1>8. ASSUME NEW n \in Nat, n \in H PROVE n + 1 \in H
    <2> SUFFICES ASSUME n + 1 <= L PROVE stage[n + 1] \subseteq P
        OBVIOUS
    <2>1. n <= L /\ n + 1 \in 1..L /\ n + 1 \in 0..L /\ (n + 1) - 1 = n /\ n + 1 # 0
        BY <1>0
    <2>2. stage[n + 1] = Step(stage[n], n + 1) /\ stage[n] \subseteq P
        BY <1>6, <1>8, <2>1
    <2> QED BY <1>0, <2>1, <2>2
<1>9. L \in H
    <2> HIDE DEF H
    <2> QED BY <1>0, <1>7, <1>8, EveryNatural
<1> QED BY <1>0, <1>5, <1>9

Gathers(found, bucket, enough, max) == 
    IF Cardinality(found) >= enough THEN found ELSE Collected(found, bucket, max)
GatherPrefix(f, found, buckets, enough, max, l) ==
    f = [n \in 0..l |-> IF n = 0 THEN found ELSE Gathers(f[n - 1], buckets[n], enough, max)]

LEMMA GatheredWithin ==
    ASSUME NEW P, NEW found \in SUBSET P, NEW buckets, Len(buckets) \in Nat,
           \A i \in 1..Len(buckets) : ListsPlaces(buckets[i], P), NEW enough, NEW max
    PROVE  Gathered(found, buckets, enough, max) \subseteq P
<1> DEFINE L == Len(buckets)
           Is(f, l) == GatherPrefix(f, found, buckets, enough, max, l)
           Step(x, n) == Gathers(x, buckets[n], enough, max)
           G == {l \in Nat : \E f : Is(f, l)}
<1>0. L \in Nat /\ \A i \in 1..L : \A x \in SUBSET P : Step(x, i) \subseteq P
    <2>1. ASSUME NEW i \in 1..L, NEW x \in SUBSET P PROVE Step(x, i) \subseteq P
        <3>1. Collected(x, buckets[i], max) \subseteq P
            BY CollectedWithin
        <3> QED BY <3>1 DEF Gathers
    <2> QED BY <2>1
<1>1. \A f, l : Is(f, l) <=> f = [n \in 0..l |-> IF n = 0 THEN found ELSE Step(f[n - 1], n)]
    BY DEF GatherPrefix
<1> HIDE DEF Is, Step
<1>2. 0 \in G
    <2> DEFINE f == [n \in 0..0 |-> found]
    <2>1. f = [n \in 0..0 |-> IF n = 0 THEN found ELSE Step(f[n - 1], n)]
        OBVIOUS
    <2> HIDE DEF f
    <2> QED BY <1>1, <2>1
<1>3. ASSUME NEW l \in Nat, l \in G PROVE l + 1 \in G
    <2>1. PICK f : f = [n \in 0..l |-> IF n = 0 THEN found ELSE Step(f[n - 1], n)]
        BY <1>1, <1>3
    <2> DEFINE g == [n \in 0..(l + 1) |-> IF n = 0 THEN found ELSE Step(f[n - 1], n)]
    <2>2. \A n \in 0..l : f[n] = IF n = 0 THEN found ELSE Step(f[n - 1], n)
        BY <2>1
    <2>3. \A n \in 0..(l + 1) : g[n] = IF n = 0 THEN found ELSE Step(f[n - 1], n)
        OBVIOUS
    <2>4. \A n \in 0..l : n \in 0..(l + 1)
        OBVIOUS
    <2>5. \A n \in 0..l : g[n] = f[n]
        BY <2>2, <2>3, <2>4
    <2>6. \A n \in 0..(l + 1) : n # 0 => n - 1 \in 0..l
        OBVIOUS
    <2>7. \A n \in 0..(l + 1) : n # 0 => g[n - 1] = f[n - 1]
        BY <2>5, <2>6
    <2>8. g = [n \in 0..(l + 1) |-> IF n = 0 THEN found ELSE Step(g[n - 1], n)]
        BY <2>3, <2>7
    <2> HIDE DEF g
    <2>9. Is(g, l + 1)
        BY <1>1, <2>8
    <2> QED BY <2>9
<1> HIDE DEF G
<1>4. \E f : Is(f, L)
    <2>1. L \in G
        BY <1>0, <1>2, <1>3, EveryNatural
    <2> QED BY <2>1 DEF G
<1> DEFINE stage == CHOOSE f : Is(f, L)
<1>5. Gathered(found, buckets, enough, max) = stage[L]
    BY DEF Gathered, Is, GatherPrefix, Gathers
<1>6. \A n \in 0..L : stage[n] = IF n = 0 THEN found ELSE Step(stage[n - 1], n)
    BY <1>1, <1>4
<1> HIDE DEF stage
<1> DEFINE H == {n \in Nat : n <= L => stage[n] \subseteq P}
<1>7. 0 \in H
    BY <1>0, <1>6
<1>8. ASSUME NEW n \in Nat, n \in H PROVE n + 1 \in H
    <2> SUFFICES ASSUME n + 1 <= L PROVE stage[n + 1] \subseteq P
        OBVIOUS
    <2>1. n <= L /\ n + 1 \in 1..L /\ n + 1 \in 0..L /\ (n + 1) - 1 = n /\ n + 1 # 0
        BY <1>0
    <2>2. stage[n + 1] = Step(stage[n], n + 1) /\ stage[n] \subseteq P
        BY <1>6, <1>8, <2>1
    <2> QED BY <1>0, <2>1, <2>2
<1>9. L \in H
    <2> HIDE DEF H
    <2> QED BY <1>0, <1>7, <1>8, EveryNatural
<1> QED BY <1>0, <1>5, <1>9

LEMMA MaskFacts ==
    ASSUME NEW ix, NEW planes, planes \in Seq(Seq(Seq(Int))), Planes[ix.dim] = planes,
           DOMAIN ix.tables = DOMAIN planes
    PROVE  LET masks == Masks(ix)
               s == Ordered(masks, MaskOrder(masks))
           IN  /\ Len(s) \in Nat /\ DOMAIN s = 1..Len(s)
               /\ \A i \in 1..Len(s) : /\ s[i].table \in DOMAIN ix.tables
                                       /\ {s[i].first, s[i].second} \subseteq DOMAIN planes[s[i].table]
<1> DEFINE T == DOMAIN planes
           D(t) == DOMAIN planes[t]
           masks == Masks(ix)
           order == MaskOrder(masks)
           Of == [t \in T |-> MasksOf(t, D(t))]
<1>1. Len(planes) \in Nat /\ T = 1..Len(planes) /\ \A t \in T : planes[t] \in Seq(Seq(Int))
    OBVIOUS
<1>2. \A t \in T : Len(planes[t]) \in Nat /\ D(t) = 1..Len(planes[t])
    BY <1>1
<1>3. masks = UNION {Of[t] : t \in T}
    BY DEF Masks
<1> HIDE DEF masks
<1>4. ASSUME NEW t \in T, NEW m \in MasksOf(t, D(t))
      PROVE  \E a, b \in D(t) : m = Mask(t, a, b)
    BY DEF MasksOf
<1>5. \A m \in masks : \E t \in T : \E a, b \in D(t) : m = Mask(t, a, b)
    BY <1>3, <1>4
<1>6. \A t, a, b : /\ Mask(t, a, b).table = t /\ Mask(t, a, b).first = a /\ Mask(t, a, b).second = b
                   /\ Mask(t, a, b).width = IF a = b THEN 1 ELSE 2
    BY DEF Mask
<1>7. \A m \in masks : /\ m.table \in T /\ m.first \in D(m.table) /\ m.second \in D(m.table)
                       /\ m = Mask(m.table, m.first, m.second)
    BY <1>5, <1>6
<1>8. \A m \in masks : m.table \in Nat /\ m.first \in Nat /\ m.second \in Nat /\ m.width \in Nat
    <2> TAKE m \in masks
    <2>1. m.table \in T /\ m.first \in D(m.table) /\ m.second \in D(m.table) /\ m = Mask(m.table, m.first, m.second)
        BY <1>7
    <2>2. m.width = IF m.first = m.second THEN 1 ELSE 2
        BY <1>6, <2>1
    <2> QED BY <1>1, <1>2, <2>1, <2>2
<1>9. \A t \in T : IsFiniteSet(Of[t])
    <2> TAKE t \in T
    <2> DEFINE pairs == D(t) \X D(t)
               f == [p \in pairs |-> Mask(t, p[1], p[2])]
    <2>1. IsFiniteSet(D(t))
        BY <1>2, FS_Interval
    <2>2. IsFiniteSet(pairs)
        BY <2>1, FS_Product
    <2>3. DOMAIN f = pairs
        OBVIOUS
    <2>4. ASSUME NEW m \in Of[t] PROVE m \in {f[p] : p \in pairs}
        <3>1. PICK a \in D(t), b \in D(t) : m = Mask(t, a, b)
            BY <1>4, <2>4
        <3>2. <<a, b>> \in pairs /\ f[<<a, b>>] = m
            BY <3>1
        <3> QED BY <3>2
    <2> HIDE DEF f, pairs
    <2>5. IsFiniteSet({f[p] : p \in pairs})
        BY <2>2, <2>3, ValuesFinite
    <2>6. Of[t] \in SUBSET {f[p] : p \in pairs}
        BY <2>4
    <2> QED BY <2>5, <2>6, FS_Subset
<1> HIDE DEF Of
<1>10. IsFiniteSet(masks)
    <2>1. DOMAIN Of = T
        BY DEF Of
    <2>2. IsFiniteSet(T)
        BY <1>1, FS_Interval
    <2>3. IsFiniteSet({Of[t] : t \in T})
        BY <2>1, <2>2, ValuesFinite
    <2>4. \A S \in {Of[t] : t \in T} : IsFiniteSet(S)
        BY <1>9
    <2> HIDE DEF T
    <2> QED BY <1>3, <2>3, <2>4, FS_UNION
<1>11. \A m, o \in masks : <<m, o>> \in order <=> Sooner(m, o)
    BY DEF MaskOrder
<1>12. \A m \in masks : ~Sooner(m, m)
    BY <1>8 DEF Sooner
<1>13. ASSUME NEW m \in masks, NEW o \in masks, m # o PROVE Sooner(m, o) \/ Sooner(o, m)
    <2>1. m.table # o.table \/ m.first # o.first \/ m.second # o.second
        BY <1>7, <1>13
    <2> QED BY <1>8, <2>1 DEF Sooner
<1>14. ASSUME NEW m \in masks, NEW o \in masks, NEW r \in masks, Sooner(m, o), Sooner(o, r)
       PROVE  Sooner(m, r)
    <2>1. /\ m.table \in Nat /\ m.first \in Nat /\ m.second \in Nat /\ m.width \in Nat
          /\ o.table \in Nat /\ o.first \in Nat /\ o.second \in Nat /\ o.width \in Nat
          /\ r.table \in Nat /\ r.first \in Nat /\ r.second \in Nat /\ r.width \in Nat
        BY <1>8
    <2>2. CASE m.table < o.table \/ o.table < r.table
        BY <1>14, <2>1, <2>2 DEF Sooner
    <2>3. CASE m.table = o.table /\ o.table = r.table /\ (m.width < o.width \/ o.width < r.width)
        BY <1>14, <2>1, <2>3 DEF Sooner
    <2>4. CASE /\ m.table = o.table /\ o.table = r.table /\ m.width = o.width /\ o.width = r.width
        BY <1>14, <2>1, <2>4 DEF Sooner
    <2> QED BY <1>14, <2>1, <2>2, <2>3, <2>4 DEF Sooner
<1>15. Orders(order, masks)
    <2> HIDE DEF order
    <2> QED BY <1>11, <1>12, <1>13, <1>14 DEF Orders
<1> DEFINE s == Ordered(masks, order)
<1> HIDE DEF order
<1>16. s \in Seq(masks) /\ Len(s) \in Nat /\ DOMAIN s = 1..Len(s)
    BY <1>10, <1>15, OrderedFacts
<1> HIDE DEF s
<1>17. \A i \in 1..Len(s) : s[i] \in masks
    BY <1>16
<1>18. \A i \in 1..Len(s) : /\ s[i].table \in T
                            /\ {s[i].first, s[i].second} \subseteq D(s[i].table)
    BY <1>7, <1>17
<1> QED BY <1>16, <1>18 DEF s, order, masks

\* Every bucket lists positions.
LEMMA BucketsHold ==
    ASSUME NEW ix, Sound(ix), NEW t \in DOMAIN ix.tables, NEW b \in SUBSET DOMAIN Planes[ix.dim][t]
    PROVE  ListsPlaces(ix.tables[t][b], DOMAIN ix.entries)
<1> DEFINE ps == ix.tables[t][b]
<1>1. Holds(ps, Belonging(VectorsOf(ix), t, b))
    BY DEF Sound, TablesFit, Filled
<1>2. Belonging(VectorsOf(ix), t, b) \subseteq DOMAIN ix.entries
    BY DEF Belonging, VectorsOf
<1> HIDE DEF ps
<1>3. ps \in Seq(Nat) /\ ToSet(ps) \subseteq DOMAIN ix.entries
    BY <1>1, <1>2 DEF Holds
<1>4. Len(ps) \in Nat /\ DOMAIN ps = 1..Len(ps)
    BY <1>3
<1>5. \A i \in 1..Len(ps) : ps[i] \in ToSet(ps)
    BY <1>4 DEF ToSet
<1> QED BY <1>3, <1>4, <1>5 DEF ListsPlaces, ps

\* Candidates are positions: all of them, or enough.
LEMMA CandidatesFacts ==
    ASSUME NEW ix, Sound(ix), ix.kind = "lsh", ix.dim # 0, Planes[ix.dim] \in Seq(Seq(Seq(Int))),
           NEW q, Len(q) = ix.dim, NEW n \in Nat
    PROVE  /\ Candidates(ix, q, n) \in SUBSET DOMAIN ix.entries
           /\ Candidates(ix, q, n) = DOMAIN ix.entries \/ n <= Cardinality(Candidates(ix, q, n))
<1> DEFINE P == DOMAIN ix.entries
           planes == Planes[ix.dim]
           own == OwnBuckets(ix, q)
           near == NearBuckets(ix, q)
           masks == Ordered(Masks(ix), MaskOrder(Masks(ix)))
           nearby == NearbyPositions(ix, q, n)
<1>1. DOMAIN ix.tables = DOMAIN planes /\ DOMAIN planes = 1..Len(planes) /\ Len(planes) \in Nat
    BY DEF Sound, TablesFit
<1>2. ix.entries \in Seq(IndexEntry)
    BY DEF Sound, IndexShape
<1>3. P = 1..Size(ix) /\ Size(ix) \in Nat
    BY <1>2 DEF Size
<1>4. \A t \in DOMAIN ix.tables : Bucket(q, t) \in SUBSET DOMAIN planes[t]
    BY DEF Bucket
<1>5. Len(own) \in Nat /\ \A i \in 1..Len(own) : ListsPlaces(own[i], P)
    <2>1. own = [t \in 1..Len(planes) |-> ix.tables[t][Bucket(q, t)]]
        BY <1>1 DEF OwnBuckets
    <2>2. Len(own) = Len(planes)
        BY <1>1, <2>1
    <2>3. \A t \in DOMAIN ix.tables : ListsPlaces(ix.tables[t][Bucket(q, t)], P)
        BY <1>4, BucketsHold
    <2> HIDE DEF own
    <2> QED BY <1>1, <2>1, <2>2, <2>3
<1>6. Len(near) \in Nat /\ \A i \in 1..Len(near) : ListsPlaces(near[i], P)
    <2>1. /\ Len(masks) \in Nat /\ DOMAIN masks = 1..Len(masks)
          /\ \A i \in 1..Len(masks) : /\ masks[i].table \in DOMAIN ix.tables
                                      /\ {masks[i].first, masks[i].second} \subseteq DOMAIN planes[masks[i].table]
        BY <1>1, MaskFacts
    <2> DEFINE B(m) == Across(Bucket(q, m.table), {m.first, m.second})
    <2>2. near = [i \in DOMAIN masks |-> ix.tables[masks[i].table][B(masks[i])]]
        BY DEF NearBuckets
    <2> HIDE DEF masks
    <2>3. ASSUME NEW i \in 1..Len(masks) PROVE B(masks[i]) \in SUBSET DOMAIN planes[masks[i].table]
        <3>1. Bucket(q, masks[i].table) \subseteq DOMAIN planes[masks[i].table]
            BY <1>4, <2>1
        <3> QED BY <2>1, <3>1 DEF Across
    <2> HIDE DEF near, B
    <2>4. \A i \in 1..Len(masks) : ListsPlaces(ix.tables[masks[i].table][B(masks[i])], P)
        BY <2>1, <2>3, BucketsHold
    <2>5. Len(near) = Len(masks)
        BY <2>1, <2>2
    <2> QED BY <2>1, <2>2, <2>4, <2>5
<1> HIDE DEF own, near
<1>7. nearby \subseteq P
    <2> DEFINE target == AtLeast(n, MinCandidates)
               max == target * CandidateMultiplier
               found == Gathered({}, own, max, max)
    <2>1. nearby = Gathered(found, near, target, max)
        BY DEF NearbyPositions, own, near
    <2> HIDE DEF max, target
    <2>2. {} \in SUBSET P
        OBVIOUS
    <2>3. found \in SUBSET P
        BY <1>5, <2>2, GatheredWithin
    <2> HIDE DEF found, P
    <2>4. Gathered(found, near, target, max) \subseteq P
        BY <1>6, <2>3, GatheredWithin
    <2> QED BY <2>1, <2>4
<1> HIDE DEF nearby
<1>8. Candidates(ix, q, n) = IF Cardinality(nearby) < n THEN 1..Size(ix) ELSE nearby
    BY DEF Candidates, nearby
<1>9. Cardinality(nearby) \in Nat
    <2>1. IsFiniteSet(P)
        BY <1>3, FS_Interval
    <2> QED BY <1>7, <2>1, FS_Subset, FS_CardinalityType
<1>10. CASE Cardinality(nearby) < n
    BY <1>3, <1>8, <1>10
<1>11. CASE ~(Cardinality(nearby) < n)
    <2>1. n <= Cardinality(nearby)
        BY <1>9, <1>11
    <2> QED BY <1>7, <1>8, <1>11, <2>1
<1> QED BY <1>10, <1>11

LEMMA PositionsOf ==
    ASSUME NEW ix, Good(ix)
    PROVE  /\ DOMAIN ix.entries = 1..Size(ix) /\ Size(ix) \in Nat
           /\ (ix.dim = 0 <=> Size(ix) = 0) /\ (Size(ix) = 0 => DOMAIN ContentOf(ix) = {})
           /\ DOMAIN ContentOf(ix) = {ix.entries[p].key : p \in DOMAIN ix.entries}
           /\ \A p \in DOMAIN ix.entries : Own(ix)[p] = ix.entries[p].emb
<1>1. ix.entries \in Seq(IndexEntry)
    BY DEF Good, Sound, IndexShape
<1>2. DOMAIN ix.entries = 1..Size(ix) /\ Size(ix) \in Nat
    BY <1>1 DEF Size
<1>3. Size(ix) = 0 <=> ix.entries = << >>
    BY <1>1 DEF Size
<1>4. ix.dim = 0 <=> Size(ix) = 0
    BY <1>3 DEF Good
<1>5. DOMAIN ContentOf(ix) = {ix.entries[p].key : p \in DOMAIN ix.entries}
    BY ContentFacts DEF Good, Sound
<1>6. Size(ix) = 0 => DOMAIN ContentOf(ix) = {}
    BY <1>2, <1>5
<1> QED BY <1>2, <1>4, <1>5, <1>6 DEF Own

\* The graph holds the entries' vectors, and searching it leaves the rest alone.
LEMMA GraphFacts ==
    ASSUME NEW ix, Good(ix)
    PROVE  LET g == WithGraph(ix)
           IN  /\ g.graph = Own(ix) /\ g.entries = ix.entries /\ g.byKey = ix.byKey /\ g.kind = ix.kind
<1>1. DOMAIN ix = IndexFields
    BY DEF Good, Sound, IndexShape
<1>2. CASE ~ix.dirty /\ ix.graph # << >>
    <2>1. WithGraph(ix) = ix
        BY <1>2 DEF WithGraph
    <2> QED BY <1>2, <2>1 DEF Good, GraphFits
<1>3. CASE ~(~ix.dirty /\ ix.graph # << >>)
    <2>1. WithGraph(ix) = [ix EXCEPT !.graph = Own(ix), !.dirty = FALSE]
        BY <1>3 DEF WithGraph
    <2> QED BY <1>1, <2>1 DEF IndexFields
<1> QED BY <1>2, <1>3

LEMMA GraphIsPromised ==
    ASSUME Good(index), index.kind = "hnsw", NEW q \in Seq(Int), NEW n \in Nat, NEW among, NEW keys,
           \A p \in among \cap DOMAIN index.entries : index.entries[p].key \in keys,
           NEW hits \in GraphFinds(WithGraph(index), q, n, among)
    PROVE  IndexMap!Promised(hits, q, n, keys, FALSE)
<1> DEFINE g == WithGraph(index)
<1>1. g.graph = Own(index) /\ g.entries = index.entries
    BY GraphFacts
<1> HIDE DEF g
<1>2. PICK found \in SUBSET (DOMAIN g.graph \cap among) :
         hits = Best(g, g.graph, q, n, found \cap DOMAIN g.entries)
    BY DEF GraphFinds, g
<1>3. Best(g, g.graph, q, n, found \cap DOMAIN g.entries)
         = Best(index, Own(index), q, n, found \cap DOMAIN index.entries)
    BY <1>1 DEF Best
<1> DEFINE positions == found \cap DOMAIN index.entries
<1>4. positions \in SUBSET DOMAIN index.entries /\ \A p \in positions : index.entries[p].key \in keys
    BY <1>2
<1>5. \A p \in positions : Own(index)[p] = index.entries[p].emb
    BY PositionsOf
<1>6. hits = Best(index, Own(index), q, n, positions)
    BY <1>2, <1>3
<1> HIDE DEF positions
<1>7. FALSE \in BOOLEAN /\ index.kind # "lsh"
    OBVIOUS
<1>8. IndexMap!Promised(Best(index, Own(index), q, n, positions), q, n, keys, FALSE)
    BY <1>4, <1>5, <1>7, BestIsPromised
<1> QED BY <1>6, <1>8

LEMMA QueryIsPromised ==
    ASSUME Good(index), AllKept(ContentOf(index)), NEW q \in Seq(Int), NEW n \in Nat,
           NEW hits \in Query(index, q, n).answers
    PROVE  IndexMap!Promised(hits, Unit(q), n, DOMAIN ContentOf(index), index.kind = "brute")
<1> DEFINE P == DOMAIN index.entries
           keys == DOMAIN ContentOf(index)
           u == Unit(q)
           exact == index.kind = "brute"
           positions == IF index.kind = "lsh" THEN Candidates(index, u, n) ELSE 1..Size(index)
<1>1. /\ P = 1..Size(index) /\ Size(index) \in Nat /\ (index.dim = 0 <=> Size(index) = 0)
      /\ (Size(index) = 0 => keys = {}) /\ keys = {index.entries[p].key : p \in P}
      /\ \A p \in P : Own(index)[p] = index.entries[p].emb
    BY PositionsOf
<1>2. u \in Seq(Int) /\ Len(u) = Len(q)
    BY UnitFacts
<1> HIDE DEF u
<1>3. CASE n = 0 \/ Size(index) = 0
    <2>1. hits = << >> /\ (n = 0 \/ keys = {})
        BY <1>1, <1>3 DEF Query
    <2> QED BY <2>1, NothingIsPromised
<1>4. CASE ~(n = 0 \/ Size(index) = 0)
    <2>1. Fits(index, q)
        BY <1>4 DEF Query
    <2>2. CASE ~Scans(index)
        <3>1. index.kind = "hnsw" /\ hits \in GraphFinds(WithGraph(index), u, n, 1..MaxEntries)
            BY <1>4, <2>1, <2>2 DEF Query, Scans, u
        <3>2. \A p \in (1..MaxEntries) \cap P : index.entries[p].key \in keys
            BY <1>1
        <3>3. IndexMap!Promised(hits, u, n, keys, FALSE)
            BY <1>2, <3>1, <3>2, GraphIsPromised
        <3>4. exact = FALSE
            BY <3>1
        <3> HIDE DEF exact
        <3> QED BY <3>3, <3>4 DEF exact, u
    <2>3. CASE Scans(index)
        <3>1. hits = Best(index, Own(index), u, n, positions)
            BY <1>4, <2>1, <2>3 DEF Query, u
        <3>2. positions \in SUBSET P /\ (positions = P \/ (index.kind = "lsh" /\ n <= Cardinality(positions)))
            <4>1. CASE index.kind # "lsh"
                BY <1>1, <4>1
            <4>2. CASE index.kind = "lsh"
                <5>1. index.dim # 0 /\ index.dim = Len(q)
                    BY <1>1, <1>4, <2>1 DEF Fits
                <5>2. Planes[index.dim] \in Seq(Seq(Seq(Int)))
                    <6>1. 1 \in P
                        BY <1>1, <1>4
                    <6>2. Len(index.entries[1].emb) = index.dim
                        BY <6>1 DEF Good, Sound, VectorsFit
                    <6>3. /\ index.entries[1].key \in keys
                          /\ ContentOf(index)[index.entries[1].key] = Item(index.entries[1])
                        BY <1>1, <6>1, ContentFacts DEF Good, Sound
                    <6>4. Item(index.entries[1]).emb = index.entries[1].emb
                        BY DEF Item
                    <6>5. IsKept(index.entries[1].emb)
                        BY <6>3, <6>4 DEF AllKept
                    <6> QED BY <6>2, <6>5 DEF IsKept
                <5>3. Sound(index)
                    BY DEF Good
                <5>4. /\ Candidates(index, u, n) \in SUBSET P
                      /\ Candidates(index, u, n) = P \/ n <= Cardinality(Candidates(index, u, n))
                    BY <1>2, <4>2, <5>1, <5>2, <5>3, CandidatesFacts
                <5> QED BY <4>2, <5>4
            <4> QED BY <4>1, <4>2
        <3> HIDE DEF positions
        <3>3. \A p \in positions : Own(index)[p] = index.entries[p].emb /\ index.entries[p].key \in keys
            BY <1>1, <3>2
        <3>4. positions = P => \A k \in keys : \E p \in positions : k = index.entries[p].key
            BY <1>1
        <3>5. exact => index.kind # "lsh"
            OBVIOUS
        <3>6. exact \in BOOLEAN
            OBVIOUS
        <3>7. exact => \A k \in keys : \E p \in positions : k = index.entries[p].key
            BY <3>2, <3>4, <3>5
        <3>8. exact \/ index.kind = "lsh" =>
                 (\A k \in keys : \E p \in positions : k = index.entries[p].key) \/ n <= Cardinality(positions)
            BY <3>2, <3>4
        <3>9. positions \in SUBSET DOMAIN index.entries
            BY <3>2
        <3> HIDE DEF exact, keys
        <3>10. IndexMap!Promised(Best(index, Own(index), u, n, positions), u, n, keys, exact)
            BY <1>2, <3>3, <3>6, <3>7, <3>8, <3>9, BestIsPromised
        <3> QED BY <3>1, <3>10 DEF exact, keys, u
    <2> QED BY <2>2, <2>3
<1> QED BY <1>3, <1>4

LEMMA FilteredIsPromised ==
    ASSUME Good(index), NEW q \in Seq(Int), NEW n \in Nat, NEW keys,
           NEW hits \in QueryFiltered(index, q, n, keys).answers
    PROVE  IndexMap!Promised(hits, Unit(q), n, DOMAIN ContentOf(index) \cap keys, index.kind # "hnsw")
<1> DEFINE P == DOMAIN index.entries
           c == ContentOf(index)
           inside == DOMAIN c \cap keys
           u == Unit(q)
           exact == index.kind # "hnsw"
           allowed == AllowedPositions(index, keys)
<1>1. /\ P = 1..Size(index) /\ Size(index) \in Nat /\ (Size(index) = 0 => DOMAIN c = {})
      /\ DOMAIN c = {index.entries[p].key : p \in P}
      /\ \A p \in P : Own(index)[p] = index.entries[p].emb
    BY PositionsOf
<1>2. u \in Seq(Int)
    BY UnitFacts
<1>3. DOMAIN index.byKey = DOMAIN c /\ \A p \in P : index.byKey[index.entries[p].key] = p
    BY DEF ContentOf, Good, Sound, KeysFit
<1>4. /\ allowed \in SUBSET P
      /\ \A p \in allowed : index.entries[p].key \in inside
      /\ \A k \in inside : \E p \in allowed : k = index.entries[p].key
    <2>1. allowed = {index.byKey[k] : k \in inside}
        BY <1>3 DEF AllowedPositions
    <2> HIDE DEF allowed
    <2>2. ASSUME NEW k \in inside PROVE index.byKey[k] \in P /\ index.entries[index.byKey[k]].key = k
        <3>1. PICK p \in P : k = index.entries[p].key
            BY <1>1
        <3> QED BY <1>3, <3>1
    <2> HIDE DEF inside
    <2> QED BY <2>1, <2>2
<1> HIDE DEF u, c
<1>5. CASE n = 0 \/ Size(index) = 0 \/ allowed = {}
    <2>1. hits = << >>
        BY <1>5 DEF QueryFiltered
    <2>2. n = 0 \/ inside = {}
        BY <1>1, <1>4, <1>5
    <2> QED BY <2>1, <2>2, NothingIsPromised DEF c
<1>6. CASE ~(n = 0 \/ Size(index) = 0 \/ allowed = {})
    <2>1. Fits(index, q)
        BY <1>6 DEF QueryFiltered
    <2> HIDE DEF inside
    <2>2. CASE ScansFiltered(index, allowed)
        <3>1. hits = Best(index, Own(index), u, n, allowed)
            BY <1>6, <2>1, <2>2 DEF QueryFiltered, u
        <3>2. exact \in BOOLEAN
            OBVIOUS
        <3> HIDE DEF allowed, exact
        <3>3. \A p \in allowed : Own(index)[p] = index.entries[p].emb
            BY <1>1, <1>4
        <3>4. IndexMap!Promised(Best(index, Own(index), u, n, allowed), u, n, inside, exact)
            BY <1>2, <1>4, <3>2, <3>3, BestIsPromised
        <3> QED BY <3>1, <3>4 DEF inside, exact, u, c
    <2>3. CASE ~ScansFiltered(index, allowed)
        <3>1. index.kind = "hnsw" /\ hits \in GraphFinds(WithGraph(index), u, n, allowed)
            BY <1>6, <2>1, <2>3 DEF QueryFiltered, ScansFiltered, FilteredByGraph, u
        <3>2. \A p \in allowed \cap DOMAIN index.entries : index.entries[p].key \in inside
            BY <1>4
        <3> HIDE DEF allowed
        <3>3. IndexMap!Promised(hits, u, n, inside, FALSE)
            BY <1>2, <3>1, <3>2, GraphIsPromised
        <3>4. exact = FALSE
            BY <3>1
        <3> HIDE DEF exact
        <3> QED BY <3>3, <3>4 DEF exact, u, inside, c
    <2> QED BY <2>2, <2>3
<1> QED BY <1>5, <1>6

-----------------------------------------------------------------------------
(* Each step of the index is a step of the map.                            *)

MapInv == IndexInv /\ crowded \in BOOLEAN /\ AllKept(ContentOf(index))

LEMMA CurrentStands ==
    Stands(IndexMap!Current, index, crowded) /\ IndexMap!Current.content = ContentOf(index)
BY DEF Stands, IndexMap!Current, ContentOf, Item

\* The map of the next state.
StandsNext(m) == m.content = ContentOf(index') /\ m.crowded = crowded'

LEMMA BecomesNext ==
    ASSUME NEW m, StandsNext(m)
    PROVE  IndexMap!Becomes(m)
BY DEF StandsNext, IndexMap!Becomes, ContentOf, Item

LEMMA IndexBatchFacts ==
    ASSUME NEW records \in IndexBatches
    PROVE  Batch(records) /\ Keepable(records)
<1>1. \A i \in DOMAIN records : records[i].emb # << >> => Planes[Len(records[i].emb)] \in Seq(Seq(Seq(Int)))
    BY IndexAssumption
<1> QED BY <1>1, ArgumentsAreBatches DEF Keepable

LEMMA CrowdedByIsBoolean == \A ix, records : CrowdedBy(ix, records) \in BOOLEAN
BY DEF CrowdedBy

LEMMA UpsertMaps ==
    ASSUME MapInv, UpsertRecords
    PROVE  /\ index'.kind = index.kind /\ answer' = << >> /\ IndexMap!Put
           /\ crowded' \in BOOLEAN /\ AllKept(ContentOf(index'))
<1>1. PICK records \in IndexBatches :
         Changes(PutRecords(index, records), crowded \/ CrowdedBy(index, records))
    BY DEF UpsertRecords
<1>2. /\ index' = PutRecords(index, records) /\ crowded' = (crowded \/ CrowdedBy(index, records))
      /\ answer' = << >>
    BY <1>1 DEF Changes
<1>3. Good(index) /\ crowded \in BOOLEAN /\ AllKept(ContentOf(index))
    BY DEF MapInv, IndexInv
<1>4. Batch(records) /\ Keepable(records)
    BY IndexBatchFacts
<1> DEFINE m == IndexMap!PutAll(IndexMap!Current, records)
<1>5. Stands(m, PutRecords(index, records), crowded \/ CrowdedBy(index, records))
    BY <1>3, <1>4, CurrentStands, PutContent
<1>6. AllKept(m.content)
    BY <1>3, <1>4, CurrentStands, PutAllKept
<1> HIDE DEF m
<1>7. StandsNext(m)
    BY <1>2, <1>5 DEF Stands, StandsNext
<1>8. IndexMap!Becomes(m)
    BY <1>7 DEF StandsNext, IndexMap!Becomes, ContentOf, Item
<1>9. IndexMap!Put
    BY <1>8 DEF IndexMap!Put, m
<1>10. index'.kind = index.kind
    BY <1>2, <1>3, <1>4, PutRecordsGood
<1> QED BY <1>2, <1>3, <1>6, <1>7, <1>9, <1>10, CrowdedByIsBoolean DEF StandsNext

LEMMA UpsertBatchMaps ==
    ASSUME MapInv, UpsertBatch
    PROVE  /\ index'.kind = index.kind /\ answer' = << >> /\ IndexMap!PutIds
           /\ crowded' \in BOOLEAN /\ AllKept(ContentOf(index'))
<1>0. PICK records \in IndexBatches :
         /\ \A i \in DOMAIN records : Keyed(index, records)[i].key \in IndexKeys
         /\ Changes(PutIds(index, records), crowded \/ CrowdedBy(Drained(index, records), Keyed(index, records)))
    BY DEF UpsertBatch
<1> DEFINE keyed == Keyed(index, records)
           from == Drained(index, records)
           c == ContentOf(index)
           keys == [i \in DOMAIN records |-> keyed[i].key]
           m == IndexMap!PutAll(IndexMap!Current, keyed)
<1>1. \A i \in DOMAIN records : keyed[i].key \in IndexKeys
    BY <1>0
<1>2. /\ index' = PutIds(index, records) /\ crowded' = (crowded \/ CrowdedBy(from, keyed))
      /\ answer' = << >>
    BY <1>0 DEF Changes
<1>3. Good(index) /\ crowded \in BOOLEAN /\ AllKept(c) /\ (crowded \/ Complete(index))
    BY DEF MapInv, IndexInv
<1>4. Batch(records) /\ Keepable(records)
    BY IndexBatchFacts
<1>5. /\ DOMAIN keyed = DOMAIN records
      /\ keyed = [i \in DOMAIN records |-> [records[i] EXCEPT !.key = keyed[i].key]]
      /\ \A i \in DOMAIN records :
            IF records[i].id \in DOMAIN index.at
            THEN keyed[i].key \in DOMAIN c /\ c[keyed[i].key].id = records[i].id
            ELSE keyed[i].key \notin DOMAIN c
      /\ \A i, j \in DOMAIN records : keyed[i].key = keyed[j].key => records[i].id = records[j].id
    BY <1>3, <1>4, KeyedContent
<1>6. Batch(keyed) /\ Good(from) /\ from.kind = index.kind
    BY <1>3, <1>4, KeyedFacts
<1>7. Stands(m, PutIds(index, records), crowded \/ CrowdedBy(from, keyed))
    BY <1>3, <1>4, CurrentStands, PutIdsContent
<1>8. index'.kind = index.kind
    BY <1>2, <1>6, PutRecordsGood DEF PutIds
<1> HIDE DEF keyed, from
<1>9. Keepable(keyed)
    <2>1. \A i \in DOMAIN records : records[i] \in AnyRecord
        BY <1>4 DEF Batch
    <2>2. ASSUME NEW i \in DOMAIN records PROVE keyed[i].emb = records[i].emb
        <3>1. keyed[i] = [records[i] EXCEPT !.key = keyed[i].key]
            BY <1>5
        <3> QED BY <2>1, <3>1 DEF AnyRecord
    <2> QED BY <1>4, <1>5, <2>2 DEF Keepable
<1>10. AllKept(m.content)
    BY <1>3, <1>6, <1>9, CurrentStands, PutAllKept
<1>11. m = IndexMap!PutAll(IndexMap!Current, [i \in DOMAIN records |-> [records[i] EXCEPT !.key = keys[i]]])
    <2>1. keyed = [i \in DOMAIN records |-> [records[i] EXCEPT !.key = keys[i]]]
        BY <1>5
    <2> HIDE DEF keys
    <2> QED BY <2>1
<1> HIDE DEF m
<1>12. StandsNext(m)
    BY <1>2, <1>7 DEF Stands, StandsNext
<1>13. IndexMap!Becomes(m)
    BY <1>12 DEF StandsNext, IndexMap!Becomes, ContentOf, Item
<1>14. keys \in [DOMAIN records -> IndexKeys] /\ \A i \in DOMAIN records : keys[i] = keyed[i].key
    BY <1>1
<1> HIDE DEF keys
<1>15. ASSUME NEW i \in DOMAIN records, keys[i] \notin DOMAIN c
       PROVE  crowded \/ records[i].id \notin IndexMap!IdsOf(c)
    <2>1. records[i].id \notin DOMAIN index.at
        BY <1>5, <1>14, <1>15
    <2>2. Complete(index) => \A k \in DOMAIN c : c[k].id # records[i].id
        BY <1>3, <2>1, NoHolder
    <2> QED BY <1>3, <2>2 DEF IndexMap!IdsOf
<1>16. \A i \in DOMAIN records :
          IF keys[i] \in DOMAIN c THEN c[keys[i]].id = records[i].id
          ELSE crowded \/ records[i].id \notin IndexMap!IdsOf(c)
    BY <1>5, <1>14, <1>15
<1>17. \A i, j \in DOMAIN records : keys[i] = keys[j] => records[i].id = records[j].id
    BY <1>5, <1>14
<1> DEFINE now == [k \in DOMAIN index.byKey |-> LET e == index.entries[index.byKey[k]] IN [id |-> e.id, emb |-> e.emb]]
           put == [i \in DOMAIN records |-> [records[i] EXCEPT !.key = keys[i]]]
<1>18. c = now
    BY DEF ContentOf, Item
<1> HIDE DEF c, now
<1>19. IndexMap!PutIds
    <2>1. \A i \in DOMAIN records :
             IF keys[i] \in DOMAIN now THEN now[keys[i]].id = records[i].id
             ELSE crowded \/ records[i].id \notin IndexMap!IdsOf(now)
        BY <1>16, <1>18
    <2>2. IndexMap!Becomes(IndexMap!PutAll(IndexMap!Current, put))
        <3>1. m = IndexMap!PutAll(IndexMap!Current, put)
            BY <1>11
        <3> HIDE DEF put
        <3> QED BY <1>13, <3>1 DEF IndexMap!Becomes
    <2> QED BY <1>14, <1>17, <2>1, <2>2, Zenon DEF IndexMap!PutIds, now, put
<1> QED BY <1>2, <1>3, <1>8, <1>10, <1>12, <1>19, CrowdedByIsBoolean DEF StandsNext

LEMMA RemoveMaps ==
    ASSUME MapInv, RemoveId
    PROVE  /\ index'.kind = index.kind /\ answer' = << >> /\ IndexMap!Drop
           /\ crowded' \in BOOLEAN /\ AllKept(ContentOf(index'))
<1>1. PICK id \in IndexIds : Changes(Removed(index, id), crowded)
    BY DEF RemoveId
<1>2. index' = Removed(index, id) /\ crowded' = crowded /\ answer' = << >>
    BY <1>1 DEF Changes
<1> DEFINE c == ContentOf(index)
           d == ContentOf(index')
           holders == {k \in DOMAIN c : c[k].id = id}
<1>3. Good(index) /\ crowded \in BOOLEAN /\ AllKept(c) /\ (crowded \/ Complete(index))
    BY DEF MapInv, IndexInv
<1>4. index'.kind = index.kind
    BY <1>2, <1>3, RemovedGood
<1>5. \/ \E k \in DOMAIN c : c[k].id = id /\ d = Lacking(c, k)
      \/ id \notin DOMAIN index.at /\ d = c
    BY <1>2, <1>3, RemovedContent
<1>6. Complete(index) /\ id \notin DOMAIN index.at => holders = {}
    BY <1>3, NoHolder
<1>7. c = [k \in DOMAIN index.byKey |-> LET e == index.entries[index.byKey[k]] IN [id |-> e.id, emb |-> e.emb]]
      /\ d = [k \in DOMAIN index'.byKey |-> LET e == index'.entries[index'.byKey[k]] IN [id |-> e.id, emb |-> e.emb]]
    BY DEF ContentOf, Item
<1> HIDE DEF c, d
<1>8. \/ \E k \in holders : d = [l \in DOMAIN c \ {k} |-> c[l]]
      \/ (holders = {} \/ crowded) /\ d = c
    BY <1>3, <1>5, <1>6 DEF Lacking
<1>9. IndexMap!Drop
    <2> DEFINE now == [k \in DOMAIN index.byKey |->
                          LET e == index.entries[index.byKey[k]] IN [id |-> e.id, emb |-> e.emb]]
               then == [k \in DOMAIN index'.byKey |->
                          LET e == index'.entries[index'.byKey[k]] IN [id |-> e.id, emb |-> e.emb]]
    <2>1. c = now /\ d = then
        BY <1>7
    <2> HIDE DEF now, then
    <2>2. \/ \E k \in {l \in DOMAIN now : now[l].id = id} : then = [l \in DOMAIN now \ {k} |-> now[l]]
          \/ ({l \in DOMAIN now : now[l].id = id} = {} \/ crowded) /\ then = now
        BY <1>8, <2>1
    <2> QED BY <1>2, <2>2, Zenon DEF IndexMap!Drop, now, then
<1>10. AllKept(d)
    BY <1>3, <1>5 DEF AllKept, Lacking
<1> QED BY <1>2, <1>3, <1>4, <1>9, <1>10 DEF d

LEMMA ResetMaps ==
    ASSUME MapInv, ResetIndex
    PROVE  /\ index'.kind = index.kind /\ answer' = << >> /\ IndexMap!Clear
           /\ crowded' \in BOOLEAN /\ AllKept(ContentOf(index'))
<1>1. index' = Reset(index) /\ crowded' = FALSE /\ answer' = << >>
    BY DEF ResetIndex, Changes
<1>2. Good(index)
    BY DEF MapInv, IndexInv
<1>3. index'.kind = index.kind
    BY <1>1, <1>2, ClearedGood
<1>4. StandsNext(IndexMap!Empty)
    BY <1>1, ResetContent DEF Stands, StandsNext
<1>5. IndexMap!Clear
    BY <1>4, BecomesNext DEF IndexMap!Clear
<1>6. ContentOf(index') = << >>
    BY <1>4 DEF StandsNext, IndexMap!Empty
<1>7. AllKept(ContentOf(index'))
    <2>1. AllKept(<< >>)
        BY DEF AllKept
    <2> QED BY <1>6, <2>1
<1>8. crowded' \in BOOLEAN
    BY <1>1
<1> QED BY <1>1, <1>3, <1>5, <1>7, <1>8

\* A refill starts from nothing, whether the records come in directly or from a file.
LEMMA RefillStands ==
    ASSUME NEW ix, Good(ix), NEW records \in IndexBatches
    PROVE  LET m == IndexMap!PutAll(IndexMap!Empty, records)
           IN  Stands(m, Imported(ix, records), CrowdedBy(Reset(ix), records)) /\ AllKept(m.content)
<1> DEFINE m == IndexMap!PutAll(IndexMap!Empty, records)
<1>1. Batch(records) /\ Keepable(records)
    BY IndexBatchFacts
<1>2. Good(Reset(ix)) /\ Stands(IndexMap!Empty, Reset(ix), FALSE)
    BY ClearedGood, ResetContent
<1>3. FALSE \in BOOLEAN
    OBVIOUS
<1>4. Stands(m, PutRecords(Reset(ix), records), FALSE \/ CrowdedBy(Reset(ix), records))
    BY <1>1, <1>2, <1>3, PutContent
<1>5. AllKept(IndexMap!Empty.content)
    BY DEF AllKept, IndexMap!Empty
<1>6. AllKept(m.content)
    BY <1>1, <1>5, PutAllKept
<1>7. (FALSE \/ CrowdedBy(Reset(ix), records)) = CrowdedBy(Reset(ix), records)
    BY CrowdedByIsBoolean
<1> HIDE DEF m
<1> QED BY <1>4, <1>6, <1>7 DEF Imported, m

LEMMA ImportMaps ==
    ASSUME MapInv, ImportRecords \/ MapSegments
    PROVE  /\ index'.kind = index.kind /\ answer' = << >> /\ IndexMap!Refill
           /\ crowded' \in BOOLEAN /\ AllKept(ContentOf(index'))
<1>0. Good(index)
    BY DEF MapInv, IndexInv
<1>1. PICK records \in IndexBatches :
         /\ crowded' = CrowdedBy(Reset(index), records) /\ answer' = << >>
         /\ \/ index' = Imported(index, records)
            \/ index.kind = "brute" /\ index' = MappedFile(Exported(Imported(index, records)))
    BY DEF ImportRecords, MapSegments, Changes
<1> DEFINE im == Imported(index, records)
           m == IndexMap!PutAll(IndexMap!Empty, records)
<1>2. Stands(m, im, CrowdedBy(Reset(index), records)) /\ AllKept(m.content)
    BY <1>0, RefillStands
<1>3. Good(im) /\ im.kind = index.kind
    BY <1>0, IndexBatchFacts, ImportedGood
<1> HIDE DEF im, m
<1>4. m.content = ContentOf(im) /\ m.crowded = CrowdedBy(Reset(index), records)
    BY <1>2 DEF Stands
<1>5. ContentOf(MappedFile(Exported(im))) = ContentOf(im) /\ MappedFile(Exported(im)).kind = "brute"
    BY <1>2, <1>3, <1>4, MappedContent, MappedFileGood
<1>6. ContentOf(index') = m.content /\ index'.kind = index.kind
    BY <1>1, <1>3, <1>4, <1>5 DEF im
<1>7. StandsNext(m)
    BY <1>1, <1>4, <1>6 DEF StandsNext
<1>8. IndexMap!Becomes(m)
    BY <1>7, BecomesNext
<1>9. IndexMap!Refill
    BY <1>8 DEF IndexMap!Refill, m
<1> QED BY <1>1, <1>2, <1>6, <1>9, CrowdedByIsBoolean

LEMMA AskMaps ==
    ASSUME MapInv, Ask
    PROVE  /\ index'.kind = index.kind /\ IndexMap!Ask
           /\ crowded' = crowded /\ ContentOf(index') = ContentOf(index)
<1>1. PICK q \in Queries, n \in Limits :
         \/ Answer(q, n, FALSE, {}, Query(index, q, n))
         \/ \E keys \in KeySets : Answer(q, n, TRUE, keys, QueryFiltered(index, q, n, keys))
    BY DEF Ask
<1>2. Good(index) /\ AllKept(ContentOf(index))
    BY DEF MapInv, IndexInv
<1>3. q \in Seq(Int) /\ n \in Nat
    BY IndexAssumption
<1> DEFINE Same(new) == new.kind = index.kind /\ new.byKey = index.byKey /\ new.entries = index.entries
           D == DOMAIN ContentOf(index)
<1>4. Same(index) /\ Same(WithGraph(index))
    BY <1>2, GraphFacts
<1>5. crowded' = crowded /\ Same(index') /\ answer' # << >>
      /\ IF answer'[1].filtered
         THEN IndexMap!Promised(answer'[1].hits, answer'[1].q, answer'[1].n, D \cap answer'[1].keys, index.kind # "hnsw")
         ELSE IndexMap!Promised(answer'[1].hits, answer'[1].q, answer'[1].n, D, index.kind = "brute")
    <2>1. CASE Answer(q, n, FALSE, {}, Query(index, q, n))
        <3>1. PICK hits \in Query(index, q, n).answers :
                 answer' = <<[q |-> Unit(q), n |-> n, filtered |-> FALSE, keys |-> {}, hits |-> hits]>>
            BY <2>1 DEF Answer
        <3>2. index' = Query(index, q, n).ix /\ crowded' = crowded
            BY <2>1 DEF Answer
        <3>3. Query(index, q, n).ix \in {index, WithGraph(index)}
            BY DEF Query
        <3>4. Same(index')
            BY <1>4, <3>2, <3>3
        <3>5. IndexMap!Promised(hits, Unit(q), n, D, index.kind = "brute")
            BY <1>2, <1>3, QueryIsPromised
        <3>6. /\ answer' # << >> /\ answer'[1].hits = hits /\ answer'[1].q = Unit(q) /\ answer'[1].n = n
              /\ answer'[1].filtered = FALSE
            BY <3>1
        <3> HIDE DEF Same, D
        <3> QED BY <3>2, <3>4, <3>5, <3>6
    <2>2. CASE \E keys \in KeySets : Answer(q, n, TRUE, keys, QueryFiltered(index, q, n, keys))
        <3>0. PICK keys \in KeySets : Answer(q, n, TRUE, keys, QueryFiltered(index, q, n, keys))
            BY <2>2
        <3>1. PICK hits \in QueryFiltered(index, q, n, keys).answers :
                 answer' = <<[q |-> Unit(q), n |-> n, filtered |-> TRUE, keys |-> keys, hits |-> hits]>>
            BY <3>0 DEF Answer
        <3>2. index' = QueryFiltered(index, q, n, keys).ix /\ crowded' = crowded
            BY <3>0 DEF Answer
        <3>3. QueryFiltered(index, q, n, keys).ix \in {index, WithGraph(index)}
            BY DEF QueryFiltered, FilteredByGraph
        <3>4. Same(index')
            BY <1>4, <3>2, <3>3
        <3>5. IndexMap!Promised(hits, Unit(q), n, D \cap keys, index.kind # "hnsw")
            BY <1>2, <1>3, FilteredIsPromised
        <3>6. /\ answer' # << >> /\ answer'[1].hits = hits /\ answer'[1].q = Unit(q) /\ answer'[1].n = n
              /\ answer'[1].filtered = TRUE /\ answer'[1].keys = keys
            BY <3>1
        <3> HIDE DEF Same, D
        <3> QED BY <3>2, <3>4, <3>5, <3>6
    <2> QED BY <1>1, <2>1, <2>2
<1>6. ContentOf(index') = ContentOf(index)
    BY <1>5, SameContent
<1>7. D = DOMAIN [k \in DOMAIN index.byKey |-> LET e == index.entries[index.byKey[k]] IN [id |-> e.id, emb |-> e.emb]]
    BY DEF ContentOf
<1>8. IndexMap!Ask
    <2>1. [k \in DOMAIN index'.byKey |-> LET e == index'.entries[index'.byKey[k]] IN [id |-> e.id, emb |-> e.emb]]
             = [k \in DOMAIN index.byKey |-> LET e == index.entries[index.byKey[k]] IN [id |-> e.id, emb |-> e.emb]]
        BY <1>6 DEF ContentOf, Item
    <2> HIDE DEF D
    <2> QED BY <1>5, <1>7, <2>1 DEF IndexMap!Ask
<1> QED BY <1>5, <1>6, <1>8

LEMMA MapInvInit == IndexInit => MapInv /\ IndexMap!Init
<1> SUFFICES ASSUME IndexInit PROVE MapInv /\ IndexMap!Init
    OBVIOUS
<1>1. PICK k \in IndexKinds : index = NewIndex(k)
    BY DEF IndexInit
<1>2. index.byKey = << >>
    BY <1>1 DEF NewIndex, EmptyIndex
<1>3. ContentOf(index) = << >>
    BY <1>2, BlankContent
<1>4. crowded = FALSE /\ answer = << >>
    BY DEF IndexInit
<1>5. AllKept(ContentOf(index))
    BY <1>3 DEF AllKept
<1>6. IndexMap!Init
    BY <1>3, <1>4 DEF IndexMap!Init, ContentOf, Item
<1> QED BY <1>4, <1>5, <1>6, IndexInvInit DEF MapInv

LEMMA MapInvNext == MapInv /\ [IndexNext]_indexVars => MapInv' /\ [IndexMap!Next]_(IndexMap!mapVars)
<1> SUFFICES ASSUME MapInv, [IndexNext]_indexVars PROVE MapInv' /\ [IndexMap!Next]_(IndexMap!mapVars)
    OBVIOUS
<1>0. IndexInv'
    BY IndexInvNext DEF MapInv
<1> DEFINE Keeps == crowded' \in BOOLEAN /\ AllKept(ContentOf(index'))
<1>1. Keeps => MapInv'
    BY <1>0 DEF MapInv
<1>2. CASE UpsertRecords
    BY <1>1, <1>2, UpsertMaps DEF IndexMap!Next
<1>3. CASE UpsertBatch
    BY <1>1, <1>3, UpsertBatchMaps DEF IndexMap!Next
<1>4. CASE RemoveId
    BY <1>1, <1>4, RemoveMaps DEF IndexMap!Next
<1>5. CASE ResetIndex
    BY <1>1, <1>5, ResetMaps DEF IndexMap!Next
<1>6. CASE ImportRecords \/ MapSegments
    BY <1>1, <1>6, ImportMaps DEF IndexMap!Next
<1>7. CASE Ask
    <2>1. Keeps
        BY <1>7, AskMaps DEF MapInv
    <2> QED BY <1>1, <1>7, <2>1, AskMaps DEF IndexMap!Next
<1>8. CASE UNCHANGED indexVars
    <2>1. index' = index /\ crowded' = crowded /\ answer' = answer
        BY <1>8 DEF indexVars
    <2>2. Keeps
        BY <2>1 DEF MapInv
    <2>3. UNCHANGED IndexMap!mapVars
        BY <2>1 DEF IndexMap!mapVars
    <2> QED BY <1>1, <2>2, <2>3
<1> QED BY <1>2, <1>3, <1>4, <1>5, <1>6, <1>7, <1>8 DEF IndexNext

(***************************************************************************)
(* The index implements SimilarityMap: for any batches, dimensions, planes *)
(* and limits, the content is what was put and not removed, and an answer  *)
(* is made of entries with their own scores, the best of them where the    *)
(* entries are scanned and as many as there can be with the LSH tables     *)
(* (src/src/vector_index.rs).                                              *)
(***************************************************************************)
THEOREM IndexIsAMap == IndexSpec => AnswersAsPromised
<1>1. IndexInit => MapInv /\ IndexMap!Init
    BY MapInvInit
<1>2. MapInv /\ [IndexNext]_indexVars => MapInv' /\ [IndexMap!Next]_(IndexMap!mapVars)
    BY MapInvNext
<1> QED BY <1>1, <1>2, PTL DEF IndexSpec, AnswersAsPromised, IndexMap!Spec
=============================================================================
