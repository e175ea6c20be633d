---------------------------- MODULE VectorIndex ----------------------------
(***************************************************************************)
(* The vector indexes of src/src/vector_index.rs: the exact scan, the LSH  *)
(* tables and the HNSW graph, over one layout: entries at positions, maps  *)
(* from ids and keys to positions, removal by moving the last entry into   *)
(* the gap.                                                                *)
(*                                                                         *)
(* Embeddings have at most one coordinate that is not 0, so that unit      *)
(* vectors and their products are integers and the three storage kinds     *)
(* hold them exactly.  An LSH bucket is the set of the planes the vector   *)
(* is not behind.  The graph library is external: a search finds some of   *)
(* the vectors the graph was built from.                                   *)
(***************************************************************************)
EXTENDS Integers, Sequences, FiniteSets, SequencesExt, Selection

CONSTANTS IndexKinds,    \* the modes a behaviour may be in
          IndexBatches,  \* arguments of upsert_records(), upsert_batch(), import_records()
          IndexIds,      \* ids in their order
          IndexKeys,     \* keys, the transient ones among them
          Queries, Limits, KeySets,
          Planes,        \* the hyperplanes: dimension -> table -> planes
          MinCandidates, HammingRadius, CandidateMultiplier,
          ExactCrossover, FilteredCrossover,
          MaxEntries     \* bound on the entries of an index

Zero(v) == \A i \in DOMAIN v : v[i] = 0
AxisVector(v) == \A i, j \in DOMAIN v : v[i] # 0 /\ v[j] # 0 => i = j

\* Records are of one dimension, each that LSH tables exist for has one at least.
ASSUME IndexAssumption ==
    /\ IndexKinds \subseteq {"brute", "lsh", "hnsw"}
    /\ IndexKeys \subseteq Nat \ {0} /\ IndexIds \subseteq Nat
    /\ \A b \in IndexBatches :
          /\ b \in Seq([key : IndexKeys, id : IndexIds, emb : Seq(Int)])
          /\ \A i, j \in DOMAIN b :
                /\ AxisVector(b[i].emb) /\ Len(b[i].emb) = Len(b[j].emb)
                /\ b[i].emb # << >> => /\ Planes[Len(b[i].emb)] \in Seq(Seq(Seq(Int)))
                                       /\ DOMAIN Planes[Len(b[i].emb)] # {}
    /\ Queries \subseteq Seq(Int) /\ Limits \subseteq Nat
    /\ HammingRadius \in Nat /\ MinCandidates \in Nat \ {0} /\ CandidateMultiplier \in Nat \ {0}

VARIABLES index, crowded, answer

indexVars == <<index, crowded, answer>>

\* dim 0: no dimension yet; graph << >>: none.
EmptyIndex(kind) ==
    [kind |-> kind, entries |-> << >>, at |-> << >>, byKey |-> << >>, dim |-> 0,
     tables |-> << >>, graph |-> << >>, dirty |-> FALSE, next |-> 0]
NewIndex(kind) == [EmptyIndex(kind) EXCEPT !.dirty = (kind = "hnsw")]

Size(ix) == Len(ix.entries)
Mapped(f, x, y) == [z \in DOMAIN f \cup {x} |-> IF z = x THEN y ELSE f[z]]
Unmapped(f, x) == [z \in DOMAIN f \ {x} |-> f[z]]
AtMost(a, b) == IF a < b THEN a ELSE b
AtLeast(a, b) == IF a < b THEN b ELSE a

Sign(x) == IF x > 0 THEN 1 ELSE IF x < 0 THEN -1 ELSE 0
Unit(v) == [i \in DOMAIN v |-> Sign(v[i])]
PartialSums(v, w) ==
    LET sum[i \in 0..AtMost(Len(v), Len(w))] == IF i = 0 THEN 0 ELSE sum[i - 1] + v[i] * w[i]
    IN sum
Dot(v, w) == PartialSums(v, w)[AtMost(Len(v), Len(w))]

\* validate_dimension()
Fits(ix, v) == v # << >> /\ ix.dim \in {0, Len(v)}

-----------------------------------------------------------------------------
(* The LSH tables: bucket -> positions, in the order they came.            *)

Bucket(v, t) == {b \in DOMAIN Planes[Len(v)][t] : Dot(v, Planes[Len(v)][t][b]) >= 0}
Buckets(ix, v) == [t \in DOMAIN ix.tables |-> Bucket(v, t)]

\* initialize_tables_if_needed()
NoBuckets(dim) == [t \in DOMAIN Planes[dim] |-> [b \in SUBSET DOMAIN Planes[dim][t] |-> << >>]]
Opened(ix, dim) ==
    IF ix.dim # 0 THEN ix
    ELSE [ix EXCEPT !.dim = dim,
                    !.tables = IF ix.kind = "lsh" /\ @ = << >> THEN NoBuckets(dim) ELSE @]

Inserted(ix, p, v) ==
    LET b == Buckets(ix, v)
    IN [ix EXCEPT !.tables =
          [t \in DOMAIN b |-> [ix.tables[t] EXCEPT ![b[t]] = Append(@, p)]]]

Except(ps, p) == SelectAt(ps, {i \in DOMAIN ps : ps[i] # p})

TakenOut(ix, p, v) ==
    LET b == Buckets(ix, v)
    IN [ix EXCEPT !.tables = [t \in DOMAIN b |-> [ix.tables[t] EXCEPT ![b[t]] = Except(@, p)]]]

\* Faulty variant of Rebound: the tables keep the old position of the moved entry.
NotRebound(ix, old, p, v) == ix

Rebound(ix, old, p, v) ==
    LET b == Buckets(ix, v)
        moved(ps) == [i \in DOMAIN ps |-> IF ps[i] = old THEN p ELSE ps[i]]
    IN [ix EXCEPT !.tables =
          [t \in DOMAIN b |-> [ix.tables[t] EXCEPT ![b[t]] = moved(@)]]]

\* mark_dirty()
Touched(ix) == IF ix.kind = "hnsw" THEN [ix EXCEPT !.graph = << >>, !.dirty = TRUE] ELSE ix

-----------------------------------------------------------------------------
(* Changing the index.                                                     *)

EntryOf(r) == [key |-> r.key, id |-> r.id, emb |-> Unit(r.emb)]

\* A known key keeps its position; the id that was there loses its own.
Replaced(ix, r, p) ==
    LET old == ix.entries[p]
        moved == [ix EXCEPT !.entries[p] = EntryOf(r), !.at = Mapped(Unmapped(@, old.id), r.id, p)]
    IN Inserted(TakenOut(moved, p, old.emb), p, Unit(r.emb))

Pushed(ix, r) ==
    LET p == Size(ix) + 1
    IN Inserted([ix EXCEPT !.entries = Append(@, EntryOf(r)), !.at = Mapped(@, r.id, p),
                           !.byKey = Mapped(@, r.key, p)], p, Unit(r.emb))

PutRecord(ix, r) ==
    LET seen == [ix EXCEPT !.next = AtLeast(@, r.key + 1)]
    IN IF r.key \in DOMAIN ix.byKey THEN Replaced(seen, r, ix.byKey[r.key]) ELSE Pushed(seen, r)

\* The index after each of the records.
PutStages(ix, records) ==
    LET stage[n \in 0..Len(records)] ==
          IF n = 0 THEN Opened(ix, Len(records[1].emb)) ELSE PutRecord(stage[n - 1], records[n])
    IN stage

\* upsert_records(); on an error nothing has changed.
Accepted(ix, records) == records # << >> /\ \A i \in DOMAIN records : Fits(ix, records[i].emb)

PutRecords(ix, records) ==
    IF Accepted(ix, records) THEN Touched(PutStages(ix, records)[Len(records)]) ELSE ix

\* allocate_transient_key() for each id without a position; the keys given out are
\* spent even when the records are then refused.
Spent(ix) == [ix EXCEPT !.next = AtLeast(@, 1) + 1]
KeyFor(ix, id) == IF id \in DOMAIN ix.at THEN ix.entries[ix.at[id]].key ELSE AtLeast(ix.next, 1)

KeyStages(ix, records) ==
    LET stage[n \in 0..Len(records)] ==
          IF n = 0 THEN ix
          ELSE IF records[n].id \in DOMAIN ix.at THEN stage[n - 1] ELSE Spent(stage[n - 1])
    IN stage
Keyed(ix, records) ==
    [n \in DOMAIN records |->
       [records[n] EXCEPT !.key = KeyFor(KeyStages(ix, records)[n - 1], records[n].id)]]
Drained(ix, records) == KeyStages(ix, records)[Len(records)]
PutIds(ix, records) == PutRecords(Drained(ix, records), Keyed(ix, records))

\* reset(); the last entry's removal leaves the counter of transient keys.
Reset(ix) == EmptyIndex(ix.kind)
Emptied(ix) == [EmptyIndex(ix.kind) EXCEPT !.next = ix.next]

SwapRemoved(s, p) == SubSeq([s EXCEPT ![p] = Last(s)], 1, Len(s) - 1)

Without(ix, p) ==
    LET gone == ix.entries[p]
        last == Size(ix)
        moved == ix.entries[last]
        cut == [TakenOut(ix, p, gone.emb) EXCEPT
                   !.entries = SwapRemoved(@, p),
                   !.at = Unmapped(@, gone.id), !.byKey = Unmapped(@, gone.key)]
        refilled == [Rebound(cut, last, p, moved.emb) EXCEPT
                        !.at = Mapped(@, moved.id, p), !.byKey = Mapped(@, moved.key, p)]
    IN IF last = 1 THEN Emptied(ix) ELSE Touched(IF p = last THEN cut ELSE refilled)

Removed(ix, id) == IF id \in DOMAIN ix.at THEN Without(ix, ix.at[id]) ELSE ix

Exported(ix) == ix.entries
Imported(ix, records) == PutRecords(Reset(ix), records)

\* load_mmap_f32_sidecar(): the segments stay in the file until the first change.
MappedFile(records) ==
    LET IdAt(id) == {p \in DOMAIN records : records[p].id = id}
        KeyAt(key) == {p \in DOMAIN records : records[p].key = key}
    IN [EmptyIndex("brute") EXCEPT
          !.entries = [p \in DOMAIN records |-> EntryOf(records[p])],
          !.dim = IF records = << >> THEN 0 ELSE Len(records[1].emb),
          !.at = [id \in {records[p].id : p \in DOMAIN records} |-> Max(IdAt(id))],
          !.byKey = [k \in {records[p].key : p \in DOMAIN records} |-> Max(KeyAt(k))],
          !.next = Max({0} \cup {records[p].key : p \in DOMAIN records}) + 1]

-----------------------------------------------------------------------------
(* Queries.                                                                *)

Better(a, b) == a.score > b.score \/ (a.score = b.score /\ a.id < b.id)

HitOrder(hit, positions) ==
    {p \in positions \X positions :
       Better(hit[p[1]], hit[p[2]]) \/ (hit[p[1]] = hit[p[2]] /\ p[1] < p[2])}

\* The best n of the positions; vectors are the entries' own or the graph's copies.
Best(ix, vectors, q, n, positions) ==
    LET hit == [p \in positions |-> [id |-> ix.entries[p].id, score |-> Dot(vectors[p], q)]]
        sorted == Ordered(positions, HitOrder(hit, positions))
    IN [i \in 1..AtMost(n, Len(sorted)) |-> hit[sorted[i]]]

Own(ix) == [p \in 1..Size(ix) |-> ix.entries[p].emb]
AllowedPositions(ix, keys) == {ix.byKey[k] : k \in keys \cap DOMAIN ix.byKey}

\* insert_bucket_with_limit()
Collected(found, bucket, max) ==
    LET stage[n \in 0..Len(bucket)] ==
          IF n = 0 THEN found
          ELSE IF Cardinality(stage[n - 1]) >= max THEN stage[n - 1]
          ELSE stage[n - 1] \cup {bucket[n]}
    IN stage[Len(bucket)]

\* Bucket after bucket, until there are enough.
Gathered(found, buckets, enough, max) ==
    LET stage[n \in 0..Len(buckets)] ==
          IF n = 0 THEN found
          ELSE IF Cardinality(stage[n - 1]) >= enough THEN stage[n - 1]
          ELSE Collected(stage[n - 1], buckets[n], max)
    IN stage[Len(buckets)]

\* hamming_masks() for each table: one plane, then two planes, on the other side.
Mask(t, a, b) == [table |-> t, width |-> IF a = b THEN 1 ELSE 2, first |-> a, second |-> b]
MasksOf(t, planes) == {m \in {Mask(t, a, b) : a, b \in planes} : m.first <= m.second /\ m.width <= HammingRadius}
Masks(ix) == UNION {MasksOf(t, DOMAIN Planes[ix.dim][t]) : t \in DOMAIN ix.tables}

Sooner(m, o) ==
    \/ m.table < o.table
    \/ m.table = o.table /\ m.width < o.width
    \/ m.table = o.table /\ m.width = o.width /\ m.first < o.first
    \/ m.table = o.table /\ m.width = o.width /\ m.first = o.first /\ m.second < o.second
MaskOrder(masks) == {p \in masks \X masks : Sooner(p[1], p[2])}

Across(bucket, mask) == (bucket \ mask) \cup (mask \ bucket)

\* Own buckets first, then those of the masks.
OwnBuckets(ix, q) == [t \in DOMAIN ix.tables |-> ix.tables[t][Bucket(q, t)]]
NearBuckets(ix, q) ==
    LET masks == Ordered(Masks(ix), MaskOrder(Masks(ix)))
    IN [i \in DOMAIN masks |->
          LET m == masks[i]
          IN ix.tables[m.table][Across(Bucket(q, m.table), {m.first, m.second})]]

NearbyPositions(ix, q, n) ==
    LET target == AtLeast(n, MinCandidates)
        max == target * CandidateMultiplier
    IN Gathered(Gathered({}, OwnBuckets(ix, q), max, max), NearBuckets(ix, q), target, max)

\* Faulty variant of Candidates: the rest of the entries only helps when nothing was near.
CandidatesOrAll(ix, q, n) ==
    IF NearbyPositions(ix, q, n) = {} THEN 1..Size(ix) ELSE NearbyPositions(ix, q, n)

\* Too few are made up with all of the entries.
Candidates(ix, q, n) ==
    IF Cardinality(NearbyPositions(ix, q, n)) < n THEN 1..Size(ix) ELSE NearbyPositions(ix, q, n)

\* ensure_graph()
WithGraph(ix) ==
    IF ~ix.dirty /\ ix.graph # << >> THEN ix
    ELSE [ix EXCEPT !.graph = Own(ix), !.dirty = FALSE]

\* What the graph library may find: a neighbour without an entry is left out.
GraphFinds(ix, q, n, among) ==
    {Best(ix, ix.graph, q, n, found \cap DOMAIN ix.entries) :
       found \in {f \in SUBSET (DOMAIN ix.graph \cap among) : Cardinality(f) <= n}}

Scans(ix) == ix.kind = "hnsw" => Size(ix) <= ExactCrossover

ScansFiltered(ix, allowed) ==
    ix.kind = "hnsw" => \/ Size(ix) <= ExactCrossover
                        \/ Cardinality(allowed) <= FilteredCrossover
                        \/ 2 * Cardinality(allowed) >= Size(ix)

\* query(): the index afterwards and what it may answer.
Query(ix, q, n) ==
    IF n = 0 \/ Size(ix) = 0 THEN [ix |-> ix, answers |-> {<< >>}]
    ELSE IF ~Fits(ix, q) THEN [ix |-> ix, answers |-> {}]
    ELSE IF ~Scans(ix)
         THEN [ix |-> WithGraph(ix),
               answers |-> GraphFinds(WithGraph(ix), Unit(q), n, 1..MaxEntries)]
    ELSE [ix |-> ix,
          answers |-> {Best(ix, Own(ix), Unit(q), n,
                            IF ix.kind = "lsh" THEN Candidates(ix, Unit(q), n) ELSE 1..Size(ix))}]

FilteredByGraph(ix, q, n, allowed) ==
    [ix |-> WithGraph(ix), answers |-> GraphFinds(WithGraph(ix), Unit(q), n, allowed)]

\* query_filtered_positions(allowed_positions_for_keys())
QueryFiltered(ix, q, n, keys) ==
    LET allowed == AllowedPositions(ix, keys)
    IN IF n = 0 \/ Size(ix) = 0 \/ allowed = {} THEN [ix |-> ix, answers |-> {<< >>}]
       ELSE IF ~Fits(ix, q) THEN [ix |-> ix, answers |-> {}]
       ELSE IF ScansFiltered(ix, allowed)
            THEN [ix |-> ix, answers |-> {Best(ix, Own(ix), Unit(q), n, allowed)}]
       ELSE FilteredByGraph(ix, q, n, allowed)

-----------------------------------------------------------------------------
Crowds(ix) == \E p, o \in DOMAIN ix.entries : p # o /\ ix.entries[p].id = ix.entries[o].id

\* An id comes under two keys, if only between two records of a batch.
CrowdedBy(ix, records) ==
    /\ Accepted(ix, records)
    /\ \E n \in DOMAIN records : Crowds(PutStages(ix, records)[n])

Changes(new, crowds) == index' = new /\ crowded' = crowds /\ answer' = << >> /\ Size(new) <= MaxEntries

IndexInit ==
    /\ index \in {NewIndex(k) : k \in IndexKinds}
    /\ crowded = FALSE /\ answer = << >>

UpsertRecords ==
    \E records \in IndexBatches :
       Changes(PutRecords(index, records), crowded \/ CrowdedBy(index, records))

\* upsert() is upsert_batch() of one.
UpsertBatch ==
    \E records \in IndexBatches :
       /\ \A i \in DOMAIN records : Keyed(index, records)[i].key \in IndexKeys
       /\ Changes(PutIds(index, records),
                  crowded \/ CrowdedBy(Drained(index, records), Keyed(index, records)))

RemoveId == \E id \in IndexIds : Changes(Removed(index, id), crowded)

ResetIndex == Changes(Reset(index), FALSE)

ImportRecords ==
    \E records \in IndexBatches :
       Changes(Imported(index, records), CrowdedBy(Reset(index), records))

\* A segment file has the entries of an index that was filled with the records.
MapSegments ==
    /\ index.kind = "brute"
    /\ \E records \in IndexBatches :
          Changes(MappedFile(Exported(Imported(index, records))), CrowdedBy(Reset(index), records))

Answer(q, n, filtered, keys, result) ==
    /\ index' = result.ix /\ UNCHANGED crowded
    /\ \E hits \in result.answers :
          answer' = <<[q |-> Unit(q), n |-> n, filtered |-> filtered, keys |-> keys, hits |-> hits]>>

Ask ==
    \E q \in Queries, n \in Limits :
       \/ Answer(q, n, FALSE, {}, Query(index, q, n))
       \/ \E keys \in KeySets : Answer(q, n, TRUE, keys, QueryFiltered(index, q, n, keys))

IndexNext ==
    UpsertRecords \/ UpsertBatch \/ RemoveId \/ ResetIndex \/ ImportRecords \/ MapSegments \/ Ask

IndexSpec == IndexInit /\ [][IndexNext]_indexVars

-----------------------------------------------------------------------------
(***************************************************************************)
(* The structures agree, whatever sequence of insertions, replacements and *)
(* removals: keys and positions are one to one, an id leads to an entry of *)
(* that id (to every one, while no id has had two keys), each position is  *)
(* in its own bucket of every table and in no other, a graph in use holds  *)
(* the entries' vectors, and no new key can be one that is taken.          *)
(***************************************************************************)
IndexConsistent ==
    LET Positions == DOMAIN index.entries
        Ids == {index.entries[p].id : p \in Positions}
    IN /\ DOMAIN index.byKey = {index.entries[p].key : p \in Positions}
       /\ \A p \in Positions : index.byKey[index.entries[p].key] = p
       /\ \A id \in DOMAIN index.at : index.at[id] \in Positions /\ index.entries[index.at[id]].id = id
       /\ crowded \/ DOMAIN index.at = Ids
       /\ index.dim = 0 <=> Positions = {}
       /\ \A p \in Positions : Len(index.entries[p].emb) = index.dim
       /\ \A p \in Positions : index.entries[p].key < index.next
       /\ index.kind = "lsh" => (index.tables = << >> <=> Positions = {})
       /\ \A t \in DOMAIN index.tables : \A b \in DOMAIN index.tables[t] :
             /\ IsInjective(index.tables[t][b])
             /\ ToSet(index.tables[t][b]) =
                   {p \in Positions : Buckets(index, index.entries[p].emb)[t] = b}
       /\ index.graph = << >> \/ (~index.dirty /\ index.graph = Own(index))

(***************************************************************************)
(* The index implements SimilarityMap: the content is what was put and not *)
(* removed, and an answer consists of the best entries with their scores:  *)
(* all of the best for a scan, as many as there can be for the tables.     *)
(***************************************************************************)
IndexMap == INSTANCE SimilarityMap WITH
    Batches <- IndexBatches, Ids <- IndexIds, Keys <- IndexKeys,
    Score <- Dot, kind <- index.kind,
    content <- [k \in DOMAIN index.byKey |->
                  LET e == index.entries[index.byKey[k]] IN [id |-> e.id, emb |-> e.emb]]

AnswersAsPromised == IndexMap!Spec
=============================================================================
