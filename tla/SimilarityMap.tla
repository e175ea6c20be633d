--------------------------- MODULE SimilarityMap ---------------------------
(***************************************************************************)
(* What a vector index promises, whatever its structures: a map from keys  *)
(* to an id and an embedding, and answers that are the best of its own     *)
(* entries with their own scores.  VectorIndex implements it.              *)
(***************************************************************************)
EXTENDS Integers, Sequences

CONSTANTS Batches, Ids, Keys,
          Score(_, _),  \* of a query and an embedding
          Unit(_)       \* the embedding as it is kept

VARIABLES kind,     \* "brute", "lsh" or "hnsw"
          content,  \* key -> [id, emb]
          crowded,  \* an id has been under two keys at a time
          answer    \* << >>, or the last query and what it found

mapVars == <<kind, content, crowded, answer>>

Init == content = << >> /\ crowded = FALSE /\ answer = << >>

IdsOf(c) == {c[k].id : k \in DOMAIN c}
Distinct(c) == \A k, l \in DOMAIN c : c[k].id = c[l].id => k = l

PutOne(m, r) ==
    LET c == [k \in DOMAIN m.content \cup {r.key} |->
                IF k = r.key THEN [id |-> r.id, emb |-> Unit(r.emb)] ELSE m.content[k]]
    IN [content |-> c, crowded |-> m.crowded \/ ~Distinct(c)]

\* The map after each of the records.
PutStages(m, records) ==
    LET stage[n \in 0..Len(records)] == IF n = 0 THEN m ELSE PutOne(stage[n - 1], records[n])
    IN stage

\* Records are taken in together, or refused together when one is of another dimension.
Fits(c, v) == v # << >> /\ \A k \in DOMAIN c : Len(c[k].emb) = Len(v)
PutAll(m, records) ==
    IF \A i \in DOMAIN records : Fits(m.content, records[i].emb)
    THEN PutStages(m, records)[Len(records)] ELSE m

Becomes(m) == content' = m.content /\ crowded' = m.crowded
Current == [content |-> content, crowded |-> crowded]
Empty == [content |-> << >>, crowded |-> FALSE]

Put == \E records \in Batches : Becomes(PutAll(Current, records))
Refill == \E records \in Batches : Becomes(PutAll(Empty, records))
Clear == Becomes(Empty)

\* An id keeps its key, a new one gets a key of its own.
PutIds ==
    \E records \in Batches : \E keys \in [DOMAIN records -> Keys] :
       /\ \A i \in DOMAIN records :
             IF keys[i] \in DOMAIN content THEN content[keys[i]].id = records[i].id
             ELSE crowded \/ records[i].id \notin IdsOf(content)
       /\ \A i, j \in DOMAIN records : keys[i] = keys[j] => records[i].id = records[j].id
       /\ Becomes(PutAll(Current, [i \in DOMAIN records |-> [records[i] EXCEPT !.key = keys[i]]]))

\* An id under one key goes; of an id that has been under two, one of them or none.
Drop ==
    \E id \in Ids :
       LET holders == {k \in DOMAIN content : content[k].id = id}
           without(k) == [l \in DOMAIN content \ {k} |-> content[l]]
       IN /\ crowded' = crowded
          /\ \/ \E k \in holders : content' = without(k)
             \/ (holders = {} \/ crowded) /\ content' = content

-----------------------------------------------------------------------------
Hits(q, keys) == [k \in keys |-> [id |-> content[k].id, score |-> Score(q, content[k].emb)]]
Better(a, b) == a.score > b.score \/ (a.score = b.score /\ a.id < b.id)
Ranked(hits) == \A i \in 1..(Len(hits) - 1) : ~Better(hits[i + 1], hits[i])

\* Entries of different keys, in order, and where it is said the best, and as many as asked for.
Promised(hits, q, n, keys, exact) ==
    LET h == Hits(q, keys)
    IN /\ Ranked(hits) /\ Len(hits) <= n
       /\ \E of \in [1..Len(hits) -> keys] :
             LET left == keys \ {of[i] : i \in 1..Len(hits)}
             IN /\ \A i, j \in 1..Len(hits) : of[i] = of[j] => i = j
                /\ \A i \in 1..Len(hits) : hits[i] = h[of[i]]
                /\ exact \/ kind = "lsh" => Len(hits) = n \/ left = {}
                /\ exact => \A i \in 1..Len(hits), l \in left : ~Better(h[l], hits[i])

Ask ==
    /\ UNCHANGED <<content, crowded>>
    /\ answer' # << >>
    /\ LET a == answer'[1]
       IN IF a.filtered THEN Promised(a.hits, a.q, a.n, DOMAIN content \cap a.keys, kind # "hnsw")
          ELSE Promised(a.hits, a.q, a.n, DOMAIN content, kind = "brute")

Next ==
    /\ kind' = kind
    /\ \/ answer' = << >> /\ (Put \/ Refill \/ PutIds \/ Drop \/ Clear)
       \/ Ask

Spec == Init /\ [][Next]_mapVars
=============================================================================
