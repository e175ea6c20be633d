------------------------------- MODULE Search -------------------------------
(***************************************************************************)
(* A search of src/src/lib.rs, from the request to the ranked results: a   *)
(* plan is chosen, candidates come from the vector index of the handle and *)
(* from SQL statements, are merged, scored, fused and given their payload. *)
(* Every statement reads the table as it is then: others write in between. *)
(*                                                                         *)
(* Scores are integers: 60 is a similarity of 1, and ranks and weights are *)
(* such that the fused scores compare as the program's do.  doc_id and     *)
(* metadata filters are one filter on a row's group.                       *)
(***************************************************************************)
EXTENDS VectorIndex

CONSTANTS SearchTables,   \* tables to start from: sets of rows [key, id, group, text, vec]
          KeysGiven,      \* sqlite_sequence at the start
          SearchEdits,    \* rows others write, without their key
          Requests, Setups,
          Rank,           \* text -> its rank for the query, 0: no match
          Overlap,        \* text -> lexical_overlap_score()
          Groups, AnyGroup,   \* what a filter may ask for, and no filter
          Tuning,         \* the factors and floors of the candidate limits
          MaxSearchWrites

Profiles == {"latency", "balanced", "recall"}
SearchRequest ==
    [text : BOOLEAN, vec : Seq(Int), k : Nat, limit : Nat, alpha : Int, payloads : BOOLEAN,
     filter : Groups \cup {AnyGroup}, fusion : {"weighted", "rrf"}, profile : Profiles, constant : Nat]

TypedRow(row) == row.id \in Nat /\ row.text \in DOMAIN Rank /\ row.vec \in Seq(Int)

\* Rowids and ids each tell the rows of a table apart.
UniqueRows(table) == \A a, b \in table : a.key = b.key \/ a.id = b.id => a = b

Shares == [factor : [Profiles -> Nat], floor : Nat]

ASSUME SearchAssumption ==
    /\ KeysGiven \in Nat
    /\ \A table \in SearchTables :
          /\ IsFiniteSet(table) /\ UniqueRows(table)
          /\ \A row \in table : TypedRow(row) /\ row.key \in 1..KeysGiven
    /\ \A edit \in SearchEdits : TypedRow(edit) /\ edit.gone \in BOOLEAN
    /\ Requests \subseteq SearchRequest
    /\ Rank \in [DOMAIN Rank -> Nat] /\ Overlap \in [DOMAIN Rank -> Nat]
    /\ Tuning \in [latency : [factor : Nat, floor : Nat], recall : [factor : Nat, floor : Nat],
                   primary : Shares, secondary : Shares,
                   rerank : [first : [Profiles -> Nat], balanced : [Profiles -> Nat]], skip : Nat]

VARIABLES rows,      \* table chunks
          lastKey,   \* sqlite_sequence: AUTOINCREMENT gives no key twice
          indexed,   \* what the handle's own index and filter index hold
          setup,     \* fts: fts_enabled; index: a vector index is configured
          search,
          seen,      \* history: the tables since the search began, and indexed
          writes     \* bound

searchVars == <<rows, lastKey, indexed, setup, search, seen, writes>>

Idle == [phase |-> "idle"]

SearchInit ==
    /\ rows \in SearchTables /\ indexed = rows /\ lastKey = KeysGiven
    /\ setup \in Setups
    /\ search = Idle /\ seen = {} /\ writes = 0

-----------------------------------------------------------------------------
(* The plan.                                                               *)

Between(low, x, high) == AtLeast(low, AtMost(x, high))

\* resolve_query_profile()
Resolved(r) ==
    CASE r.profile = "latency" ->
            [r EXCEPT !.limit = Between(r.k, @, AtLeast(r.k * Tuning.latency.factor, Tuning.latency.floor))]
      [] r.profile = "recall" ->
            [r EXCEPT !.limit = AtLeast(@, AtLeast(r.k * Tuning.recall.factor, Tuning.recall.floor))]
      [] OTHER -> r

ValidRequest(r) ==
    /\ r.text \/ r.vec # << >>
    /\ r.k > 0 /\ r.limit >= r.k
    /\ r.alpha \in 0..100
    /\ r.fusion = "rrf" => r.constant > 0

\* select_hybrid_planner_mode(); alpha in hundredths.
PlanOf(r) ==
    IF ~r.text \/ r.vec = << >> THEN "none"
    ELSE IF ~setup.fts THEN "vectorFirst"
    ELSE IF ~setup.index THEN "textFirst"
    ELSE IF r.alpha >= 60 \/ r.profile = "latency" THEN "vectorFirst"
    ELSE IF r.alpha <= 35 THEN "textFirst"
    ELSE "balanced"

\* hybrid_primary_candidate_limit(), hybrid_secondary_candidate_limit()
Share(r, plan, t) ==
    IF plan \in {"balanced", "none"} THEN r.limit
    ELSE Between(r.k, AtLeast(r.k * t.factor[r.profile], t.floor), r.limit)

RerankLimit(r, plan) ==
    AtMost(AtLeast(r.k * Tuning.rerank[IF plan = "balanced" THEN "balanced" ELSE "first"][r.profile],
                   r.k), r.limit)

-----------------------------------------------------------------------------
(* The candidates.                                                         *)

Matches(r, row) == r.filter \in {AnyGroup, row.group}
Filtered(r, table) == {row \in table : Matches(r, row)}
First(n, s) == SubSeq(s, 1, AtMost(n, Len(s)))
IdSeq(s) == [i \in DOMAIN s |-> s[i].id]

Similarity(q, v) == 60 * Dot(Unit(q), Unit(v))

ScoreOrder(hits) == {p \in hits \X hits : Better(p[1], p[2])}

\* The rows with an embedding of the query's dimension, the most similar first.
BySimilarity(r, table, n) ==
    LET hits == {[id |-> row.id, score |-> Similarity(r.vec, row.vec)] :
                   row \in {o \in table : Len(o.vec) = Len(r.vec)}}
    IN First(n, Ordered(hits, ScoreOrder(hits)))

\* filtered_chunk_keys(): the filter index, or SQL for a value it has never seen.
AllowedKeys(r) ==
    {row.key : row \in IF Filtered(r, indexed) # {} THEN Filtered(r, indexed) ELSE Filtered(r, rows)}

\* vector_candidates(): the exact index when it has the query's dimension, else the table.
VectorCandidates(r, n) ==
    LET entries == {row \in indexed : row.vec # << >>}
        fits == setup.index /\ \E e \in entries : Len(e.vec) = Len(r.vec)
        allowed == {e \in entries : r.filter = AnyGroup \/ e.key \in AllowedKeys(r)}
    IN IF fits THEN BySimilarity(r, allowed, n) ELSE BySimilarity(r, Filtered(r, rows), n)

\* chunks_fts: triggers keep it with the table.
TextIndex == rows

\* build_fts_match_query(): any word of the query.
TextHits(table) == {row \in table : Rank[row.text] # 0}
TextOrder(hits) ==
    {p \in hits \X hits : \/ Rank[p[1].text] < Rank[p[2].text]
                          \/ Rank[p[1].text] = Rank[p[2].text] /\ p[1].id < p[2].id}

\* Faulty variant of TextCandidates: the statement has lost its filter clauses.
TextOfAny(r, n) ==
    LET hits == TextHits(TextIndex) IN First(n, Ordered(hits, TextOrder(hits)))

\* fts_text_candidates()
TextCandidates(r, n) ==
    LET hits == TextHits(Filtered(r, TextIndex)) IN First(n, Ordered(hits, TextOrder(hits)))

\* 1 / (1 + rank - best rank) for the rows of one statement.
TextScores(hits) ==
    LET best == CHOOSE n \in {Rank[h.text] : h \in hits} : \A h \in hits : n <= Rank[h.text]
    IN [id \in {h.id : h \in hits} |->
          60 \div (1 + Rank[(CHOOSE h \in hits : h.id = id).text] - best)]

\* The first n of both, each once.
Merged(first, second, n) ==
    LET both == first \o second
    IN First(n, SelectAt(both, {i \in DOMAIN both : \A j \in 1..(i - 1) : both[j] # both[i]}))

\* fetch_candidate_chunk_ids(): the newest first.
NewestOrder(hits) == {p \in hits \X hits : p[1].key > p[2].key}
Newest(r) ==
    LET hits == Filtered(r, rows) IN First(r.limit, IdSeq(Ordered(hits, NewestOrder(hits))))

-----------------------------------------------------------------------------
(* Scores.                                                                 *)

Position(scored, score, e) ==
    1 + Cardinality({o \in scored : o[score] > e[score] \/ (o[score] = e[score] /\ o.id < e.id)})

\* compute_hybrid_scores()
Fused(r, scored, e) ==
    IF r.vec = << >> THEN 100 * e.text
    ELSE IF r.fusion = "weighted" THEN r.alpha * e.vector + (100 - r.alpha) * e.text
    ELSE 6000 \div (r.constant + Position(scored, "vector", e))
         + 6000 \div (r.constant + Position(scored, "text", e))

Above(a, b) ==
    \/ a.hybrid > b.hybrid
    \/ a.hybrid = b.hybrid /\ a.vector > b.vector
    \/ a.hybrid = b.hybrid /\ a.vector = b.vector /\ a.text > b.text
    \/ a.hybrid = b.hybrid /\ a.vector = b.vector /\ a.text = b.text /\ a.id < b.id

Result(id, vector, text, hybrid) == [id |-> id, vector |-> vector, text |-> text, hybrid |-> hybrid]

ResultOrder(found) == {p \in found \X found : Above(p[1], p[2])}
RankedResults(r, scored, n) ==
    LET found == {Result(e.id, e.vector, e.text, Fused(r, scored, e)) : e \in scored}
    IN First(n, Ordered(found, ResultOrder(found)))

Overriding(f, g) == [x \in DOMAIN f \cup DOMAIN g |-> IF x \in DOMAIN f THEN f[x] ELSE g[x]]
ValueAt(f, x) == IF x \in DOMAIN f THEN f[x] ELSE 0

\* select_hybrid_rerank_ids()
Reranked(r, s, ids) ==
    LET n == RerankLimit(r, s.plan)
        provisional == {[id |-> id, vector |-> ValueAt(s.vectorScores, id),
                         text |-> ValueAt(s.textScores, id)] : id \in ToSet(ids)}
    IN IF r.vec = << >> \/ Len(ids) <= n THEN ids ELSE IdSeq(RankedResults(r, provisional, n))

-----------------------------------------------------------------------------
(* The statements of a search, in their order.                             *)

ScoresOf(hits) == [id \in {hits[i].id : i \in DOMAIN hits} |->
                     hits[CHOOSE i \in DOMAIN hits : hits[i].id = id].score]
Reading == UNCHANGED <<rows, lastKey, indexed, setup, seen, writes>>
Goes(s) == search' = s /\ Reading

BeginSearch ==
    /\ search.phase \in {"idle", "done"}
    /\ \E request \in Requests :
          LET r == Resolved(request)
          IN search' = IF ~ValidRequest(r) THEN Idle
                       ELSE [phase |-> "vector", req |-> r, plan |-> PlanOf(r), vectors |-> << >>,
                             vectorScores |-> << >>, texts |-> << >>, textScores |-> << >>,
                             ids |-> << >>, contents |-> << >>, results |-> << >>, quiet |-> indexed = rows]
    /\ seen' = {rows, indexed}
    /\ UNCHANGED <<rows, lastKey, indexed, setup, writes>>

WithVectors(s, hits, next) ==
    [s EXCEPT !.vectors = IdSeq(hits), !.vectorScores = ScoresOf(hits), !.phase = next]

\* Without a text the vector candidates are the results.
SearchVectors ==
    /\ search.phase = "vector"
    /\ LET r == search.req
           only == VectorCandidates(r, r.k)
       IN Goes(CASE ~r.text ->
                       [search EXCEPT !.phase = "payload",
                          !.results = [i \in DOMAIN only |->
                                         Result(only[i].id, only[i].score, 0, 100 * only[i].score)]]
                 [] r.text /\ (r.vec = << >> \/ search.plan = "textFirst") -> [search EXCEPT !.phase = "text"]
                 [] OTHER -> WithVectors(search, VectorCandidates(r, Share(r, search.plan, Tuning.primary)),
                                         "text"))

NeedsText(s) ==
    CASE s.plan = "vectorFirst" -> Len(s.vectors) < s.req.k
      [] s.plan = "textFirst" -> TRUE
      [] OTHER -> s.req.vec = << >> \/ Len(s.vectors) < s.req.limit

\* An error of the text index counts as no match.
SearchText ==
    /\ search.phase = "text"
    /\ LET r == search.req
           hits == TextCandidates(r, Share(r, search.plan, Tuning.primary))
           keeps == (r.vec = << >> \/ search.plan = "textFirst") /\ hits # << >>
           next == [search EXCEPT !.phase = IF search.plan = "textFirst" THEN "similar" ELSE "merge"]
       IN \/ setup.fts /\ NeedsText(search)
             /\ Goes([next EXCEPT !.texts = IdSeq(hits),
                        !.textScores = IF keeps THEN TextScores(ToSet(hits)) ELSE << >>])
          \/ ~(setup.fts /\ NeedsText(search)) /\ Goes(next)
          \/ setup.fts /\ NeedsText(search) /\ Goes([next EXCEPT !.quiet = FALSE])

SearchSimilar ==
    /\ search.phase = "similar"
    /\ LET r == search.req
       IN Goes(WithVectors(search, VectorCandidates(r, Share(r, "textFirst", Tuning.secondary)), "merge"))

Backfills(s, ids) == ids = << >> \/ (s.plan \in {"none", "balanced"} /\ Len(ids) < s.req.limit)

SearchMerge ==
    /\ search.phase = "merge"
    /\ LET s == search
           ids == IF s.plan = "textFirst" THEN Merged(s.texts, s.vectors, s.req.limit)
                  ELSE Merged(s.vectors, s.texts, s.req.limit)
           all == IF Backfills(s, ids) THEN Merged(ids, Newest(s.req), s.req.limit) ELSE ids
       IN Goes([s EXCEPT !.phase = "scores", !.ids = Reranked(s.req, s, all)])

\* Faulty variant of SkipsTextScores: however few candidates have a vector score.
SkipsWhenMany(s) == s.req.vec # << >> /\ s.req.limit >= Tuning.skip

\* should_skip_fts_score_lookup()
SkipsTextScores(s) ==
    s.req.vec # << >> /\ s.req.limit >= Tuning.skip /\ Len(s.vectors) >= s.req.limit

\* fts_text_scores_for_ids() for those without a score; an error again counts as none.
SearchScores ==
    /\ search.phase = "scores"
    /\ LET s == search
           missing == ToSet(s.ids) \ DOMAIN s.textScores
           hits == TextHits({row \in TextIndex : row.id \in missing})
           next == [s EXCEPT !.phase = "contents"]
       IN IF ~setup.fts \/ missing = {} \/ SkipsTextScores(s) \/ hits = {} THEN Goes(next)
          ELSE \/ Goes([next EXCEPT !.textScores = Overriding(TextScores(hits), s.textScores)])
               \/ Goes([next EXCEPT !.quiet = FALSE])

RowsById(ids) ==
    [id \in {row.id : row \in rows} \cap ids |-> CHOOSE row \in rows : row.id = id]

\* fetch_chunk_contents_by_ids(), for the overlap with the query
OverlapsOf(ids) == [id \in DOMAIN RowsById(ids) |-> Overlap[RowsById(ids)[id].text]]

\* fetch_chunk_embeddings_by_ids()
EmbeddingsOf(ids) == [id \in DOMAIN RowsById(ids) |-> RowsById(ids)[id].vec]

\* The contents of those that have no text score.
SearchContents ==
    /\ search.phase = "contents"
    /\ Goes([search EXCEPT !.phase = "embeddings",
                !.contents = OverlapsOf(ToSet(search.ids) \ DOMAIN search.textScores)])

\* The embeddings of those that have no vector score; then all are scored.
SearchEmbeddings ==
    /\ search.phase = "embeddings"
    /\ LET r == search.req
           fetched == EmbeddingsOf(ToSet(search.ids) \ DOMAIN search.vectorScores)
           vector(id) == IF r.vec = << >> THEN 0
                         ELSE IF id \in DOMAIN search.vectorScores THEN search.vectorScores[id]
                         ELSE IF id \in DOMAIN fetched /\ Len(fetched[id]) = Len(r.vec)
                              THEN Similarity(r.vec, fetched[id])
                         ELSE 0
           text(id) == IF id \in DOMAIN search.textScores THEN search.textScores[id]
                       ELSE ValueAt(search.contents, id)
           scored == {[id |-> id, vector |-> vector(id), text |-> text(id)] : id \in ToSet(search.ids)}
       IN Goes([search EXCEPT !.phase = "payload", !.results = RankedResults(r, scored, r.k)])

\* hydrate_search_result_payloads(): a chunk that is gone is left out.
SearchPayload ==
    /\ search.phase = "payload"
    /\ Goes([search EXCEPT !.phase = "done",
               !.results = IF search.req.payloads
                           THEN SelectAt(@, {i \in DOMAIN @ : @[i].id \in {row.id : row \in rows}}) ELSE @])

\* Another handle inserts, replaces or deletes a row.
SearchWrite ==
    /\ writes < MaxSearchWrites /\ writes' = writes + 1
    /\ \E edit \in SearchEdits :
          LET old == {row \in rows : row.id = edit.id}
              key == IF old = {} THEN lastKey + 1 ELSE (CHOOSE row \in old : TRUE).key
              new == [key |-> key, id |-> edit.id, group |-> edit.group, text |-> edit.text,
                      vec |-> edit.vec]
          IN /\ rows' = (rows \ old) \cup (IF edit.gone THEN {} ELSE {new})
             /\ lastKey' = IF old = {} /\ ~edit.gone THEN key ELSE lastKey
    /\ seen' = seen \cup {rows'}
    /\ search' = IF search = Idle THEN search ELSE [search EXCEPT !.quiet = FALSE]
    /\ UNCHANGED <<indexed, setup>>

SearchNext ==
    \/ BeginSearch \/ SearchVectors \/ SearchText \/ SearchSimilar \/ SearchMerge \/ SearchScores
    \/ SearchContents \/ SearchEmbeddings \/ SearchPayload \/ SearchWrite

SearchSpec == SearchInit /\ [][SearchNext]_searchVars

-----------------------------------------------------------------------------
(***************************************************************************)
(* Whatever plan is taken and whatever others write between the            *)
(* statements, a search returns no more than top_k chunks, none twice, in  *)
(* the order of their scores, and each of them was there and satisfied the *)
(* filter at some time during the search or when the handle last indexed.  *)
(***************************************************************************)
SearchSound ==
    search.phase = "done" =>
       LET found == search.results
       IN /\ Len(found) <= search.req.k
          /\ IsInjective(IdSeq(found))
          /\ \A i \in 1..(Len(found) - 1) : Above(found[i], found[i + 1])
          /\ \A i \in DOMAIN found : \E table \in seen : \E row \in table :
                row.id = found[i].id /\ Matches(search.req, row)

\* The ranking of every row that satisfies the filter.
Exhaustive(r, table) ==
    LET hits == TextHits(table)
        fts == IF setup.fts /\ hits # {} THEN TextScores(hits) ELSE << >>
        scored == {[id |-> row.id,
                    vector |-> IF r.vec # << >> /\ Len(row.vec) = Len(r.vec)
                               THEN Similarity(r.vec, row.vec) ELSE 0,
                    text |-> IF row.id \in DOMAIN fts THEN fts[row.id] ELSE Overlap[row.text]] :
                     row \in table}
    IN RankedResults(r, scored, r.k)

(***************************************************************************)
(* With room for every row among the candidates, with nobody writing and   *)
(* the text index working, a search returns what ranking every row that    *)
(* satisfies the filter would: vectors by themselves, texts by themselves, *)
(* and the balanced plan, whose rows come from three sources and whose     *)
(* scores from four statements.                                            *)
(***************************************************************************)
RoomySearchIsExhaustive ==
    search.phase = "done" /\ search.quiet =>
       LET r == search.req
           matching == Filtered(r, rows)
       IN /\ ~r.text => [i \in DOMAIN search.results |-> search.results[i].id]
                            = IdSeq(BySimilarity(r, matching, r.k))
          /\ /\ search.plan \in {"none", "balanced"} /\ r.text
             /\ r.limit > Cardinality(rows)
             /\ search.plan = "balanced" => RerankLimit(r, search.plan) >= Cardinality(rows)
             => search.results = Exhaustive(r, matching)
=============================================================================
