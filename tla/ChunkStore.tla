----------------------------- MODULE ChunkStore -----------------------------
(***************************************************************************)
(* The chunk store of src/src/lib.rs: handles (SqlRite) on one database    *)
(* file, each with a vector index and a filter index in memory, and the    *)
(* sidecar file that keeps a vector index between handles.                 *)
(*                                                                         *)
(* A call of the API is a sequence of steps with other handles' steps in   *)
(* between: each SQL statement or transaction is a step, so is each of the *)
(* two halves of writing the sidecar (File::create, then the contents).    *)
(* todo is what is left of the call a handle is executing.  The index is   *)
(* the exact one (BruteForce), with less than 1024 embedded chunks.        *)
(***************************************************************************)
EXTENDS Naturals, Sequences, FiniteSets

CONSTANTS Chunk,      \* chunk ids
          Doc,        \* document ids
          Meta,       \* metadata of a chunk, its tenant and content hash among it
          Hashed,     \* the metadata that has a content hash
          Vector,     \* the values of an embedding
          Garbled,    \* the value of a slice that straddles two embeddings
          NoEmb,      \* the empty embedding of a text-only chunk
          Handle,     \* the handles on the file
          Configs,    \* ways the file is used
          Batches,    \* arguments of ingest_chunks()
          Texts,      \* arguments of ingest_text_chunks()
          Embeddings, \* arguments of update_chunk_embedding()
          MaxKey      \* bound on the rows ever inserted

Embedding == [dim : Nat \ {0}, vec : Vector \cup {Garbled}]
Input == [id : Chunk, doc : Doc, meta : Meta, emb : Embedding \cup {NoEmb}]
Row == [id : Chunk, key : Nat, doc : Doc, meta : Meta, emb : Embedding \cup {NoEmb}]
Entry == [key : Nat, id : Chunk, emb : Embedding]
FilterEntry == [key : Nat, id : Chunk, doc : Doc, meta : Meta]

\* persist: enable_ann_persistence; wal: enable_wal; shared: several handles at
\* a time; crashes: the process may be killed.
Config == [persist : BOOLEAN, wal : BOOLEAN, shared : BOOLEAN, crashes : BOOLEAN]

ASSUME DataAssumption ==
    /\ Hashed \subseteq Meta
    /\ Garbled \notin Vector
    /\ NoEmb \notin Embedding
    /\ Configs \subseteq Config
    /\ Batches \subseteq Seq([id : Chunk, doc : Doc, meta : Meta, emb : Embedding])
    /\ Texts \subseteq Seq([id : Chunk, doc : Doc, meta : Meta, emb : {NoEmb}])
    /\ Embeddings \subseteq Embedding
    /\ MaxKey \in Nat

VARIABLES config,
          rows,     \* table chunks
          docs,     \* the ids in table documents
          nextKey,  \* AUTOINCREMENT: the next rowid
          wal,      \* the write-ahead log holds pages that the file does not
          side,     \* the sidecar: its entries, and whether it was written to the end
          fresh,    \* it is not older than the database file
          handle,   \* each handle's state
          foreign   \* history: chunks that others changed since a handle read the table

vars == <<config, rows, docs, nextKey, wal, side, fresh, handle, foreign>>

Closed == [open |-> FALSE, index |-> {}, filter |-> {}, todo |-> << >>, arg |-> << >>]

Step == {"index", "filter", "metadata", "embed", "docrow", "prune", "rebuild", "refilter",
         "truncate", "write", "vacuum"}

TypeOK ==
    /\ config \in Configs
    /\ rows \subseteq Row
    /\ docs \subseteq Doc
    /\ nextKey \in 1..(MaxKey + 1)
    /\ wal \in BOOLEAN /\ fresh \in BOOLEAN
    /\ side \in [entries : SUBSET Entry, whole : BOOLEAN]
    /\ \A h \in Handle :
          /\ handle[h].open \in BOOLEAN
          /\ handle[h].index \subseteq Entry
          /\ handle[h].filter \subseteq FilterEntry
          /\ handle[h].todo \in Seq(Step)
          /\ foreign[h] \subseteq Chunk

Init ==
    /\ config \in Configs
    /\ rows = {} /\ docs = {} /\ nextKey = 1
    /\ wal = FALSE
    /\ side = [entries |-> {}, whole |-> FALSE] /\ fresh = FALSE
    /\ handle = [h \in Handle |-> Closed]
    /\ foreign = [h \in Handle |-> {}]

-----------------------------------------------------------------------------
(* The table.                                                              *)

StoredIds(t) == {r.id : r \in t}
RowOf(t, c) == CHOOSE r \in t : r.id = c

Inputs(batch) == {batch[i] : i \in 1..Len(batch)}
InputIds(batch) == {i.id : i \in Inputs(batch)}

\* The last input of a batch for an id is the one that stays.
LastInput(batch, c) ==
    batch[CHOOSE i \in 1..Len(batch) :
             batch[i].id = c /\ \A j \in (i + 1)..Len(batch) : batch[j].id # c]

FirstAt(batch, c) ==
    CHOOSE i \in 1..Len(batch) : batch[i].id = c /\ \A j \in 1..(i - 1) : batch[j].id # c

\* CHUNK_UPSERT_SQL: a stored id keeps its rowid, a new one gets the next.
KeyFor(t, k, batch, c) ==
    IF c \in StoredIds(t) THEN RowOf(t, c).key
    ELSE k + Cardinality({d \in InputIds(batch) \ StoredIds(t) : FirstAt(batch, d) < FirstAt(batch, c)})

Upserted(t, k, batch) ==
    {r \in t : r.id \notin InputIds(batch)}
    \cup {[id |-> c, key |-> KeyFor(t, k, batch, c), doc |-> LastInput(batch, c).doc,
           meta |-> LastInput(batch, c).meta, emb |-> LastInput(batch, c).emb] : c \in InputIds(batch)}

\* delete_content_hash_duplicates(): per document and content hash, the newest row stays.
Duplicates(t) ==
    {r \in t : r.meta \in Hashed /\ \E s \in t : s.doc = r.doc /\ s.meta = r.meta /\ s.key > r.key}

-----------------------------------------------------------------------------
(* The vector index: entries by chunk key, all of one dimension.           *)

Dimension(index) == IF index = {} THEN 0 ELSE (CHOOSE e \in index : TRUE).emb.dim

\* validate_ingest_chunks(): every embedding has the dimension of the index, or
\* of the first of the batch.
ValidBatch(index, batch) ==
    \E d \in {e.emb.dim : e \in Inputs(batch)} :
        /\ Dimension(index) \in {0, d}
        /\ \A i \in Inputs(batch) : i.emb.dim = d

\* upsert_records(): replaces the entry of the key, whatever its id.
PutEntries(index, new) == {e \in index : e.key \notin {n.key : n \in new}} \cup new

Embedded(t) == {r \in t : r.emb # NoEmb}

\* import or rebuild from the table, in the order of the rowids.  Embeddings of
\* another dimension than the first are not rejected (the index has none yet):
\* from the first of them on, the segments are out of step.
Image(t) ==
    LET first == CHOOSE r \in Embedded(t) : \A s \in Embedded(t) : r.key <= s.key
        inStep(r) == \A s \in Embedded(t) : s.key <= r.key => s.emb.dim = first.emb.dim
    IN  {[key |-> r.key, id |-> r.id,
          emb |-> IF inStep(r) THEN r.emb ELSE [dim |-> first.emb.dim, vec |-> Garbled]]
            : r \in Embedded(t)}

(* The filter index: key, document and metadata by chunk id.               *)

\* Faulty variant of FilterImage: two columns of the query are swapped.
FilterImageSwapped(t) == {[key |-> r.key, id |-> r.doc, doc |-> r.id, meta |-> r.meta] : r \in t}

FilterImage(t) == {[key |-> r.key, id |-> r.id, doc |-> r.doc, meta |-> r.meta] : r \in t}

\* Faulty variant of PutFilter: the old posting of the chunk stays.
AddFilter(filter, new) == filter \cup new

\* upsert_chunk(): the old entry of the id goes.
PutFilter(filter, new) == {f \in filter : f.id \notin {n.id : n \in new}} \cup new

(* Searches.  A request filters by document, by metadata or by both.       *)

Request ==
    {{<<"doc", d>>} : d \in Doc} \cup {{<<"meta", m>>} : m \in Meta}
    \cup {{<<"doc", d>>, <<"meta", m>>} : d \in Doc, m \in Meta}

Matches(entry, req) == \A p \in req : entry[p[1]] = p[2]

Matching(t, req) == {r \in t : Matches(r, req)}

\* filtered_chunk_keys(): SQL answers when the filter index knows nothing of a value.
FilteredKeys(h, req) ==
    IF \A p \in req : \E f \in handle[h].filter : f[p[1]] = p[2]
    THEN {f.key : f \in Matching(handle[h].filter, req)}
    ELSE {r.key : r \in Matching(rows, req)}

\* The chunks a vector search over everything the filter lets through returns:
\* from the vector index, or from the rows when it is empty; hydration drops
\* the chunks that are not stored.
Found(h, req) ==
    IF handle[h].index = {}
    THEN {r.id : r \in Embedded(Matching(rows, req))}
    ELSE {e.id : e \in {x \in handle[h].index : x.key \in FilteredKeys(h, req)}}
         \cap StoredIds(rows)

-----------------------------------------------------------------------------
(* Steps.                                                                  *)

Idle(h) == handle[h].open /\ handle[h].todo = << >>

\* Writing the sidecar, which is left out without persistence.
Save == IF config.persist THEN <<"truncate", "write">> ELSE << >>

Doing(h, step) == handle[h].open /\ handle[h].todo # << >> /\ Head(handle[h].todo) = step

\* A commit changes chunks cs: the other handles' indexes do not know of it, and
\* the file is younger than the sidecar unless the pages went to the log only.
Commits(h, cs) ==
    /\ foreign' = [g \in Handle |-> IF g = h \/ ~handle[g].open THEN foreign[g]
                                    ELSE foreign[g] \cup cs]
    /\ IF config.wal THEN wal' = TRUE /\ fresh' \in {fresh, FALSE}
                     ELSE wal' = wal /\ fresh' = FALSE

Starts(h, steps, arg) ==
    handle' = [handle EXCEPT ![h].todo = steps, ![h].arg = arg]

\* The argument is only looked at by the first step.
Continues(h) == handle' = [handle EXCEPT ![h].todo = Tail(@), ![h].arg = << >>]

\* from_connection_with_config(): the sidecar when it is there, whole and fresh,
\* else the table, and then the sidecar is written again.

\* Faulty variant of LoadsSidecar: the modification times are not compared.
LoadsAnySidecar == config.persist /\ side.whole

LoadsSidecar == config.persist /\ side.whole /\ fresh

Open(h) ==
    /\ ~handle[h].open
    /\ config.shared \/ \A g \in Handle : ~handle[g].open
    /\ handle' = [handle EXCEPT ![h] =
          [Closed EXCEPT !.open = TRUE,
              !.index = IF LoadsSidecar THEN side.entries ELSE Image(rows),
              !.todo = IF LoadsSidecar THEN <<"refilter">>
                       ELSE Save \o <<"refilter">>]]
    /\ foreign' = [foreign EXCEPT ![h] = {}]
    /\ UNCHANGED <<config, rows, docs, nextKey, wal, side, fresh>>

\* The last connection writes the log back to the file when it closes.
Close(h) ==
    /\ Idle(h)
    /\ handle' = [handle EXCEPT ![h] = Closed]
    /\ IF wal /\ \A g \in Handle \ {h} : ~handle[g].open
       THEN wal' = FALSE /\ fresh' = FALSE
       ELSE UNCHANGED <<wal, fresh>>
    /\ UNCHANGED <<config, rows, docs, nextKey, side, foreign>>

\* The transaction of an ingestion.
Upserts(h, batch) ==
    LET inserted == Cardinality(InputIds(batch) \ StoredIds(rows))
    IN  /\ nextKey + inserted <= MaxKey + 1
        /\ rows' = Upserted(rows, nextKey, batch)
        /\ docs' = docs \cup {i.doc : i \in Inputs(batch)}
        /\ nextKey' = nextKey + inserted
        /\ Commits(h, InputIds(batch))

\* ingest_chunks(): a batch with another dimension is refused.
Ingest(h, batch) ==
    /\ Idle(h)
    /\ ValidBatch(handle[h].index, batch)
    /\ Upserts(h, batch)
    /\ Starts(h, <<"index">> \o Save, batch)
    /\ UNCHANGED <<config, side>>

\* ingest_text_chunks(): the vector index is not told.
IngestText(h, batch) ==
    /\ Idle(h)
    /\ Upserts(h, batch)
    /\ Starts(h, <<"filter">>, batch)
    /\ UNCHANGED <<config, side>>

\* update_chunk_metadata(); no row of that id is no error.
UpdateMetadata(h, c, m) ==
    /\ Idle(h)
    /\ c \in StoredIds(rows)
    /\ rows' = {IF r.id = c THEN [r EXCEPT !.meta = m] ELSE r : r \in rows}
    /\ Commits(h, {c})
    /\ Starts(h, <<"metadata">>, <<[id |-> c, meta |-> m]>>)
    /\ UNCHANGED <<config, docs, nextKey, side>>

\* update_chunk_embedding(), up to the read of the chunk's key.
UpdateEmbedding(h, c, e) ==
    /\ Idle(h)
    /\ c \in StoredIds(rows)
    /\ Starts(h, <<"embed">>, <<[key |-> RowOf(rows, c).key, id |-> c, emb |-> e]>>)
    /\ UNCHANGED <<config, rows, docs, nextKey, wal, side, fresh, foreign>>

\* Faulty variant of Refresh: the vector index is not rebuilt.
RefreshFilterOnly == <<"refilter">> \o Save

\* A deletion is followed by what refreshes the indexes when it removed a row.
Refresh == <<"rebuild", "refilter">> \o Save

Deletes(h, gone, before, after, arg) ==
    /\ Idle(h)
    /\ rows' = rows \ gone
    /\ IF gone = {} THEN UNCHANGED <<wal, fresh, foreign>> ELSE Commits(h, StoredIds(gone))
    /\ Starts(h, before \o (IF gone = {} THEN << >> ELSE Refresh) \o after, arg)
    /\ UNCHANGED <<config, docs, nextKey, side>>

\* delete_by_doc_id(), delete_chunks_by_metadata() and compact() with its default options.
DeleteByDocId(h, d) == Deletes(h, {r \in rows : r.doc = d}, <<"docrow">>, << >>, <<d>>)
DeleteByMetadata(h, m) == Deletes(h, {r \in rows : r.meta = m}, << >>, << >>, << >>)
Compact(h) == Deletes(h, Duplicates(rows), <<"prune">>, <<"vacuum">>, << >>)

\* The keys of the batch are fetched, and the indexes are given its content.
\* A chunk that has been deleted since is left out.
FetchedKeys(arg) == {i \in {LastInput(arg, c) : c \in InputIds(arg)} : i.id \in StoredIds(rows)}

NewEntries(arg) ==
    {[key |-> RowOf(rows, i.id).key, id |-> i.id, emb |-> i.emb] : i \in FetchedKeys(arg)}
NewFilters(arg) ==
    {[key |-> RowOf(rows, i.id).key, id |-> i.id, doc |-> i.doc, meta |-> i.meta] : i \in FetchedKeys(arg)}

\* Only handle h changes, to one with these indexes, and its step is done.
Updates(h, index, filter) ==
    /\ handle' = [handle EXCEPT ![h] =
          [@ EXCEPT !.todo = Tail(handle[h].todo), !.arg = << >>, !.index = index, !.filter = filter]]
    /\ UNCHANGED <<config, rows, docs, nextKey, wal, side, fresh>>

IndexBatch(h) ==
    /\ Doing(h, "index")
    /\ Updates(h, PutEntries(handle[h].index, NewEntries(handle[h].arg)),
                  PutFilter(handle[h].filter, NewFilters(handle[h].arg)))
    /\ UNCHANGED foreign

FilterText(h) ==
    /\ Doing(h, "filter")
    /\ Updates(h, handle[h].index, PutFilter(handle[h].filter, NewFilters(handle[h].arg)))
    /\ UNCHANGED foreign

\* The row is read again for its key and document.
FilterMetadata(h) ==
    LET arg == handle[h].arg[1]
    IN  /\ Doing(h, "metadata")
        /\ Updates(h, handle[h].index,
              IF arg.id \in StoredIds(rows)
              THEN PutFilter(handle[h].filter,
                      {[key |-> RowOf(rows, arg.id).key, id |-> arg.id,
                        doc |-> RowOf(rows, arg.id).doc, meta |-> arg.meta]})
              ELSE handle[h].filter)
        /\ UNCHANGED foreign

\* The UPDATE, and then the index with the key that was read before it.  An
\* embedding of another dimension is an error of the index: the row has changed.
Embed(h) ==
    LET new == handle[h].arg[1]
    IN  /\ Doing(h, "embed")
        /\ rows' = {IF r.id = new.id THEN [r EXCEPT !.emb = new.emb] ELSE r : r \in rows}
        /\ IF new.id \in StoredIds(rows) THEN Commits(h, {new.id})
                                         ELSE UNCHANGED <<wal, fresh, foreign>>
        /\ handle' = [handle EXCEPT ![h] =
              IF Dimension(@.index) \in {0, new.emb.dim}
              THEN [@ EXCEPT !.index = PutEntries(handle[h].index, {new}), !.todo = Save,
                             !.arg = << >>]
              ELSE [@ EXCEPT !.todo = << >>, !.arg = << >>]]
        /\ UNCHANGED <<config, docs, nextKey, side>>

\* Faulty variant of Orphans: the chunks that refer to a document are not looked for.
OrphansUnchecked(among) == among

Orphans(among) == {d \in among : \A r \in rows : r.doc # d}

\* A document row goes, and the chunks that still refer to it (ON DELETE CASCADE).
DropDocs(h, gone) ==
    /\ docs' = docs \ gone
    /\ rows' = {r \in rows : r.doc \notin gone}
    /\ IF gone = {} THEN UNCHANGED <<wal, fresh, foreign>> ELSE Commits(h, {})
    /\ Continues(h)
    /\ UNCHANGED <<config, nextKey, side>>

DeleteDocumentRow(h) ==
    /\ Doing(h, "docrow")
    /\ DropDocs(h, Orphans({handle[h].arg[1]} \cap docs))

PruneDocuments(h) ==
    /\ Doing(h, "prune")
    /\ DropDocs(h, Orphans(docs))

RebuildVectorIndex(h) ==
    /\ Doing(h, "rebuild")
    /\ Updates(h, Image(rows), handle[h].filter)
    /\ foreign' = [foreign EXCEPT ![h] = {}]

RebuildFilterIndex(h) ==
    /\ Doing(h, "refilter")
    /\ Updates(h, handle[h].index, FilterImage(rows))
    /\ UNCHANGED foreign

\* save_exact_segment_snapshot(): File::create() empties the file, then it is
\* written; both make it the younger file.
TruncateSidecar(h) ==
    /\ Doing(h, "truncate")
    /\ side' = [entries |-> {}, whole |-> FALSE] /\ fresh' = TRUE
    /\ Continues(h)
    /\ UNCHANGED <<config, rows, docs, nextKey, wal, foreign>>

WriteSidecar(h) ==
    /\ Doing(h, "write")
    /\ side' = [entries |-> handle[h].index, whole |-> TRUE] /\ fresh' = TRUE
    /\ Continues(h)
    /\ UNCHANGED <<config, rows, docs, nextKey, wal, foreign>>

\* wal_checkpoint(TRUNCATE), then VACUUM.
Vacuum(h) ==
    /\ Doing(h, "vacuum")
    /\ wal' = config.wal
    /\ fresh' \in IF wal \/ ~config.wal THEN {FALSE} ELSE {fresh, FALSE}
    /\ Continues(h)
    /\ UNCHANGED <<config, rows, docs, nextKey, side, foreign>>

\* The process is killed; what is committed and the sidecar as it is remain.
Crash ==
    /\ config.crashes
    /\ \E h \in Handle : handle[h].open
    /\ handle' = [h \in Handle |-> Closed]
    /\ foreign' = [h \in Handle |-> {}]
    /\ UNCHANGED <<config, rows, docs, nextKey, wal, side, fresh>>

Next ==
    \/ Crash
    \/ \E h \in Handle :
          \/ Open(h) \/ Close(h)
          \/ \E batch \in Batches : Ingest(h, batch)
          \/ \E batch \in Texts : IngestText(h, batch)
          \/ \E c \in Chunk, m \in Meta : UpdateMetadata(h, c, m)
          \/ \E c \in Chunk, e \in Embeddings : UpdateEmbedding(h, c, e)
          \/ \E d \in Doc : DeleteByDocId(h, d)
          \/ \E m \in Meta : DeleteByMetadata(h, m)
          \/ Compact(h)
          \/ IndexBatch(h) \/ FilterText(h) \/ FilterMetadata(h) \/ Embed(h)
          \/ DeleteDocumentRow(h) \/ PruneDocuments(h)
          \/ RebuildVectorIndex(h) \/ RebuildFilterIndex(h)
          \/ TruncateSidecar(h) \/ WriteSidecar(h) \/ Vacuum(h)

Spec == Init /\ [][Next]_vars

-----------------------------------------------------------------------------
(* What the properties say.                                                *)

\* The index has exactly the entry of each embedded row, and nothing of a chunk
\* that is not stored, as far as chunks cs go.  (A text-only row may still have
\* the entry of the embedding it had.)
Mirrors(index, t, cs) ==
    \A c \in cs :
        /\ \A r \in Embedded(t) :
              r.id = c => {e \in index : e.id = c} = {[key |-> r.key, id |-> c, emb |-> r.emb]}
        /\ c \notin StoredIds(t) => \A e \in index : e.id # c

\* No call has failed on a dimension and left a row that the index cannot hold,
\* and the index was not built from a table with such a row.
OneDimension(index, t) ==
    /\ \A e \in index : e.emb.vec # Garbled
    /\ \A r \in Embedded(t) : Dimension(index) \in {0, r.emb.dim}
    /\ \A r, s \in Embedded(t) : r.emb.dim = s.emb.dim

Quiet == \A h \in Handle : handle[h].todo = << >>

\* Between calls, a handle's vector index mirrors the table: no update, deletion,
\* deduplication or re-insertion leaves an entry behind, loses one or files one
\* under the wrong key, except for chunks that other handles have changed.
VectorIndexFaithful ==
    \A h \in Handle :
        Idle(h) /\ OneDimension(handle[h].index, rows)
            => Mirrors(handle[h].index, rows, Chunk \ foreign[h])

\* A search filtered by document and metadata returns every embedded chunk that
\* matches now and no chunk that does not, whichever of the two indexes or the
\* table answers, chunks changed by other handles excepted.
FilteredSearchSound ==
    \A h \in Handle, req \in Request :
        Idle(h) /\ OneDimension(handle[h].index, rows)
            => LET own == {r \in rows : r.id \notin foreign[h]}
               IN  /\ StoredIds(Embedded(Matching(own, req))) \subseteq Found(h, req)
                   /\ Found(h, req) \subseteq StoredIds(Matching(own, req)) \cup foreign[h]

\* Removing documents that have no chunks never takes a chunk along, although
\* another handle may have ingested into the document since its chunks went.
OrphanRemovalKeepsChunks ==
    [][(\E h \in Handle : DeleteDocumentRow(h) \/ PruneDocuments(h)) => rows' = rows]_vars

\* A handle that is opened while no call is under way starts with an index that
\* mirrors the table, whether it reads the table or trusts a sidecar that an
\* earlier, perhaps killed, process has left.
OpenSeesRows ==
    [][\A h \in Handle :
          Open(h) /\ Quiet /\ OneDimension(handle'[h].index, rows)
              => Mirrors(handle'[h].index, rows, Chunk)]_vars

\* "mixed dimensions should fail in indexed mode": the embedded rows have one
\* dimension as long as a single handle, whose index would reject another, is used.
IndexModeOneDimension == \A r, s \in Embedded(rows) : r.emb.dim = s.emb.dim
=============================================================================
