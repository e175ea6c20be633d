------------------------------ MODULE Migration ------------------------------
(***************************************************************************)
(* migrate_sqlite, migrate_pgvector_jsonl and migrate_api_jsonl            *)
(* (migrate.rs): a foreign export is read whole, its documents are         *)
(* upserted in one transaction and its chunks in batches, each its own     *)
(* transaction.  A batch with an embedding of another dimension fails, and *)
(* leaves what earlier batches stored; the migration is then run again, on *)
(* the same export or a repaired one.                                      *)
(*                                                                         *)
(* An export is a sequence of chunk records and a sequence of documents;   *)
(* the documents of the line formats are those of the first record that    *)
(* names them.                                                             *)
(***************************************************************************)
EXTENDS Naturals, Sequences, Selection

CONSTANTS
    Exports,        \* [kind, chunks, documents]
    MigrationBatch,
    NoSource,
    MaxMigrations

IsList(s) == s \in Seq({s[i] : i \in DOMAIN s})

ASSUME MigrationAssumption ==
    /\ MigrationBatch \in Nat \ {0}
    /\ \A e \in Exports : IsList(e.chunks) /\ IsList(e.documents)

VARIABLES
    export,         \* the export of the run
    destination,    \* the tables: [docs : id -> [src, meta], chunks : id -> [doc, text]]
    dimension,      \* of the destination's vector index, 0 while it is empty
    migration,      \* the run: phase and the chunks stored so far
    migrations

migrationVars == <<export, destination, dimension, migration, migrations>>

Override(f, key, value) ==
    [k \in DOMAIN f \cup {key} |-> IF k = key THEN value ELSE f[k]]

\* entry(doc_id).or_insert_with(): the first record of a document describes it.
FirstOfDoc(chunks) ==
    SelectAt(chunks, {i \in DOMAIN chunks : \A j \in 1..(i - 1) : chunks[j].doc # chunks[i].doc})

DocumentOf(record) ==
    [id |-> record.doc,
     src |-> IF record.docSrc = NoSource THEN record.src ELSE record.docSrc,
     meta |-> record.docMeta]

DocumentsOf(e) ==
    IF e.kind = "sqlite" THEN e.documents
    ELSE LET firsts == FirstOfDoc(e.chunks)
         IN  [i \in DOMAIN firsts |-> DocumentOf(firsts[i])]

\* ON CONFLICT ... source = COALESCE(excluded.source, documents.source)
SourceOver(docs, doc, src) ==
    IF src = NoSource /\ doc \in DOMAIN docs THEN docs[doc].src ELSE src

UpsertDocument(docs, d) ==
    Override(docs, d.id, [src |-> SourceOver(docs, d.id, d.src), meta |-> d.meta])

\* The document side of ingest_chunks(): a new one has no metadata, an old one keeps its own.
TouchDocument(docs, r) ==
    Override(docs, r.doc,
             [src |-> SourceOver(docs, r.doc, r.src),
              meta |-> IF r.doc \in DOMAIN docs THEN docs[r.doc].meta ELSE "{}"])

ChunkOf(r) == [doc |-> r.doc, text |-> r.text]

IngestRecord(t, r) == [docs |-> TouchDocument(t.docs, r), chunks |-> Override(t.chunks, r.id, ChunkOf(r))]

\* A transaction goes through its records one by one.
DocumentStages(docs, given) ==
    LET stage[n \in 0..Len(given)] == IF n = 0 THEN docs ELSE UpsertDocument(stage[n - 1], given[n])
    IN  stage

IngestStages(t, records) ==
    LET stage[n \in 0..Len(records)] == IF n = 0 THEN t ELSE IngestRecord(stage[n - 1], records[n])
    IN  stage

-----------------------------------------------------------------------------
StartMigration ==
    /\ migration.phase \notin {"documents", "chunks"}
    /\ migrations < MaxMigrations
    /\ migrations' = migrations + 1
    /\ export' \in Exports
    /\ migration' = [phase |-> "documents", at |-> 0]
    /\ UNCHANGED <<destination, dimension>>

UpsertDocuments ==
    /\ migration.phase = "documents"
    /\ LET given == DocumentsOf(export)
       IN  destination' = [destination EXCEPT !.docs = DocumentStages(@, given)[Len(given)]]
    /\ migration' = [migration EXCEPT !.phase = "chunks"]
    /\ UNCHANGED <<export, dimension, migrations>>

NextChunks ==
    LET from == migration.at
        to   == IF from + MigrationBatch <= Len(export.chunks)
                THEN from + MigrationBatch ELSE Len(export.chunks)
    IN  SubSeq(export.chunks, from + 1, to)

\* validate_ingest_chunks(): no empty embedding, and one dimension with the index.
Valid(batch) ==
    LET wanted == IF dimension = 0 THEN batch[1].dim ELSE dimension
    IN  \A i \in DOMAIN batch : batch[i].dim # 0 /\ batch[i].dim = wanted

MigrateBatch ==
    /\ migration.phase = "chunks"
    /\ migration.at < Len(export.chunks)
    /\ IF Valid(NextChunks)
       THEN /\ destination' = IngestStages(destination, NextChunks)[Len(NextChunks)]
            /\ dimension' = NextChunks[1].dim
            /\ migration' = [migration EXCEPT !.at = @ + Len(NextChunks)]
       ELSE /\ migration' = [migration EXCEPT !.phase = "stopped"]
            /\ UNCHANGED <<destination, dimension>>
    /\ UNCHANGED <<export, migrations>>

\* Faulty variant of EndMigration: the last batch is left out if it is not full.
EndMigrationEarly ==
    /\ migration.phase = "chunks"
    /\ migration.at + MigrationBatch > Len(export.chunks)
    /\ migration' = [migration EXCEPT !.phase = "done"]
    /\ UNCHANGED <<export, destination, dimension, migrations>>

\* create_indexes_if_requested() drops its errors; it changes no row.
EndMigration ==
    /\ migration.phase = "chunks"
    /\ migration.at = Len(export.chunks)
    /\ migration' = [migration EXCEPT !.phase = "done"]
    /\ UNCHANGED <<export, destination, dimension, migrations>>

MigrationKilled ==
    /\ migration.phase \in {"documents", "chunks"}
    /\ migration' = [migration EXCEPT !.phase = "stopped"]
    /\ UNCHANGED <<export, destination, dimension, migrations>>

Nothing == [k \in {} |-> NoSource]

MigrationInit ==
    /\ export = CHOOSE e \in Exports : TRUE
    /\ destination = [docs |-> Nothing, chunks |-> Nothing]
    /\ dimension = 0
    /\ migration = [phase |-> "stopped", at |-> 0]
    /\ migrations = 0

MigrationNext ==
    \/ StartMigration \/ UpsertDocuments \/ MigrateBatch \/ EndMigration \/ MigrationKilled

MigrationSpec == MigrationInit /\ [][MigrationNext]_migrationVars

-----------------------------------------------------------------------------
\* Of several records about one thing the last one stays.
IsLast(i, positions) == i \in positions /\ \A j \in positions : j <= i

About(records, n, id) == {i \in 1..n : records[i].id = id}
Sourced(records, n, doc) == {i \in 1..n : records[i].doc = doc /\ records[i].src # NoSource}

ChunksGiven(t, records, n) ==
    \A i \in 1..n : IsLast(i, About(records, n, records[i].id)) =>
       records[i].id \in DOMAIN t.chunks /\ t.chunks[records[i].id] = ChunkOf(records[i])

MetadataGiven(t, given, n) ==
    \A i \in 1..n :
       /\ given[i].id \in DOMAIN t.docs
       /\ IsLast(i, About(given, n, given[i].id)) => t.docs[given[i].id].meta = given[i].meta

SourcesGiven(t, records, n) ==
    \A i \in 1..n : IsLast(i, Sourced(records, n, records[i].doc)) =>
       records[i].doc \in DOMAIN t.docs /\ t.docs[records[i].doc].src = records[i].src

\* A document's own source counts only while no chunk of it names one.
OwnSourcesGiven(t, given, m, records, n) ==
    \A i \in 1..m :
       LET named == {j \in About(given, m, given[i].id) : given[j].src # NoSource}
       IN  IsLast(i, named) /\ Sourced(records, n, given[i].id) = {} =>
              t.docs[given[i].id].src = given[i].src

NoOrphans(t) == \A id \in DOMAIN t.chunks : t.chunks[id].doc \in DOMAIN t.docs

(***************************************************************************)
(* A migration that ends well, after any number of failed or killed runs   *)
(* over this export or another, leaves the destination as its export says: *)
(* each chunk as its last record gives it, each document with its metadata *)
(* and a source of the export, and no chunk of a document that is not      *)
(* there.                                                                  *)
(***************************************************************************)
MigratedAsExported ==
    migration.phase = "done" =>
       LET records == export.chunks
           given == DocumentsOf(export)
       IN  /\ ChunksGiven(destination, records, Len(records))
           /\ MetadataGiven(destination, given, Len(given))
           /\ SourcesGiven(destination, records, Len(records))
           /\ OwnSourcesGiven(destination, given, Len(given), records, Len(records))
           /\ NoOrphans(destination)
=============================================================================
