# A TLA+ model of SQLRite

SQLRite (`src/src`, Rust) is an embedded retrieval store on SQLite: chunks of documents with
embeddings, searched by vector, by text and by filters, with a server, ingestion workers, backups
and a replication control plane around it.  This directory holds TLA+ modules for the parts of it
that keep state across calls, TLC configurations that check them on small instances, and TLAPS
proofs of what matters most.  `PROJECT.json` ties every definition to source lines, every property
to a run and to a fault of the code that breaks it, and lists the hazards the properties are for.

## Inventory

| Component | State | Operations | What is hard | Modelled |
|---|---|---|---|---|
| Replication log (`ha.rs`) | entries, acknowledgements per index | leader append, append of a peer's batch with truncation, acknowledge, commit index, rebuild from stored rows | batches refused half-way, acknowledgements of replaced entries | yes |
| HA node (`ha.rs`, `server.rs`) | `ControlPlaneState` behind a mutex; catalog tables `replication_log`, `election_votes` | ~10 endpoints, automatic-failover tick, restore at start | writes that fail between memory and disk, restarts, stale terms, silent leaders | yes |
| Cluster of nodes | – (an external orchestrator carries the messages) | votes, batches, acknowledgements | loss, duplication, reordering | no |
| Resilience, chaos, observability (`server.rs`) | counters, event tables, injected faults, bounded trace buffer | failover and recovery endpoints, inject and clear, metrics, resets | measurements that begin and end in different requests, restarts, faults that block some requests only | yes |
| Chunk store (`lib.rs`) | tables `chunks`, `documents` and their FTS shadow; a vector index and a filter index in the memory of each handle | ingest, text ingest, update of metadata and embedding, two deletions, compaction, search | several handles on one file, one call as several SQL statements, errors in the middle | yes |
| Vector sidecars (`lib.rs`, `vector_index.rs`) | files beside the database, judged by modification time | persist after a call, load at open | crashes between commit and persist, handles that overwrite each other's file | yes |
| Vector index structures (`vector_index.rs`) | entries, position maps, LSH tables, HNSW graph | upsert, remove, import, query | swap-removal and position maps, transient keys, a graph that lags its entries | yes |
| Search and fusion (`lib.rs`) | none between calls | planner, candidates, weighted and reciprocal-rank fusion | several statements without a transaction, limits and fallbacks | yes |
| Ingestion worker (`ingest.rs`) | checkpoint file, adaptive batch size | cut, embed with retries, ingest a batch, save the checkpoint, resume | crash between ingest and checkpoint, failed chunks that the checkpoint passes, an edited source | yes |
| Re-embedding (`reindex.rs`) | offset checkpoint | page, embed, write back | pages that shift, whole rows written back late | yes |
| Backups (`ops.rs`) | snapshots and a catalog of lines | snapshot, list, select, restore, prune | torn catalog, restore that removes first | yes |
| Migration (`migrate.rs`) | none | batched copies | a failure between batches, a second run | yes |
| Security (`security.rs`, `bin/sqlrite-security.rs`) | policies, tenant keys in a registry file, audit log | authorise, encrypt, rotate | rotation that stops half-way, writers with an older registry, overlapping add-key commands; audit lines that fail, are torn or run together | yes |
| SQL dialect (`sql_semantics.rs`, copied in `main.rs`) | none that outlives a call | rewriting of vector operators and `SEARCH(...)` | nested and chained operators, quotes, comments | yes |
| Command line (`main.rs`) | table `retrieval_indexes` | `CREATE`/`DROP` `VECTOR`/`TEXT INDEX`; the rest parses, calls and prints | sessions that run such statements at the same time | index statements |
| MCP, gRPC, SDKs, benchmarks | none that outlives a call | dispatch, validation, printing | – | no |

The server calls the chunk store for queries and SQL, and keeps the control plane in the same
database file.  Workers, backups and the command line use the chunk store through `SqlRite` or
`SqlRiteHandle`.  Handles meet only in the database file and in the sidecars beside it.

What makes each part correct: a node never loses, invents or reorders a committed entry and the
store it restarts from is the log it had; a handle's indexes mirror the table they are built from,
so that a search returns what is stored; an index answers as a map from keys to embeddings would;
a statement means what it says; a resumed job neither skips nor repeats work; a rotation leaves every
secret readable; a backup that is listed can be restored; what a server reports of itself is what
happened.

## Modules

| Module | Models |
|---|---|
| `ReplicationLog` | `ReplicationLog` of `ha.rs` as pure operators on a record of entries and acknowledgements |
| `HaHandlers` | the methods of `HaRuntimeState`, what each handler leaves in memory, and the writes it makes to the catalog |
| `HaNode` | one server: an action per endpoint, the tick, the passing of the election timeout, failing writes, restarts; the properties |
| `ChunkStore` | handles on one database file: the tables, each handle's vector and filter index, the sidecar |
| `ResumableTransfer` | abstract: items of a text are carried over in order, a mark says how many are done with |
| `IngestWorker` | the ingestion worker; implements `ResumableTransfer` |
| `Chunking` | the three ways to cut a text, and `ingest_document_text()` |
| `JobTable`, `Reindex`, `KeyRotation` | the table as paging jobs see it; re-embedding; tenant keys and their rotation |
| `Backups`, `Migration` | snapshots, catalog, restore and pruning; copies of foreign exports |
| `Jobs` | the six jobs side by side |
| `SimilarityMap` | abstract: a map from keys to ids and embeddings, and answers that are the best of its entries |
| `VectorIndex` | the exact, LSH and HNSW indexes; implements `SimilarityMap` |
| `AnnFiles` | the files of the LSH and HNSW modes, over `VectorIndex` |
| `Search` | one search from request to ranked results, with writers between its statements, over `VectorIndex` |
| `SqlDialect` | the rewriting of statements |
| `RetrievalIndexes` | index statements of several sessions |
| `Operations` | measures of failovers and restores, injected faults, traces and counters of one server |
| `AuditedAccess` | calls for a tenant through `SecureSqlRite` and the server's guarded endpoints, the audit file, its export |
| `Serving` | the seven parts above side by side |
| `MCHaNode`, `MCChunkStore`, `MCJobs`, `MCServing` | instances for TLC |
| `Selection` | what is left of a sequence when some of its positions are kept; and the elements of a finite set in order; used by `Chunking`, `JobTable`, `Migration`, `VectorIndex`, `AnnFiles`, `Search`, `Operations`, `AuditedAccess` |
| `SelectionLemmas` | lemmas about both, and induction over the naturals |
| `HaNodeProofs`, `ChunkStoreProofs`, `IngestWorkerProofs`, `JobsProofs`, `VectorIndexProofs`, `SearchProofs`, `ServingProofs` | theorems, each about the module it is named for and those that module extends |

`Jobs` and `Serving` put parts that share no variable side by side: a behaviour is about one of them,
chosen at the start (`active`, `serves`), and the others stay in one initial state.  Parts that do
share state are composed for real: handles in `ChunkStore`, jobs and other writers on one table in
`Reindex` and `KeyRotation`, the index under `AnnFiles` and `Search`.

### The HA node

`mem` is what the process keeps (`HaRuntimeState`, the log, whether replication is enabled), `disk`
is the catalog, `config` is the start-up profile, `up` says whether the process serves requests,
and `torn` is a history variable: a handler has returned an error after it changed the log in
memory and before it stored the change.  The server answers one connection at a time, so one
request is one action, made of the operator for the memory (`AfterReceive`, `AfterAck`, ...) and of
its writes: each write is a transaction of its own, and a failing one ends the handler, which is
`\E done \in Progress(n)` – the first `done` of the `n` writes have happened.  Before the handler
of most requests the server may promote itself (`maybe_trigger_automatic_failover`); `Tick` is that
promotion, and the other handlers are enabled when none is due, which is the same as "promote, then
handle" in two steps.

Time is abstracted to the age of the last heartbeat (`none`, `fresh`, `expired`).  Checksums are a
bit.  Fields that are reported and never read back are left out; `failover_in_progress` and the
resilience counters, which no log or vote depends on, are in `Operations`.

### The chunk store

A call is a commit followed by what is left of it (`todo`), one step at a time, with the steps of
other handles in between: `"index"` fetches the keys of the ingested chunks and updates both
indexes, `"rebuild"` and `"refilter"` read the table again, `"truncate"` and `"write"` are the two
halves of writing the sidecar, `"docrow"`, `"prune"`, `"vacuum"`, `"embed"` are the further SQL
statements.  `fresh` stands for `artifact_is_fresh()`: the sidecar is not older than the database
file.  A commit makes the file younger in rollback-journal mode; in WAL mode it touches the log
only, and the file is written by a checkpoint, at the latest when the last connection closes.  Two
modification times are taken to be different when the two writes are different steps.

The index is the exact one with fewer than 1024 embedded chunks (one batch of a rebuild), its
default storage, and embeddings as a dimension and a value.  Rows of another dimension than the
first one of a rebuild shift the segments out of step, which is the value `Garbled`.  What an index
built from such a table holds is promised nothing (`OneDimension`): the other chunks' garbled entries
stay after the odd row is corrected, and a sidecar written meanwhile keeps them.  `foreign[h]`
is a history variable: the chunks that others changed since `h` last read the table; nothing in the
code tells a handle about them, so the properties except them.  A text-only ingestion over an
embedded chunk leaves the old vector in the index (no document says it should not), so an entry for
a text-only row is allowed.

Kept out: the FTS shadow table (triggers keep it in the transaction of the row), the LSH and HNSW
modes (their structures are in `VectorIndex`, their files in `AnnFiles`), several handles writing one
sidecar in small pieces, and what a memory-mapped sidecar shows to a handle while another rewrites
the file.

### The jobs

*Ingestion.*  A text is the sequence of the ids that `chunk_id_for()` gives its segments.  `worker`
is the run: phase, position, batch size, the segments of the batch still without an embedding, the
attempts made.  One action per step of the loop: `EmbedAttempt` (the provider refuses any subset),
`StoreBatch` (one transaction), `SaveCheckpoint` (also the failure of a batch and the tuning of the
size), `ClearCheckpoint`; `StopIngest` is an error or a kill between any two.  Meanwhile the source
is edited, others delete chunks, another job writes the checkpoint path.  A checkpoint may count
segments of one text and be used on another: `origin` records that, and such a checkpoint
(`Mixed`) is promised nothing.

*Cutting.*  A text is a sequence of characters with a width in bytes and a class; `SegmentsOf` is
`chunk_content()` for the fixed, heading-aware and semantic strategies.

*Re-embedding and key rotation* read pages by position, `JobTable!Page`, while others write and
delete.  Re-embedding writes whole rows back and keeps an offset file; rotation updates metadata row
by row and keeps none.  A sealed field is the key id, the material that enciphered it and what
deciphering gives.  Deletions shift pages, so a chunk is only promised the new model if no row was
deleted or moved while the run that owes it was under way.

*Backups.*  A database is the number of commits it holds.  Stamp, copy, verification, catalog line
and its newline are steps of their own; so are removing the destination of a restore and copying
back.  A restore of a snapshot whose file was removed after it was chosen opens, and so creates, an
empty database (`emptied`).

*Migration.*  An export is two sequences of records, which may describe a chunk or a document more
than once; a transaction takes them in one by one.  A batch with another dimension fails, and the run
may be repeated on the same or another export.

### What serves requests

*Vector indexes.*  Entries at positions, a map from ids and one from keys to positions, LSH tables of
buckets of positions, a graph with a dirty flag; `Removed` moves the last entry into the gap.
Vectors have one coordinate that is not 0, so that unit vectors and products are integers.  The graph
library is external: it finds some of the vectors it was built from.  An id upserted under two keys
is possible in the code (`crowded`), and its removal then removes one of its entries.

*Files.*  A handle writes entries, JSON and graph files one after the other; each has a modification
time no finer than a tick.  `hidden` is a history variable: the times do not show that a commit came
after a save (a commit in WAL mode, or both within one tick).

*Search.*  One action per SQL statement or index read of `search()`: filtered keys, index candidates,
table candidates, text hits, payload.  Scores are integers scaled so that the fused scores compare as
the program's do; text rank and lexical overlap are tables.  Rowids are those of AUTOINCREMENT: `lastKey`
is `sqlite_sequence`, and the rowid of a deleted row is not given again.

*SQL.*  A statement is a sequence of tokens.  `RewriteOperator` is one round of the loop: find the
next operator outside quotes and comments, seek the operands, replace.  The same functions stand in
`sql_semantics.rs` and once more in `main.rs`; they were compared line by line and are the same, and
`PROJECT.json` names for each definition one of the two copies.  The model writes the statements
together with what they mean.  What the scanner misreads is not among them: a quoted literal as left
operand (`seek_quoted_start()` returns the closing quote), a parenthesis quoted inside a left
operand, a sign before a right operand, a comment beside an operator.

*Index statements* are a count, then an insert, or a delete, each a SQLite statement of its own.

*Operations.*  Of the node only the role, the last heartbeat and `failover_in_progress` matter.  A
request passes the blocking faults, then the tick, then its handler.  Three facts the model shows
and no document speaks of: a heartbeat of a caught-up leader clears `failover_in_progress` and leaves
the measurement open, so that the next completion spans both; `mark-restored` without a start writes
a completion without a start; a handler that fails ends without a trace.  The invariants state what
holds in spite of them.

*Calls and their audit file.*  A call is authorised, works on the table in one commit, and is then
told: a text and its line end are two writes (`WriteText`, `WriteLineEnd`).  `calls` is a history of
what each call did and what its caller was answered.  Work may fail after its commit, when the
indexes are brought up to date, and a call whose line could not be written is answered with that
error although its work stays.  Four facts of the code that `TrailAccounts` is stated around: a
refusal by the policy of a `SecureSqlRite` is told to nobody, one by a server is; an encrypted
ingest is not told; a server tells no failed statement or search; one line that is torn or has run
into another makes `read_audit_events()` fail for the whole file.  A server handles one request at
a time, so lines only run together when two processes are given one file.

## Runs

| Run | Question | Result |
|---|---|---|
| `HaNodeLog` | With appends, batches (good, conflicting, damaged, stale), acknowledgements, reconciliations, heartbeats, promotions, failing writes and restarts in any order, do log, store, flags, acknowledgements and commit index stay consistent? | holds |
| `HaNodeVotes` | Over the terms 0..2 and two candidates, one vote per term and no step back, within the life of a process? | holds |
| `HaNodeFailover` | Does a replica in automatic mode whose leader fell silent take over? | holds |
| `HaNodeStoreGap` | Is the store always one a new process accepts (`from_entries`)? | violated: a refused batch leaves memory ahead of the store, the next append stores a row after a gap |
| `HaNodeReconcile` | "Replica reconciliation reports can only move commit forward up to local log head" | violated: after a refused batch has truncated the log, the noted last index is too high |
| `ChunkStore` | With one handle at a time, kills (rollback journal) or without (WAL): do both indexes mirror the table, do filtered searches return what is stored, is a sidecar only trusted when it mirrors the table? | holds |
| `ChunkStoreShared` | With the steps of two handles interleaved, is each index right about the chunks only its handle changed, and does removing a document row spare the chunks another handle ingested? | holds |
| `ChunkStoreHandles` | The default configuration with overlapping short-lived handles, as the repository's README recommends: does a new handle see the table? | violated: a handle that is still opening overwrites the sidecar of one that has ingested |
| `ChunkStoreDimensions` | "mixed dimensions should fail in indexed mode" | violated: `update_chunk_embedding()` fails after its UPDATE |
| `Jobs` | With refusals, retries, kills and resumed runs, and others editing the source, the rows or the files in between: is nothing a checkpoint skips lost, does each job end and finish what it says it finished, does the worker implement `ResumableTransfer`? | holds |
| `JobsResume` | "restart-safe checkpoints" (`docs/ingestion.md`): does a run that ends well and reports no failed chunk leave its whole source stored? | violated: a run that stops on refused texts has already saved its checkpoint past them |
| `Serving` | Do the indexes implement `SimilarityMap`, do their files give back the table, do searches among writers return what they may, do statements mean what they say, do index statements, measures, counters and traces add up, does the audit file tell of every call that succeeded? | holds |

`OpenSeesRows` is also false in WAL mode with kills and a single handle: the handle writes the
sidecar as it opens, ingests, and is killed between the commit and the persist; the database file
is not younger than the sidecar.  The passing run therefore has kills in rollback-journal mode only.

### Bounds

`HaNodeLog`: this server and a peer, a quorum of both, logs of up to two entries, terms up to two
(three after a promotion), batches of up to two entries after index 0 or 1, commit indexes 0..2.
Two entries are what it takes to truncate one and keep one, to have a gap, and to have a commit
index between; two terms are what it takes for a conflict; one peer is enough for a quorum that the
leader alone is not.  `HaNodeVotes` adds the terms 0..2 and both candidates for requests instead.
`MaxIndex` and `MaxTerm` bound appends and promotions in their guards; requests name terms of their
own from the small sets.  Nodes and values are named in the configuration and not permuted.

`ChunkStore`: three chunks (the third only in a batch of three), two documents, metadata with and without a content hash, two embeddings
and two dimensions, three rows ever inserted (`MaxKey`): a chunk can be deleted and come back under
a new key beside another, be moved to another document, and have a duplicate.  `ChunkStoreShared`
has two interchangeable handles (symmetry), one document, one hashed metadata and two keys, which is
what the races over one document and over one chunk's key need.

`Jobs`: two texts of three and two segments that begin alike, batches of one and two with and
without adaptation, continuation and a checkpoint, one retry, two runs: a batch that fails in part, a
checkpoint between two batches, a resume on the other text.  Documents are all texts of two
characters of five classes (one of two bytes) and some of up to eight, under each strategy and
limits 0 and 3, ingested twice.  Re-embedding has three rows of two tenants, pages of one and two,
two runs and two changes by others; rotation two keys, two overlapping add-key commands, pages of
one row, two writes and two rotations; backups a clock up to 2, two snapshots, one commit, two
interventions; migration exports of three records, batches of two, three runs.  Each `Max...`
constant stands in the guard of the action it bounds.

`Serving`: the index has up to three entries under two ids and three keys (those given out for records
without one included), the graph over two
dimensions, two tables of two and four buckets; files two ids and keys, a clock up to 2 (a save and
a commit in one tick or not) and one crash; searches two tables of three and four rows, some fifty requests
that take every plan, one write by others at any point; statements up to three operators nested or
chained, with quotes and comments around, and `SEARCH` with every kind of argument; two sessions with
four index statements; operations three requests, a clock up to 2, a trace buffer of two
(`TraceCapacity`, so that it overflows) and one restart; two processes, applications or servers with
and without a policy, an administrator of one tenant and a writer of another, two calls in all: two
lines that run together, or a torn line and the one after it.  The tuning constants of the code
(crossovers, factors, floors, 512 rewrites) are parameters, small enough that both sides of each
comparison occur.

### Fairness

`HaNodeFailover` assumes weak fairness of `Tick`.  The tick runs in the request loop, not
on a timer, so it needs requests; `/metrics` is made to be scraped periodically and each scrape
ticks.  No request that renews the heartbeat is assumed or excluded: the property lets a heartbeat, a
promotion or a restart end the silence.  A replica that has never heard a leader has no heartbeat to
expire and is not promised anything.

`Jobs` assumes weak fairness of the steps of an ingestion and of a re-embedding (`IngestStep`,
`ReindexStep`): both are loops in one thread that nothing waits for, and a provider that does not
answer is an error after its timeout.  Starting a run, killing it, edits and deletions are not fair.
`JobsEnd` says that such a loop ends, in the kill or by itself.

## Proofs

All theorems hold for every set of nodes, values, requests and bounds that the `ASSUME`s of the
modules allow, with failing writes and restarts, and for every number of handles, sessions and callers.

`HaNodeProofs` first shows what the operators of the log do: an append, a merged batch (accepted or refused),
an acknowledgement keep a log well-formed and its acknowledgements inside it; the splice lemma says
a batch keeps the prefix it agrees with and replaces the rest; terms stay ordered; the commit index
only moves over entries with a quorum; what the store is rewritten to, a restart reads back.

It then proves the type invariant and the safety invariants of `HaNodeLog` and `HaNodeVotes`,
and most of their action properties (`PROJECT.json` lists which).  None of the invariants is inductive alone.  The inductive
invariant `IInv` conjoins the shape of the memory (`GoodMem`: a well-formed log with acknowledgements
inside it), the shape of the store (`GoodDisk`: one good row per index), `InStep`, which holds unless
`torn` (the noted last position is that of the log, the store holds the log's rows, flags do not
exceed the commit index, the term covers the log, the commit index is within the log), and
`PrimaryHasVoted`.  `InStep` is needed because `StoreMatchesLog` is kept by an append only if the
stored row extends a store that already matched, because flags are only sound if the commit index
they are copied from is within the noted position, and because a restart's term is derived from the
log.  Each action has its preservation lemma; the action properties follow from `IInv` at the start
of the step.

`ChunkStoreProofs` proves four properties of the store.  Types rest on `TypesInvariant`: rowids and
ids each tell rows apart, every rowid is below the next one, and a call under way carries the
argument its next step reads.  A row's key is used once, so an index filed by keys can be compared
with a table filed by ids.  `OrphanRemovalKeepsChunks` follows action by action.
`VectorIndexFaithful` speaks of idle handles only, and between two calls a handle passes through
states where its index is behind; the inductive invariant says how far.  Of each open handle
(`InTouch`): no entry's key is ahead of the table or names another row's chunk; entries of
a chunk follow its row (`Tracked`), and the row's embedding is there (`Covered`) unless the handle is
about to index the batch that brought it, the index could not hold it, or another handle changed the
chunk; while a rebuild is outstanding nothing of the kind is asked; and what a call has read before
it committed (`Batched`, `Aimed`) is still true when it is used, other handles' changes excepted.  The changes
of one handle carry over to the rest through `Evolves`, which says what any commit may do to the
rows outside the chunks it is noted for.  A handle that opens may take its index from the sidecar, so
`SideInv` says what a sidecar that will be trusted holds: in rollback-journal mode always an image
of the table, in WAL mode, where a commit does not make it old, what the open handle holds, unless
that handle is still to write it (`ShapeInv`, the order of the steps of a call).  The two theorems
about indexes assume `SafeSidecars`: where handles keep sidecars they do not overlap, and in WAL mode
they are not killed.  Every passing run satisfies it, and `ChunkStoreHandles` shows what happens
without.

The same follows for the filter index (`FilterTouch`): a posting's key is that of its
chunk, and a chunk's postings are exactly that of its row unless a batch or a metadata update is
about to be listed, the index is still to be rebuilt, or another handle changed the chunk.  This
needs no assumption about sidecars, which keep no postings.  Together with `IndexesMirrorTable` it
gives `FilteredSearchSound`: both indexes file a chunk under the key of its row, so a key that the
filter lets through leads the vector index to the chunk that was meant.

`IngestWorkerProofs` proves the types of the ingestion worker, `SkippedIsAccounted`, and that the
worker implements `ResumableTransfer`, for any texts, segments, options and numbers of retries.
`SkippedIsAccounted` is about the file and about finished runs; it is not inductive, because what a
checkpoint will skip is decided when a run starts, batches before it is written.  `RunInv` says of a
run in progress what the property says of the file: the chunks before its position are accounted
for, its batch lies within the text, and once the batch is stored the embedded part of it is there.
`SameTextInv` says that the checkpoint in use, if it counts anything, is of the run's own text, which
the refinement needs: the abstract job may only take up a new text from its beginning.  The
refinement maps the mark to the checkpoint and the carried items to the stored chunks; storing a
batch is `Arrive`, a deletion by others `Remove`, saving is `Advance`, or `Forget` where the
checkpoint counts segments of two texts, clearing and another job's file are `Forget`, and
everything else is a stutter.

`JobsProofs` proves the invariants of the four jobs that keep files, rewrite rows or fill a store and
of the ingest of a document, and that they hold side by side (`JobsKeepTheirWord`).

- *Backups* (`RestoredHoldsItsPast`, `PruneKeepsWindow`).  A restore chooses by the catalog and copies
  by the file, so `BackupInv` says of every snapshot that is whole and that nobody emptied or removed
  that it holds all commits before its stamp, and of a restore at work that it is about to copy such
  a snapshot to a clean place, or has.  `BackupAssumption` says that retentions are naturals.
- *Key rotation* (`SecretsStayReadable`, `VerifiedMeansRotated`).  `RotationInv`: every copy of the
  registry that a job or writer holds agrees with the file where no key was spoiled, every row and
  every row of the page at hand opens to its secret, and while nobody else writes the page stands in
  the table where the offset says, with all rows behind it under the target key.
  `RotationAssumption`: a page has a row, and the table at first is in clear with distinct ids.
- *Re-embedding* (`ReindexComplete`, `ReindexUndoesOnlyItsPage`).  `ReindexInv` follows, for the run
  and for the checkpoint file, what is still owed the new model: it comes after the offset in the
  tenant's order, or is in the page at hand, or has the model.  That it stays so when a page is read
  by position is a statement about ranks, proved by the pigeonhole theorem.  `ReindexAssumption`: a
  batch has a row, and the ids of the table are distinct.
- *Migration* (`MigratedAsExported`).  A finished run says nothing of the batches before, so
  `Migrated` says of any number of first records what the property says of them all: the last of
  several records about a chunk stays, a document keeps the metadata of its last description, its
  source is that of the last record that names one, and no chunk lacks its document.  One more record
  preserves that (`RecordIngested`), hence a batch of any size does, over whatever earlier runs left.
  `MigrationAssumption`: a batch has a record, and an export's records and documents are sequences.
- *Cutting a text* (`DocumentCovered`), for every text, limit and overlap.  The property is about one
  ingest, so it is inductive as it stands; the work is in the three loops.  `CutSoFar` says of
  `chunk_fixed()` after any number of turns that all up to the next start is in a segment and that
  every segment starts and ends at a character and is short or the text has a character wider than
  the limit (`NextBoundary`: where no boundary is in reach, the next character is too wide); each
  turn moves the start, so as many turns as there are bytes reach the end.  Sections follow each
  other without a gap (`CutsFollow`), from the first at 0, which is there even if no heading is.
  `JoinedSoFar` says the same of sentences, where the last segment ends where the next sentence
  starts; dropping blank segments loses no visible character.  The three are recursive functions,
  and `FixedTurnsAre` and its like derive their equations.  `ChunkingAssumption`: a text is a
  sequence of characters of positive width, a strategy one of three kinds, limits naturals.

Pages, deletions and filters keep some positions of a sequence.  `Selection` defines that by ranks
(the n-th kept position is the one with n kept positions up to it) rather than by recursion, so that
`SelectionLemmas` can prove that ranks are a bijection and what a selection holds.  It also says that
a bounded set of naturals has a greatest one, and derives induction over the naturals from
well-foundedness for a predicate given as a set (`EveryNatural`): the library's induction theorems
take an operator as parameter, which the provers cannot instantiate.  `Ordered` lists a finite set in
the same way, each element at the place that the number of elements before it gives; `OrderedFacts`
says that for an order of the set this lists every element once, each before the next.

`ServingProofs`, with `VectorIndexProofs` and `SearchProofs` for two of the parts, proves eight
invariants, each of its part and of the parts side by side (`ServingKeepsItsWord`), and that the
vector index implements its abstraction.

- *Index statements* (`ReportsAddUp`), for any number of sessions that interleave their statements.
  The inductive invariant adds that names are unique, so that a row inserted for a free name adds
  exactly one and a delete by name and kind that finds a row leaves none, and that a session between
  its statement and its insert or delete still carries a statement that parsed, about an identifier.
- *Vector indexes* (`IndexConsistent`), for any batches, planes, dimensions and size.  One step takes
  a whole batch in, record by record, so the invariant `IndexInv` is shown to hold after every record of it
  (`EveryNatural` over the batch).  It says that keys and positions are one to one, that each bucket
  of each table names exactly the positions that belong there, and each once, that every id of the
  id map leads to an entry with that id, and that the map is complete unless `crowded`.  A removal is taken
  apart into what it leaves without the entry and what it renames to the gap, so that a position map
  or bucket is only ever changed in one place at a time.  `IndexAssumption` says that a batch has one
  dimension, for which there are LSH tables made of planes, vectors as `VectorIndex` represents them,
  and positive keys, which is what rowids are; that queries are vectors, and limits and the Hamming
  radius naturals.
- *The index as a map* (`AnswersAsPromised`).  The refinement maps an index to its content, the id and
  embedding under each key (`ContentOf`), and to whether an id ever had two keys.  Every record put
  is one stage of the map (`PutRecordContent`, `StagesStand`), and the map refuses a batch where the
  index does (`FitsAlike`).  Keys given to records that come with an id only grow, so a new id gets a
  key that nothing else has, and a known one its own (`KeysGrow`, `KeyedContent`).  A removal finds
  its entry by the id map, which is complete unless the map is crowded (`RemovedContent`, `NoHolder`).
  `MapInv` adds to `IndexInv` that an embedding that is kept is its own unit vector, without which a
  segment file read back would give another map (`MappedContent`).  Of an answer, `HitOrderOrders`
  says that the order of hits is one, so that the best of some positions are listed once each, in
  order, with nothing better left out (`BestFacts`, `BestIsPromised`).  The candidates of the LSH
  tables are positions, all of them or enough of them, whichever masks are probed (`GatheredWithin`, `MaskFacts`,
  `CandidatesFacts`); what the graph finds are entries with their own scores (`GraphFacts`).
  The refinement holds among the other parts too (`ServedIndexIsAMap`).
- *Index files* (`LoadedIsStored`), for any batches, both kinds of index, any clock and any number of
  crashes and failed saves.  `AnnInv` says of the files that one a load would trust holds the table,
  while the times tell a commit from what was saved before it; of a handle that is sure, that its
  index lists the table in the order of its keys and that every file it is through with holds that
  list, even while the times do not tell: the next file may be the last one, with which the times
  are right again.  The lists are those of `PutRecords`: a blank index filled from the table or from
  an export has the rows in their order (`EveryNatural` over the records), a row with a known key
  takes the place of the old one there and in the table's order, a new row has the greatest key and
  is last in both.  `AnnAssumption`: the embeddings are sequences of integers.
- *Audited calls* (`TrailAccounts`), for any callers, roles, tenants, interleavings, failures and
  kills.  The promise is about calls that have ended; `AccessInv` says of each call under way which
  line, if any, tells of it already, and what the line its caller holds will vouch for (the tenant, the
  outcome, and for a removal the rows taken by its own commit).  No line names a call yet to
  come, no two callers are at one call, and a row bears the tenant of the call that wrote it.  While
  no writing was disturbed the file ends with a line end, unless a caller is about to write it.
  `AccessAssumption`: the chunks there at first were written by no call.
- *Measures and counters* (`MeasuresOnRecord`, `RequestsAddUp`), for any sequence of requests, ticks,
  faults, failed writes and restarts.  A request may go through several stages, each with its own
  write, so the invariant is about pairs of a state and a table: `Reaches(at, to)` says that what
  holds at one stage holds at the next, `HandlerStaged` that every handler of every path only takes
  such steps, and a run that stops at a failed write has reached one of them.  `OpsInv` says of the
  state and the table between requests that rows are of known types, that a measurement that runs
  began no later than now, that completed ones are the rows of their type, their sum and their last
  one, and that a failover that runs has its start on record besides those that are over (without
  that, a completion could overtake the starts).  The sum of the durations is counted as a set of
  units of time, which the prover can reason about where it cannot about a fold.  For the traces it
  says which numbers they carry and how many there are, for a list of any capacity
  (`OperationsAssumption`: the capacity is a natural).

- *Searches, sound* (`SearchSound`), for any table, request, weight and limit, and whatever others
  write between the statements.  Each statement reads another table, so `SearchInv` relates what a
  search has found to the tables `seen` since it began: each id in hand is of a row of one of them
  that satisfies the filter.  An index candidate is admitted by its key, which the filter took from a
  row of the table as it is now; that this is a row of the same chunk needs that a rowid is of one id
  for ever, in all the tables seen and in the index, which is what AUTOINCREMENT gives.  Candidates
  are distinct, results in pairwise order, and leaving out payloads that are gone keeps both.
- *Searches, exhaustive* (`RoomySearchIsExhaustive`).  While nobody writes, all tables seen are one;
  `QuietInv` says that each vector score is that of the row, and how far a search with room for every
  row has come: which ids the statements so far have covered, and that the text scores of
  two statements together are those one statement over all matches would give (`RoomyHolds`).  That
  works because a first list of scores is kept only where it has every hit, so that its best rank is
  that of all.  A search by vectors alone is followed by `AloneHolds`.
  `SearchAssumption`: tables are finite, rowids and ids tell rows apart, limits, factors, ranks and
  overlaps are naturals.

Only model-checked: the liveness properties `SilenceEndsInFailover` and `JobsEnd` (liveness under
fairness is out of the prover's reach), and `RewriteIsMeant`, which compares given statements with
what they mean (for all statements it would be an induction over their grammar, which the provers
cannot do).

## Plan

1. HA node: log, handlers, node, proofs – done.
2. Chunk store and sidecars – modelled and checked; types, orphan removal and both
   indexes proved.
3. Jobs – modelled and checked; the ingestion worker proved, with its refinement; backups, rotation,
   re-embedding, migration and the cutting of texts proved.
4. Serving: indexes, files, search, SQL, index statements, operations, audited calls – modelled and
   checked; index statements, vector indexes with their refinement and their files, searches,
   measures and audited calls proved.
5. Next to model: several `HaNode`s under an orchestrator that loses, repeats and reorders messages.
   The hazards without a property are waiting for it (acknowledgements without a term, heartbeats
   that do not look at the log, votes forgotten by a restart).

## Not modelled

- Several nodes: the program has no client side, so what an orchestrator does between nodes is not
  in the repository; `HaNode` takes any message it may deliver.
- Similarity arithmetic in floating point and the HNSW library: the index modules use vectors whose
  products are integers and a library that finds some neighbours.
- JSON and HTTP framing, MCP and gRPC dispatch, argument parsing, printing, benchmarks, evaluation
  and SDK validation: none of it keeps state that a later call depends on.
- Cryptography: opening a sealed field with the key it was sealed with gives it back, with another
  does not.  Redaction of audit details and the files a policy is kept in.
- SQLite itself is external: a statement or a transaction is atomic and durable once committed.
