---------------------------- MODULE IngestWorker ----------------------------
(***************************************************************************)
(* IngestionWorker::ingest (ingest.rs): one source is cut into segments,   *)
(* embedded batch by batch, stored, and a checkpoint file remembers how    *)
(* far the job came.  A run may stop at any step, by an error or a kill,   *)
(* and be started again; meanwhile the source is edited, others delete     *)
(* chunks, and other jobs use the same checkpoint path.                    *)
(*                                                                         *)
(* A segment is the id chunk_id_for gives it: a hash of tenant, document,  *)
(* position and content.  `origin', `refused' and `deleted' are history:   *)
(* the text a checkpoint counts segments of, the chunks the provider       *)
(* refused to embed and those others deleted.                              *)
(***************************************************************************)
EXTENDS Naturals, Sequences, FiniteSets

CONSTANTS
    Source,         \* what the source can read as
    ChunkId,
    Segments,       \* the chunks each text is cut into
    Mixed,          \* the origin of a checkpoint that counts segments of two texts
    IngestOptions,  \* batch_size, max_batch_size, adaptive, continue, checkpoint path
    MaxRetries,
    MaxIngestRuns

ASSUME IngestAssumption ==
    /\ Segments \in [Source -> Seq(ChunkId)]
    /\ Mixed \notin Source
    /\ IngestOptions # {}
    /\ IngestOptions \subseteq [batch : Nat \ {0}, max : Nat \ {0}, adaptive : BOOLEAN,
                                cont : BOOLEAN, persist : BOOLEAN]
    /\ MaxRetries \in Nat
    /\ MaxIngestRuns \in Nat

VARIABLES
    source,      \* what the source reads as now
    stored,      \* the job's chunks in the store
    refused,     \* chunks passed over without an embedding
    deleted,     \* chunks others deleted
    checkpoint,  \* the checkpoint file
    worker,      \* the run, its position and the batch in hand
    request,     \* the options of the run
    ingestRuns

ingestVars == <<source, stored, refused, deleted, checkpoint, worker, request, ingestRuns>>

Lesser(m, n) == IF m <= n THEN m ELSE n
Greater(m, n) == IF m <= n THEN n ELSE m

\* No file, or the file of another job: load_resume_checkpoint() treats them alike.
NoCheckpoint == [mine |-> FALSE, next |-> 0, origin |-> Mixed]

Checkpoints == [mine : BOOLEAN, next : Nat, origin : Source \cup {Mixed}]

Working == {"embed", "store", "save", "clear"}
Phases == Working \cup {"stopped", "done"}

Resting(phase, w) == [w EXCEPT !.phase = phase, !.pending = {}, !.attempt = 0]

-----------------------------------------------------------------------------
PlannedEnd(w) ==
    w.at + Greater(Lesser(w.size, Len(Segments[w.text]) - w.at), 1)

Batch(w) == (w.at + 1)..PlannedEnd(w)

ChunksAt(w, indices) == {Segments[w.text][i] : i \in indices}

\* The head of the loop: another batch, or the end.
NextBatch(w) ==
    IF w.at < Len(Segments[w.text])
    THEN [w EXCEPT !.phase = "embed", !.pending = Batch(w), !.attempt = 0]
    ELSE Resting("clear", w)

\* Faulty variant of TunedSize: a size of 1 is halved to 0.
TunedToNothing(w, pace) ==
    IF ~request.adaptive THEN w.size
    ELSE IF w.pending = {} /\ pace = "fast"
         THEN Lesser(w.size + (w.size \div 2) + 1, request.max)
    ELSE IF pace = "slow" \/ w.pending # {} THEN w.size \div 2
    ELSE w.size

\* pace: a batch faster than 60% of the target, slower than it, or between.
TunedSize(w, pace) ==
    IF ~request.adaptive THEN w.size
    ELSE IF w.pending = {} /\ pace = "fast"
         THEN Lesser(w.size + (w.size \div 2) + 1, request.max)
    ELSE IF pace = "slow" \/ w.pending # {} THEN Greater(w.size \div 2, 1)
    ELSE w.size

ResumeIndex(options) ==
    IF options.persist /\ checkpoint.mine
    THEN Lesser(checkpoint.next, Len(Segments[source]))
    ELSE 0

StartIngest ==
    /\ worker.phase \notin Working
    /\ ingestRuns < MaxIngestRuns
    /\ ingestRuns' = ingestRuns + 1
    /\ request' \in IngestOptions
    /\ LET resume == ResumeIndex(request') IN
       worker' = NextBatch(
         [worker EXCEPT
           !.text = source,
           !.at = resume,
           !.size = Lesser(request'.batch, request'.max),
           !.failed = FALSE,
           !.origin = IF resume = 0 \/ checkpoint.origin = source THEN source ELSE Mixed])
    /\ UNCHANGED <<source, stored, refused, deleted, checkpoint>>

\* The texts that embed_batch() answers with an error or without a vector of numbers.  An
\* answer it cannot read, or for another number of texts, ends the run.
Unembedded(w) == SUBSET w.pending

\* embed_with_retry()
EmbedAttempt ==
    /\ worker.phase = "embed"
    /\ \E left \in Unembedded(worker) :
         LET tries == IF left = {} THEN worker.attempt ELSE worker.attempt + 1 IN
         worker' = IF left = {} \/ tries > MaxRetries
                   THEN [worker EXCEPT !.phase = "store", !.pending = left, !.attempt = 0]
                   ELSE [worker EXCEPT !.pending = left, !.attempt = tries]
    /\ UNCHANGED <<source, stored, refused, deleted, checkpoint, request, ingestRuns>>

\* Faulty variant of StoreBatch: a batch with a refused text is dropped.
StoreWholeBatch ==
    /\ worker.phase = "store"
    /\ stored' = IF worker.pending = {} THEN stored \cup ChunksAt(worker, Batch(worker)) ELSE stored
    /\ worker' = [worker EXCEPT !.phase = "save"]
    /\ UNCHANGED <<source, refused, deleted, checkpoint, request, ingestRuns>>

\* Faulty variant of StoreBatch: a failed transaction is not noticed.
StoreBatchUnchecked ==
    /\ worker.phase = "store"
    /\ stored' \in {stored, stored \cup ChunksAt(worker, Batch(worker) \ worker.pending)}
    /\ worker' = [worker EXCEPT !.phase = "save"]
    /\ UNCHANGED <<source, refused, deleted, checkpoint, request, ingestRuns>>

\* ingest_chunks(): one transaction for the embedded chunks of the batch.
StoreBatch ==
    /\ worker.phase = "store"
    /\ stored' = stored \cup ChunksAt(worker, Batch(worker) \ worker.pending)
    /\ worker' = [worker EXCEPT !.phase = "save"]
    /\ UNCHANGED <<source, refused, deleted, checkpoint, request, ingestRuns>>

\* IngestionCheckpoint::save(): a temporary file takes the place of the old one.
Written(w) == [mine |-> TRUE, next |-> PlannedEnd(w), origin |-> w.origin]

SaveCheckpoint ==
    /\ worker.phase = "save"
    /\ checkpoint' = IF request.persist THEN Written(worker) ELSE checkpoint
    /\ refused' = refused \cup ChunksAt(worker, worker.pending)
    /\ LET failed == worker.pending # {}
           moved == [worker EXCEPT !.at = PlannedEnd(worker), !.failed = @ \/ failed]
       IN  IF failed /\ ~request.cont
           THEN worker' = Resting("stopped", moved)
           ELSE \E pace \in {"fast", "even", "slow"} :
                  worker' = NextBatch([moved EXCEPT !.size = TunedSize(worker, pace)])
    /\ UNCHANGED <<source, stored, deleted, request, ingestRuns>>

ClearCheckpoint ==
    /\ worker.phase = "clear"
    /\ checkpoint' = IF request.persist THEN NoCheckpoint ELSE checkpoint
    /\ worker' = Resting("done", worker)
    /\ UNCHANGED <<source, stored, refused, deleted, request, ingestRuns>>

\* The step fails (the provider, the transaction, the file), or the process is killed.
StopIngest ==
    /\ worker.phase \in Working
    /\ worker' = Resting("stopped", worker)
    /\ UNCHANGED <<source, stored, refused, deleted, checkpoint, request, ingestRuns>>

EditSource ==
    /\ source' \in Source \ {source}
    /\ UNCHANGED <<stored, refused, deleted, checkpoint, worker, request, ingestRuns>>

OthersDelete ==
    /\ \E c \in stored : stored' = stored \ {c} /\ deleted' = deleted \cup {c}
    /\ UNCHANGED <<source, refused, checkpoint, worker, request, ingestRuns>>

\* A job with another id saves or clears its checkpoint at the same path.
OtherJob ==
    /\ checkpoint' = NoCheckpoint
    /\ UNCHANGED <<source, stored, refused, deleted, worker, request, ingestRuns>>

IngestInit ==
    /\ source \in Source
    /\ stored = {}
    /\ refused = {}
    /\ deleted = {}
    /\ checkpoint = NoCheckpoint
    /\ request = CHOOSE options \in IngestOptions : TRUE
    /\ worker = [phase |-> "stopped", text |-> source, at |-> 0, size |-> 1, pending |-> {},
                 attempt |-> 0, failed |-> FALSE, origin |-> source]
    /\ ingestRuns = 0

IngestStep == EmbedAttempt \/ StoreBatch \/ SaveCheckpoint \/ ClearCheckpoint

IngestNext ==
    \/ StartIngest \/ IngestStep \/ StopIngest
    \/ EditSource \/ OthersDelete \/ OtherJob

IngestSpec == IngestInit /\ [][IngestNext]_ingestVars /\ WF_ingestVars(IngestStep)

-----------------------------------------------------------------------------
Workers ==
    [phase : Phases, text : Source, at : Nat, size : Nat \ {0}, pending : SUBSET Nat,
     attempt : 0..MaxRetries, failed : BOOLEAN, origin : Source \cup {Mixed}]

IngestTypeOK ==
    /\ source \in Source
    /\ stored \subseteq ChunkId
    /\ refused \subseteq ChunkId
    /\ deleted \subseteq ChunkId
    /\ checkpoint \in Checkpoints
    /\ worker \in Workers
    /\ request \in IngestOptions
    /\ ingestRuns \in Nat

FirstChunks(text, n) == {Segments[text][i] : i \in 1..Lesser(n, Len(Segments[text]))}

(***************************************************************************)
(* A checkpoint never counts a chunk nobody has: what it lets a later run  *)
(* skip is stored, or was refused by the provider, or was deleted by       *)
(* others.  The same holds of the whole text when a run ends well.         *)
(***************************************************************************)
SkippedIsAccounted ==
    /\ checkpoint.mine /\ checkpoint.origin # Mixed
       => FirstChunks(checkpoint.origin, checkpoint.next) \subseteq stored \cup refused \cup deleted
    /\ worker.phase = "done" /\ worker.origin # Mixed
       => FirstChunks(worker.origin, Len(Segments[worker.text])) \subseteq stored \cup refused \cup deleted

\* The mark of the abstract job is the checkpoint, as far as it counts one text.
CheckpointMark == IF checkpoint.mine /\ checkpoint.origin # Mixed THEN checkpoint.next ELSE 0
CheckpointText == IF checkpoint.origin # Mixed THEN checkpoint.origin ELSE CHOOSE t \in Source : TRUE

Transfer == INSTANCE ResumableTransfer
    WITH Text <- Source, Items <- Segments,
         text <- CheckpointText, mark <- CheckpointMark, have <- stored,
         lost <- refused \cup deleted

(***************************************************************************)
(* Batches, retries, kills and the checkpoint file implement the abstract  *)
(* job: the mark moves only past items that arrived or are known lost.     *)
(***************************************************************************)
CheckpointsTransfer == Transfer!Spec

(***************************************************************************)
(* docs/ingestion.md calls the worker a restart-safe batch ingest: a run   *)
(* that ends well and reports no failed chunk leaves every chunk of its    *)
(* source stored, deletions by others and edits of the source aside.       *)
(***************************************************************************)
CleanRunIsComplete ==
    worker.phase = "done" /\ ~worker.failed /\ worker.origin # Mixed
      => FirstChunks(worker.text, Len(Segments[worker.text])) \subseteq stored \cup deleted
=============================================================================
