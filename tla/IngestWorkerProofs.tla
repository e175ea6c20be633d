------------------------- MODULE IngestWorkerProofs -------------------------
(***************************************************************************)
(* Proofs about IngestWorker, for any texts, ways to cut them, options and *)
(* bounds: its types, that a checkpoint skips nothing unaccounted for, and *)
(* that the worker implements ResumableTransfer.                           *)
(*                                                                         *)
(* What a checkpoint will skip is decided when a run starts, batches       *)
(* before it is written.  The inductive invariant therefore says of a run  *)
(* in progress what SkippedIsAccounted says of the file: the chunks before *)
(* its position are accounted for and, once the batch is stored, those of  *)
(* the batch that were embedded are there.  It also says that a run never  *)
(* goes on from a checkpoint of another text but its own.                  *)
(***************************************************************************)
EXTENDS IngestWorker, TLAPS

Accounted == stored \cup refused \cup deleted
InBatch == {"embed", "store", "save"}

\* The position and the batch of a run.
RunInv ==
    /\ worker.phase \in Working =>
          /\ worker.at <= Len(Segments[worker.text])
          /\ worker.origin \in {Mixed, worker.text}
          /\ worker.origin # Mixed => FirstChunks(worker.text, worker.at) \subseteq Accounted
    /\ worker.phase \in InBatch =>
          worker.at < Len(Segments[worker.text]) /\ worker.pending \subseteq Batch(worker)
    /\ worker.phase = "save" =>
          ChunksAt(worker, Batch(worker) \ worker.pending) \subseteq stored \cup deleted
    /\ worker.phase = "clear" => worker.at = Len(Segments[worker.text])

CheckpointInv ==
    checkpoint.mine /\ checkpoint.origin # Mixed =>
       /\ checkpoint.next <= Len(Segments[checkpoint.origin])
       /\ FirstChunks(checkpoint.origin, checkpoint.next) \subseteq Accounted

DoneInv ==
    worker.phase = "done" /\ worker.origin # Mixed =>
       FirstChunks(worker.origin, Len(Segments[worker.text])) \subseteq Accounted

\* A checkpoint in use while a run writes it is one of the run's own text.
SameTextInv ==
    worker.phase \in InBatch /\ request.persist /\ worker.origin # Mixed /\ CheckpointMark # 0
       => checkpoint.origin = worker.origin

IInv == IngestTypeOK /\ RunInv /\ CheckpointInv /\ DoneInv /\ SameTextInv
-----------------------------------------------------------------------------
(* Arithmetic of batches, and what the operators of the loop return.       *)

LEMMA SegmentFacts ==
    ASSUME NEW t \in Source
    PROVE  /\ Segments[t] \in Seq(ChunkId)
           /\ Len(Segments[t]) \in Nat
           /\ \A i \in 1..Len(Segments[t]) : Segments[t][i] \in ChunkId
BY IngestAssumption

\* A batch holds at least one segment and none beyond the last.
LEMMA BatchBounds ==
    ASSUME NEW w \in Workers
    PROVE  /\ PlannedEnd(w) \in Nat
           /\ PlannedEnd(w) > w.at
           /\ w.at < Len(Segments[w.text]) => PlannedEnd(w) <= Len(Segments[w.text])
           /\ Batch(w) \in SUBSET Nat
<1>1. w.at \in Nat /\ w.size \in Nat /\ w.size >= 1 /\ Len(Segments[w.text]) \in Nat
    BY SegmentFacts DEF Workers
<1> QED BY <1>1 DEF PlannedEnd, Batch, Greater, Lesser

\* The head of the loop moves nothing but the phase and the batch.
LEMMA NextBatchEffect ==
    ASSUME NEW w \in Workers, w.at <= Len(Segments[w.text])
    PROVE  LET n == NextBatch(w)
           IN  /\ n \in Workers
               /\ n.text = w.text /\ n.at = w.at /\ n.origin = w.origin /\ n.failed = w.failed
               /\ n.phase \in {"embed", "clear"}
               /\ n.phase = "embed" => n.at < Len(Segments[n.text]) /\ n.pending = Batch(n)
               /\ n.phase = "clear" => n.at = Len(Segments[n.text])
<1>1. w.at \in Nat /\ Len(Segments[w.text]) \in Nat /\ 0 \in 0..MaxRetries
    BY SegmentFacts, IngestAssumption DEF Workers
<1>2. CASE w.at < Len(Segments[w.text])
    <2> DEFINE n == [w EXCEPT !.phase = "embed", !.pending = Batch(w), !.attempt = 0]
    <2>1. NextBatch(w) = n
        BY <1>2 DEF NextBatch
    <2>2. n \in Workers
        BY <1>1, BatchBounds DEF Workers, Phases, Working
    <2>3. /\ n.text = w.text /\ n.at = w.at /\ n.size = w.size /\ n.origin = w.origin
          /\ n.failed = w.failed /\ n.phase = "embed" /\ n.pending = Batch(w)
        BY DEF Workers
    <2>4. Batch(n) = Batch(w)
        BY <2>3 DEF Batch, PlannedEnd
    <2> HIDE DEF n
    <2> QED BY <1>2, <2>1, <2>2, <2>3, <2>4
<1>3. CASE ~(w.at < Len(Segments[w.text]))
    <2> DEFINE n == [w EXCEPT !.phase = "clear", !.pending = {}, !.attempt = 0]
    <2>1. NextBatch(w) = n
        BY <1>3 DEF NextBatch, Resting
    <2>2. n \in Workers
        BY <1>1 DEF Workers, Phases, Working
    <2>3. /\ n.text = w.text /\ n.at = w.at /\ n.origin = w.origin
          /\ n.failed = w.failed /\ n.phase = "clear"
        BY DEF Workers
    <2> HIDE DEF n
    <2> QED BY <1>1, <1>3, <2>1, <2>2, <2>3
<1> QED BY <1>2, <1>3

LEMMA RestingEffect ==
    ASSUME NEW w \in Workers, NEW p \in Phases
    PROVE  LET r == Resting(p, w)
           IN  /\ r \in Workers
               /\ r.phase = p /\ r.text = w.text /\ r.at = w.at /\ r.origin = w.origin
<1>1. 0 \in 0..MaxRetries
    BY IngestAssumption
<1> QED BY <1>1 DEF Resting, Workers

\* tune_batch_size() never returns a batch of no segments.
LEMMA TunedIsPositive ==
    ASSUME NEW w \in Workers, NEW pace, request \in IngestOptions
    PROVE  TunedSize(w, pace) \in Nat \ {0}
<1>1. w.size \in Nat /\ w.size >= 1 /\ request.max \in Nat /\ request.max >= 1
    BY IngestAssumption DEF Workers
<1>2. w.size \div 2 \in Nat
    BY <1>1
<1> QED BY <1>1, <1>2 DEF TunedSize, Lesser, Greater

\* None before the first, and the chunks before the end of a batch are those
\* before its beginning and those in it.
LEMMA FirstChunksEmpty ==
    ASSUME NEW t \in Source
    PROVE  FirstChunks(t, 0) = {}
<1>1. Lesser(0, Len(Segments[t])) = 0
    BY SegmentFacts DEF Lesser
<1> QED BY <1>1 DEF FirstChunks

LEMMA FirstChunksOfBatch ==
    ASSUME NEW w \in Workers, w.at < Len(Segments[w.text])
    PROVE  FirstChunks(w.text, PlannedEnd(w))
             = FirstChunks(w.text, w.at) \cup ChunksAt(w, Batch(w))
<1> DEFINE e == PlannedEnd(w)
           n == Len(Segments[w.text])
<1>1. w.at \in Nat /\ n \in Nat /\ e \in Nat /\ e > w.at /\ e <= n /\ w.at < n
    BY SegmentFacts, BatchBounds DEF Workers
<1>2. Batch(w) = (w.at + 1)..e
    BY DEF Batch
<1> HIDE DEF e, n
<1>3. Lesser(e, n) = e /\ Lesser(w.at, n) = w.at
    BY <1>1 DEF Lesser
<1>4. 1..e = (1..w.at) \cup ((w.at + 1)..e)
    BY <1>1
<1>5. /\ FirstChunks(w.text, e) = {Segments[w.text][i] : i \in 1..e}
      /\ FirstChunks(w.text, w.at) = {Segments[w.text][i] : i \in 1..w.at}
    BY <1>3 DEF FirstChunks, n
<1>6. ChunksAt(w, Batch(w)) = {Segments[w.text][i] : i \in (w.at + 1)..e}
    BY <1>2 DEF ChunksAt
<1> QED BY <1>4, <1>5, <1>6 DEF e

LEMMA ChunksAtSplit ==
    ASSUME NEW w, NEW I, NEW J
    PROVE  /\ ChunksAt(w, I) \subseteq ChunksAt(w, I \ J) \cup ChunksAt(w, J)
           /\ J \subseteq I => ChunksAt(w, J) \subseteq ChunksAt(w, I)
BY DEF ChunksAt

\* The chunks of a batch are chunks.
LEMMA BatchChunks ==
    ASSUME NEW w \in Workers, w.at < Len(Segments[w.text]), NEW I \in SUBSET Batch(w)
    PROVE  ChunksAt(w, I) \subseteq ChunkId
<1>1. Batch(w) \subseteq 1..Len(Segments[w.text])
    BY BatchBounds, SegmentFacts DEF Batch, Workers
<1> QED BY <1>1, SegmentFacts DEF ChunksAt, Workers

-----------------------------------------------------------------------------
(* The invariant holds of a fresh worker and survives every action.        *)

LEMMA IngestInitInv == IngestInit => IInv
<1> SUFFICES ASSUME IngestInit PROVE IInv
    OBVIOUS
<1>1. request \in IngestOptions
    BY IngestAssumption DEF IngestInit
<1>2. worker \in Workers
    BY IngestAssumption DEF IngestInit, Workers, Phases
<1>3. NoCheckpoint \in Checkpoints
    BY DEF NoCheckpoint, Checkpoints
<1>4. IngestTypeOK
    BY <1>1, <1>2, <1>3 DEF IngestInit, IngestTypeOK
<1>5. worker.phase = "stopped" /\ ~checkpoint.mine
    BY DEF IngestInit, NoCheckpoint
<1> QED BY <1>4, <1>5 DEF IInv, RunInv, CheckpointInv, DoneInv, SameTextInv, Working, InBatch

\* No chunk that is stored, refused or deleted stops being one of the three,
\* and one that was stored stays stored or is deleted.
LEMMA AccountedGrows ==
    IngestNext => /\ Accounted \subseteq Accounted'
                  /\ (stored \cup deleted) \subseteq (stored \cup deleted)'
BY DEF IngestNext, IngestStep, StartIngest, EmbedAttempt, StoreBatch, SaveCheckpoint,
       ClearCheckpoint, StopIngest, EditSource, OthersDelete, OtherJob, Accounted

\* What a run starts from: the checkpoint's mark if it is one of its text.
LEMMA ResumeFacts ==
    ASSUME IngestTypeOK, CheckpointInv, NEW options \in IngestOptions
    PROVE  LET r == ResumeIndex(options)
               o == IF r = 0 \/ checkpoint.origin = source THEN source ELSE Mixed
           IN  /\ r \in Nat /\ r <= Len(Segments[source])
               /\ o # Mixed => FirstChunks(source, r) \subseteq Accounted
               /\ (r < Len(Segments[source]) /\ options.persist /\ o # Mixed /\ CheckpointMark # 0)
                     => checkpoint.origin = source
<1> DEFINE r == ResumeIndex(options)
           n == Len(Segments[source])
<1>1. source \in Source /\ n \in Nat /\ checkpoint.next \in Nat
    BY SegmentFacts DEF IngestTypeOK, Checkpoints
<1>2. r \in Nat /\ r <= n /\ (r # 0 => checkpoint.mine /\ (r = checkpoint.next \/ r = n))
      /\ (r = 0 /\ options.persist /\ checkpoint.mine /\ checkpoint.next # 0 => n = 0)
    BY <1>1 DEF ResumeIndex, Lesser
<1>3. Mixed # source
    BY <1>1, IngestAssumption
<1>4. r = 0 => FirstChunks(source, r) = {}
    BY <1>1, FirstChunksEmpty
<1>5. ASSUME r # 0, checkpoint.origin = source
      PROVE  FirstChunks(source, r) \subseteq Accounted
    <2>1. checkpoint.next <= n /\ FirstChunks(source, checkpoint.next) \subseteq Accounted
        BY <1>2, <1>3, <1>5 DEF CheckpointInv
    <2>2. r = checkpoint.next
        BY <1>1, <1>2, <1>5, <2>1 DEF ResumeIndex, Lesser
    <2> QED BY <2>1, <2>2
<1>6. CheckpointMark # 0 => checkpoint.mine /\ checkpoint.next # 0
    BY DEF CheckpointMark
<1> HIDE DEF r, n
<1>7. (r < n /\ options.persist /\ (r = 0 \/ checkpoint.origin = source) /\ CheckpointMark # 0)
         => checkpoint.origin = source
    BY <1>1, <1>2, <1>6
<1> QED BY <1>2, <1>3, <1>4, <1>5, <1>7 DEF r, n

LEMMA StartIngestInv ==
    ASSUME IInv, StartIngest
    PROVE  IngestTypeOK' /\ RunInv' /\ SameTextInv' /\ worker'.phase # "done"
<1> DEFINE r == ResumeIndex(request')
           o == IF r = 0 \/ checkpoint.origin = source THEN source ELSE Mixed
           b == Lesser(request'.batch, request'.max)
           s == [worker EXCEPT !.text = source, !.at = r, !.size = b, !.failed = FALSE,
                               !.origin = o]
<1>1. /\ request' \in IngestOptions /\ ingestRuns' = ingestRuns + 1
      /\ worker' = NextBatch(s)
      /\ UNCHANGED <<source, stored, refused, deleted, checkpoint>>
    BY DEF StartIngest
<1>2. IngestTypeOK /\ CheckpointInv
    BY DEF IInv
<1>3. /\ r \in Nat /\ r <= Len(Segments[source])
      /\ o # Mixed => FirstChunks(source, r) \subseteq Accounted
      /\ (r < Len(Segments[source]) /\ request'.persist /\ o # Mixed /\ CheckpointMark # 0)
            => checkpoint.origin = source
    BY <1>1, <1>2, ResumeFacts
<1>4. o \in {Mixed, source} /\ o \in Source \cup {Mixed}
    BY <1>2 DEF IngestTypeOK
<1>5. b \in Nat \ {0}
    BY <1>1, IngestAssumption DEF Lesser
<1> HIDE DEF r, o, b
<1>6. s \in Workers /\ s.text = source /\ s.at = r /\ s.origin = o
    BY <1>2, <1>3, <1>4, <1>5 DEF IngestTypeOK, Workers
<1> HIDE DEF s
<1>7. /\ worker' \in Workers
      /\ worker'.text = source /\ worker'.at = r /\ worker'.origin = o
      /\ worker'.phase \in {"embed", "clear"}
      /\ worker'.phase = "embed" => r < Len(Segments[source]) /\ worker'.pending = Batch(worker')
      /\ worker'.phase = "clear" => r = Len(Segments[source])
    <2>1. s.at <= Len(Segments[s.text])
        BY <1>3, <1>6
    <2> QED BY <1>1, <1>6, <2>1, NextBatchEffect
<1>8. IngestTypeOK'
    BY <1>1, <1>2, <1>7 DEF IngestTypeOK
<1>9. Accounted' = Accounted
    BY <1>1 DEF Accounted
<1>10. RunInv'
    BY <1>1, <1>3, <1>4, <1>7, <1>9 DEF RunInv, Working, InBatch, FirstChunks
<1>11. CheckpointMark' = CheckpointMark /\ source' = source /\ checkpoint' = checkpoint
    BY <1>1 DEF CheckpointMark
<1>12. SameTextInv'
    <2> SUFFICES ASSUME worker'.phase \in InBatch, request'.persist, o # Mixed,
                        CheckpointMark # 0
                 PROVE  checkpoint.origin = o
        BY <1>7, <1>11 DEF SameTextInv, InBatch
    <2>1. o = source /\ r < Len(Segments[source])
        BY <1>4, <1>7 DEF InBatch
    <2> QED BY <1>3, <2>1
<1> QED BY <1>7, <1>8, <1>10, <1>12

LEMMA EmbedAttemptInv ==
    ASSUME IInv, EmbedAttempt
    PROVE  IngestTypeOK' /\ RunInv' /\ SameTextInv' /\ worker'.phase # "done"
<1>1. PICK left \in Unembedded(worker) :
        LET tries == IF left = {} THEN worker.attempt ELSE worker.attempt + 1 IN
        worker' = IF left = {} \/ tries > MaxRetries
                  THEN [worker EXCEPT !.phase = "store", !.pending = left, !.attempt = 0]
                  ELSE [worker EXCEPT !.pending = left, !.attempt = tries]
    BY DEF EmbedAttempt
<1>2. /\ worker.phase = "embed" /\ worker \in Workers
      /\ UNCHANGED <<source, stored, refused, deleted, checkpoint, request, ingestRuns>>
    BY DEF EmbedAttempt, IInv, IngestTypeOK
<1> DEFINE tries == IF left = {} THEN worker.attempt ELSE worker.attempt + 1
<1>3. tries \in Nat /\ MaxRetries \in Nat /\ left \subseteq worker.pending /\ left \in SUBSET Nat
    BY <1>2, IngestAssumption DEF Workers, Unembedded
<1>4. worker' \in Workers /\ worker'.phase \in {"embed", "store"}
      /\ worker'.text = worker.text /\ worker'.at = worker.at /\ worker'.size = worker.size
      /\ worker'.origin = worker.origin /\ worker'.pending = left
    <2>1. CASE left = {} \/ tries > MaxRetries
        <3>1. worker' = [worker EXCEPT !.phase = "store", !.pending = left, !.attempt = 0]
            BY <1>1, <2>1
        <3>2. "store" \in Phases /\ 0 \in 0..MaxRetries
            BY <1>3 DEF Phases, Working
        <3> HIDE DEF tries
        <3> QED BY <1>2, <1>3, <3>1, <3>2 DEF Workers
    <2>2. CASE ~(left = {} \/ tries > MaxRetries)
        <3>1. worker' = [worker EXCEPT !.pending = left, !.attempt = tries]
            BY <1>1, <2>2
        <3>2. tries \in 0..MaxRetries
            BY <1>3, <2>2
        <3> HIDE DEF tries
        <3> QED BY <1>2, <1>3, <3>1, <3>2 DEF Workers
    <2> QED BY <2>1, <2>2
<1>5. Batch(worker') = Batch(worker) /\ Accounted' = Accounted
    BY <1>2, <1>4 DEF Batch, PlannedEnd, Accounted
<1>6. IngestTypeOK'
    BY <1>2, <1>4 DEF IInv, IngestTypeOK
<1>7. /\ worker.at <= Len(Segments[worker.text])
      /\ worker.origin \in {Mixed, worker.text}
      /\ worker.origin # Mixed => FirstChunks(worker.text, worker.at) \subseteq Accounted
      /\ worker.at < Len(Segments[worker.text]) /\ worker.pending \subseteq Batch(worker)
    BY <1>2 DEF IInv, RunInv, Working, InBatch
<1>8. RunInv'
    BY <1>2, <1>3, <1>4, <1>5, <1>7 DEF RunInv, Working, InBatch, FirstChunks
<1>9. SameTextInv'
    BY <1>2, <1>4 DEF IInv, SameTextInv, InBatch, CheckpointMark
<1> QED BY <1>4, <1>6, <1>8, <1>9

LEMMA StoreBatchInv ==
    ASSUME IInv, StoreBatch
    PROVE  IngestTypeOK' /\ RunInv' /\ SameTextInv' /\ worker'.phase # "done"
<1>1. /\ worker.phase = "store" /\ worker \in Workers
      /\ stored' = stored \cup ChunksAt(worker, Batch(worker) \ worker.pending)
      /\ worker' = [worker EXCEPT !.phase = "save"]
      /\ UNCHANGED <<source, refused, deleted, checkpoint, request, ingestRuns>>
    BY DEF StoreBatch, IInv, IngestTypeOK
<1>2. worker' \in Workers /\ worker'.phase = "save"
      /\ worker'.text = worker.text /\ worker'.at = worker.at /\ worker'.size = worker.size
      /\ worker'.origin = worker.origin /\ worker'.pending = worker.pending
    BY <1>1 DEF Workers, Phases, Working
<1>3. /\ worker.at < Len(Segments[worker.text]) /\ worker.pending \subseteq Batch(worker)
      /\ worker.at <= Len(Segments[worker.text])
      /\ worker.origin \in {Mixed, worker.text}
      /\ worker.origin # Mixed => FirstChunks(worker.text, worker.at) \subseteq Accounted
    BY <1>1 DEF IInv, RunInv, Working, InBatch
<1>4. Batch(worker') = Batch(worker) /\ Accounted \subseteq Accounted'
    BY <1>1, <1>2 DEF Batch, PlannedEnd, Accounted
<1>5. ChunksAt(worker', Batch(worker') \ worker'.pending) \subseteq (stored \cup deleted)'
    BY <1>1, <1>2, <1>4 DEF ChunksAt
<1>6. stored' \subseteq ChunkId
    <2>1. ChunksAt(worker, Batch(worker) \ worker.pending) \subseteq ChunkId
        BY <1>1, <1>3, BatchChunks
    <2> QED BY <1>1, <2>1 DEF IInv, IngestTypeOK
<1>7. IngestTypeOK'
    BY <1>1, <1>2, <1>6 DEF IInv, IngestTypeOK
<1>8. RunInv'
    BY <1>1, <1>2, <1>3, <1>4, <1>5 DEF RunInv, Working, InBatch, FirstChunks
<1>9. SameTextInv'
    BY <1>1, <1>2 DEF IInv, SameTextInv, InBatch, CheckpointMark
<1> QED BY <1>2, <1>7, <1>8, <1>9

\* Once its batch is stored, everything up to the end of the batch is accounted
\* for by the time the batch's refused texts are noted.
LEMMA BatchIsAccounted ==
    ASSUME IInv, SaveCheckpoint, worker.origin # Mixed
    PROVE  /\ worker.origin = worker.text
           /\ FirstChunks(worker.text, PlannedEnd(worker)) \subseteq stored \cup (refused \cup deleted)'
<1>1. /\ worker.phase = "save" /\ worker \in Workers
      /\ refused' = refused \cup ChunksAt(worker, worker.pending) /\ deleted' = deleted
    BY DEF SaveCheckpoint, IInv, IngestTypeOK
<1>2. /\ worker.origin = worker.text
      /\ FirstChunks(worker.text, worker.at) \subseteq Accounted
      /\ worker.at < Len(Segments[worker.text])
      /\ ChunksAt(worker, Batch(worker) \ worker.pending) \subseteq stored \cup deleted
    BY <1>1 DEF IInv, RunInv, Working, InBatch
<1>3. FirstChunks(worker.text, PlannedEnd(worker))
        = FirstChunks(worker.text, worker.at) \cup ChunksAt(worker, Batch(worker))
    BY <1>1, <1>2, FirstChunksOfBatch
<1>4. ChunksAt(worker, Batch(worker))
        \subseteq ChunksAt(worker, Batch(worker) \ worker.pending) \cup ChunksAt(worker, worker.pending)
    BY ChunksAtSplit
<1> QED BY <1>1, <1>2, <1>3, <1>4 DEF Accounted

\* Where a run is after a batch.
LEMMA SaveCheckpointRun ==
    ASSUME IInv, SaveCheckpoint
    PROVE  /\ worker' \in Workers
           /\ worker'.text = worker.text /\ worker'.origin = worker.origin
           /\ worker'.at = PlannedEnd(worker)
           /\ worker'.phase \in {"embed", "clear", "stopped"}
           /\ worker'.phase = "embed" =>
                 worker'.at < Len(Segments[worker'.text]) /\ worker'.pending = Batch(worker')
           /\ worker'.phase = "clear" => worker'.at = Len(Segments[worker'.text])
<1> DEFINE failed == worker.pending # {}
           e == PlannedEnd(worker)
           moved == [worker EXCEPT !.at = e, !.failed = @ \/ failed]
<1>1. worker \in Workers /\ worker.phase = "save" /\ request \in IngestOptions
      /\ worker.at < Len(Segments[worker.text])
    BY DEF SaveCheckpoint, IInv, IngestTypeOK, RunInv, InBatch
<1>2. e \in Nat /\ e <= Len(Segments[worker.text])
    BY <1>1, BatchBounds
<1>3. \/ worker' = Resting("stopped", moved)
      \/ \E pace \in {"fast", "even", "slow"} :
            worker' = NextBatch([moved EXCEPT !.size = TunedSize(worker, pace)])
    BY DEF SaveCheckpoint
<1>4. (worker.failed \/ failed) \in BOOLEAN
    BY DEF failed
<1> HIDE DEF e, failed
<1>5. moved \in Workers /\ moved.text = worker.text /\ moved.at = e /\ moved.origin = worker.origin
    BY <1>1, <1>2, <1>4 DEF Workers
<1> HIDE DEF moved
<1>6. CASE worker' = Resting("stopped", moved)
    <2>1. "stopped" \in Phases
        BY DEF Phases
    <2>2. /\ worker' \in Workers /\ worker'.phase = "stopped" /\ worker'.text = moved.text
          /\ worker'.at = moved.at /\ worker'.origin = moved.origin
        BY <1>5, <1>6, <2>1, RestingEffect
    <2> QED BY <1>5, <2>2 DEF e
<1>7. CASE \E pace \in {"fast", "even", "slow"} :
              worker' = NextBatch([moved EXCEPT !.size = TunedSize(worker, pace)])
    <2>1. PICK pace : worker' = NextBatch([moved EXCEPT !.size = TunedSize(worker, pace)])
        BY <1>7
    <2>2. TunedSize(worker, pace) \in Nat \ {0}
        BY <1>1, TunedIsPositive
    <2> DEFINE z == TunedSize(worker, pace)
               n == [moved EXCEPT !.size = z]
    <2> HIDE DEF z
    <2>3. n \in Workers /\ n.text = worker.text /\ n.at = e /\ n.origin = worker.origin
        BY <1>5, <2>2 DEF Workers, z
    <2>4. worker' = NextBatch(n)
        BY <2>1 DEF z
    <2> HIDE DEF n
    <2>5. n.at <= Len(Segments[n.text])
        BY <1>2, <2>3
    <2>6. /\ worker' \in Workers /\ worker'.text = n.text /\ worker'.at = n.at
          /\ worker'.origin = n.origin /\ worker'.phase \in {"embed", "clear"}
          /\ worker'.phase = "embed" =>
                worker'.at < Len(Segments[worker'.text]) /\ worker'.pending = Batch(worker')
          /\ worker'.phase = "clear" => worker'.at = Len(Segments[worker'.text])
        BY <2>3, <2>4, <2>5, NextBatchEffect
    <2> QED BY <2>3, <2>6 DEF e
<1> QED BY <1>3, <1>6, <1>7

LEMMA SaveCheckpointInv ==
    ASSUME IInv, SaveCheckpoint
    PROVE  IngestTypeOK' /\ RunInv' /\ CheckpointInv' /\ SameTextInv' /\ worker'.phase # "done"
<1>1. /\ worker.phase = "save" /\ worker \in Workers
      /\ checkpoint' = IF request.persist THEN Written(worker) ELSE checkpoint
      /\ refused' = refused \cup ChunksAt(worker, worker.pending)
      /\ UNCHANGED <<source, stored, deleted, request, ingestRuns>>
    BY DEF SaveCheckpoint, IInv, IngestTypeOK
<1>2. /\ worker.at < Len(Segments[worker.text]) /\ worker.pending \subseteq Batch(worker)
      /\ worker.origin \in {Mixed, worker.text} /\ worker.text \in Source
    BY <1>1 DEF IInv, RunInv, Working, InBatch, Workers
<1>3. PlannedEnd(worker) \in Nat /\ PlannedEnd(worker) <= Len(Segments[worker.text])
    BY <1>1, <1>2, BatchBounds
<1>4. worker.origin # Mixed =>
         worker.origin = worker.text
         /\ FirstChunks(worker.text, PlannedEnd(worker)) \subseteq Accounted'
    BY <1>1, BatchIsAccounted DEF Accounted
<1>5. /\ worker' \in Workers
      /\ worker'.text = worker.text /\ worker'.origin = worker.origin
      /\ worker'.at = PlannedEnd(worker)
      /\ worker'.phase \in {"embed", "clear", "stopped"}
      /\ worker'.phase = "embed" =>
            worker'.at < Len(Segments[worker'.text]) /\ worker'.pending = Batch(worker')
      /\ worker'.phase = "clear" => worker'.at = Len(Segments[worker'.text])
    BY SaveCheckpointRun
<1>6. Written(worker) \in Checkpoints
    BY <1>1, <1>3 DEF Written, Checkpoints, Workers
<1>7. IngestTypeOK'
    <2>1. ChunksAt(worker, worker.pending) \subseteq ChunkId
        BY <1>1, <1>2, BatchChunks
    <2> QED BY <1>1, <1>5, <1>6, <2>1 DEF IInv, IngestTypeOK
<1>8. RunInv'
    BY <1>2, <1>3, <1>4, <1>5 DEF RunInv, Working, InBatch, FirstChunks
<1>9. CheckpointInv'
    <2>1. CASE request.persist
        <3>1. checkpoint' = [mine |-> TRUE, next |-> PlannedEnd(worker), origin |-> worker.origin]
            BY <1>1, <2>1 DEF Written
        <3>2. checkpoint'.next = PlannedEnd(worker) /\ checkpoint'.origin = worker.origin
            BY <3>1
        <3> QED BY <1>3, <1>4, <3>2 DEF CheckpointInv, FirstChunks
    <2>2. CASE ~request.persist
        <3>1. checkpoint' = checkpoint /\ Accounted \subseteq Accounted'
            BY <1>1, <2>2 DEF Accounted
        <3> QED BY <3>1 DEF IInv, CheckpointInv, FirstChunks
    <2> QED BY <2>1, <2>2
<1>10. SameTextInv'
    BY <1>1, <1>5 DEF SameTextInv, Written
<1> QED BY <1>5, <1>7, <1>8, <1>9, <1>10

LEMMA ClearCheckpointInv ==
    ASSUME IInv, ClearCheckpoint
    PROVE  IInv'
<1>1. /\ worker.phase = "clear" /\ worker \in Workers
      /\ checkpoint' = IF request.persist THEN NoCheckpoint ELSE checkpoint
      /\ worker' = Resting("done", worker)
      /\ UNCHANGED <<source, stored, refused, deleted, request, ingestRuns>>
    BY DEF ClearCheckpoint, IInv, IngestTypeOK
<1>2. /\ worker' \in Workers /\ worker'.phase = "done" /\ worker'.text = worker.text
      /\ worker'.at = worker.at /\ worker'.origin = worker.origin
    BY <1>1, RestingEffect DEF Phases
<1>3. NoCheckpoint \in Checkpoints /\ ~NoCheckpoint.mine
    BY DEF NoCheckpoint, Checkpoints
<1>4. IngestTypeOK'
    BY <1>1, <1>2, <1>3 DEF IInv, IngestTypeOK
<1>5. Accounted' = Accounted
    BY <1>1 DEF Accounted
<1>6. RunInv' /\ SameTextInv'
    BY <1>2 DEF RunInv, SameTextInv, Working, InBatch
<1>7. CheckpointInv'
    BY <1>1, <1>3, <1>5 DEF IInv, CheckpointInv, FirstChunks
<1>8. DoneInv'
    <2>1. worker.at = Len(Segments[worker.text])
          /\ worker.origin \in {Mixed, worker.text}
          /\ (worker.origin # Mixed => FirstChunks(worker.text, worker.at) \subseteq Accounted)
        BY <1>1 DEF IInv, RunInv, Working
    <2> QED BY <1>2, <1>5, <2>1 DEF DoneInv, FirstChunks
<1> QED BY <1>4, <1>6, <1>7, <1>8 DEF IInv

LEMMA StopIngestInv ==
    ASSUME IInv, StopIngest
    PROVE  IInv'
<1>1. /\ worker \in Workers /\ worker' = Resting("stopped", worker)
      /\ UNCHANGED <<source, stored, refused, deleted, checkpoint, request, ingestRuns>>
    BY DEF StopIngest, IInv, IngestTypeOK
<1>2. worker' \in Workers /\ worker'.phase = "stopped"
    BY <1>1, RestingEffect DEF Phases
<1>3. IngestTypeOK' /\ Accounted' = Accounted
    BY <1>1, <1>2 DEF IInv, IngestTypeOK, Accounted
<1> QED BY <1>1, <1>2, <1>3
        DEF IInv, RunInv, CheckpointInv, DoneInv, SameTextInv, Working, InBatch, FirstChunks

\* An edit, a deletion or another job's file leaves the run alone.
LEMMA OthersInv ==
    ASSUME IInv, EditSource \/ OthersDelete \/ OtherJob
    PROVE  IInv'
<1>1. worker' = worker /\ request' = request /\ refused' = refused /\ ingestRuns' = ingestRuns
      /\ (checkpoint' = checkpoint \/ checkpoint' = NoCheckpoint)
    BY DEF EditSource, OthersDelete, OtherJob
<1>2. /\ source' \in Source /\ stored' \subseteq ChunkId /\ deleted' \subseteq ChunkId
      /\ stored' \cup deleted' = stored \cup deleted
    BY DEF EditSource, OthersDelete, OtherJob, IInv, IngestTypeOK
<1>3. Accounted' = Accounted
    BY <1>1, <1>2 DEF Accounted
<1>4. NoCheckpoint \in Checkpoints /\ ~NoCheckpoint.mine
    BY DEF NoCheckpoint, Checkpoints
<1>5. IngestTypeOK'
    BY <1>1, <1>2, <1>4 DEF IInv, IngestTypeOK
<1>6. RunInv'
    BY <1>1, <1>2, <1>3 DEF IInv, RunInv, FirstChunks, ChunksAt, Batch, PlannedEnd
<1>7. CheckpointInv' /\ DoneInv'
    BY <1>1, <1>3, <1>4 DEF IInv, CheckpointInv, DoneInv, FirstChunks
<1>8. SameTextInv'
    BY <1>1, <1>4 DEF IInv, SameTextInv, CheckpointMark
<1> QED BY <1>5, <1>6, <1>7, <1>8 DEF IInv

LEMMA IngestNextInv ==
    ASSUME IInv, [IngestNext]_ingestVars
    PROVE  IInv'
<1>1. CASE UNCHANGED ingestVars
    BY <1>1 DEF ingestVars, IInv, IngestTypeOK, RunInv, CheckpointInv, DoneInv, SameTextInv,
                Accounted, FirstChunks, ChunksAt, Batch, PlannedEnd, CheckpointMark
<1>2. CASE IngestNext
    <2>1. Accounted \subseteq Accounted'
        BY <1>2, AccountedGrows
    <2>2. checkpoint' = checkpoint => CheckpointInv'
        BY <2>1 DEF IInv, CheckpointInv, FirstChunks
    <2>3. worker'.phase # "done" => DoneInv'
        BY DEF DoneInv
    <2>4. CASE StartIngest
        BY <2>2, <2>3, <2>4, StartIngestInv DEF IInv, StartIngest
    <2>5. CASE EmbedAttempt
        BY <2>2, <2>3, <2>5, EmbedAttemptInv DEF IInv, EmbedAttempt
    <2>6. CASE StoreBatch
        BY <2>2, <2>3, <2>6, StoreBatchInv DEF IInv, StoreBatch
    <2>7. CASE SaveCheckpoint
        BY <2>3, <2>7, SaveCheckpointInv DEF IInv
    <2> QED BY <1>2, <2>4, <2>5, <2>6, <2>7, ClearCheckpointInv, StopIngestInv, OthersInv
            DEF IngestNext, IngestStep
<1> QED BY <1>1, <1>2

\* The invariant of every reachable state.
THEOREM IngestInvariant == IngestSpec => []IInv
<1>1. IngestInit => IInv
    BY IngestInitInv
<1>2. IInv /\ [IngestNext]_ingestVars => IInv'
    BY IngestNextInv
<1> QED BY <1>1, <1>2, PTL DEF IngestSpec

\* Types: a position is a number, a batch never has size 0, attempts stay in
\* their bound (IngestionWorker::ingest and its helpers).
THEOREM IngestTypeCorrect == IngestSpec => []IngestTypeOK
<1>1. IInv => IngestTypeOK
    BY DEF IInv
<1> QED BY <1>1, IngestInvariant, PTL

\* A checkpoint, and a run that ends well, leave no chunk unaccounted for
\* (IngestionCheckpoint::save, the loop of IngestionWorker::ingest).
THEOREM SkippedAlwaysAccounted == IngestSpec => []SkippedIsAccounted
<1>1. IInv => SkippedIsAccounted
    BY DEF IInv, CheckpointInv, DoneInv, SkippedIsAccounted, Accounted
<1> QED BY <1>1, IngestInvariant, PTL

-----------------------------------------------------------------------------
(* The worker implements ResumableTransfer.                                *)

\* The first items of the abstract job are the first chunks of the worker's.
LEMMA ItemsAreChunks ==
    ASSUME NEW t \in Source, NEW n \in Nat, n <= Len(Segments[t])
    PROVE  Transfer!FirstItems(t, n) = FirstChunks(t, n)
<1>1. Lesser(n, Len(Segments[t])) = n
    BY SegmentFacts DEF Lesser
<1> QED BY <1>1 DEF Transfer!FirstItems, FirstChunks

\* The abstract view of a checkpoint, whatever it is.
MarkOK ==
    /\ CheckpointMark \in Nat /\ CheckpointText \in Source
    /\ Transfer!FirstItems(CheckpointText, CheckpointMark) \subseteq Accounted

LEMMA MarkFacts == IInv => MarkOK
<1> SUFFICES ASSUME IngestTypeOK, CheckpointInv PROVE MarkOK
    BY DEF IInv
<1>1. /\ source \in Source /\ checkpoint.next \in Nat
      /\ checkpoint.origin \in Source \cup {Mixed}
    BY DEF IngestTypeOK, Checkpoints
<1>2. (CHOOSE t \in Source : TRUE) \in Source
    BY <1>1
<1>3. CheckpointMark \in Nat /\ CheckpointText \in Source
    BY <1>1, <1>2 DEF CheckpointMark, CheckpointText
<1>4. CASE checkpoint.mine /\ checkpoint.origin # Mixed
    <2>1. CheckpointMark = checkpoint.next /\ CheckpointText = checkpoint.origin
        BY <1>4 DEF CheckpointMark, CheckpointText
    <2> QED BY <1>1, <1>3, <1>4, <2>1, ItemsAreChunks DEF CheckpointInv, MarkOK
<1>5. CASE ~(checkpoint.mine /\ checkpoint.origin # Mixed)
    <2>1. CheckpointMark = 0
        BY <1>5 DEF CheckpointMark
    <2> QED BY <1>3, <2>1, ItemsAreChunks, FirstChunksEmpty, SegmentFacts DEF MarkOK
<1> QED BY <1>3, <1>4, <1>5 DEF MarkOK

LEMMA MarkFactsPrimed == IInv' => MarkOK'
BY MarkFacts, PTL

LEMMA SaveIsAdvanceOrForget ==
    ASSUME IInv, IInv', SaveCheckpoint
    PROVE  Transfer!Next
<1>1. /\ worker.phase = "save" /\ worker \in Workers
      /\ checkpoint' = IF request.persist THEN Written(worker) ELSE checkpoint
      /\ refused \subseteq refused' /\ deleted' = deleted /\ stored' = stored
    BY DEF SaveCheckpoint, IInv, IngestTypeOK
<1>2. /\ CheckpointMark' \in Nat /\ CheckpointText' \in Source
      /\ Transfer!FirstItems(CheckpointText', CheckpointMark') \subseteq Accounted'
    BY MarkFactsPrimed DEF MarkOK, Transfer!FirstItems
<1>3. (refused \cup deleted) \subseteq (refused \cup deleted)'
    BY <1>1
<1>4. Accounted' = stored \cup (refused \cup deleted)'
    BY <1>1 DEF Accounted
<1>5. ASSUME CheckpointText' = CheckpointText \/ CheckpointMark = 0
      PROVE  Transfer!Advance
    BY <1>1, <1>2, <1>3, <1>4, <1>5 DEF Transfer!Advance, Transfer!FirstItems
<1>6. CASE ~request.persist
    <2>1. CheckpointText' = CheckpointText
        BY <1>1, <1>6 DEF CheckpointText
    <2> QED BY <1>5, <2>1 DEF Transfer!Next
<1>7. CASE request.persist /\ worker.origin # Mixed
    <2>1. checkpoint'.origin = worker.origin
        BY <1>1, <1>7 DEF Written
    <2>2. CheckpointMark # 0 => checkpoint.origin = worker.origin
        BY <1>1, <1>7 DEF IInv, SameTextInv, InBatch
    <2>3. CheckpointMark # 0 => CheckpointText' = CheckpointText
        BY <2>1, <2>2 DEF CheckpointText
    <2> QED BY <1>5, <2>3 DEF Transfer!Next
<1>8. CASE request.persist /\ worker.origin = Mixed
    <2>1. checkpoint'.origin = Mixed
        BY <1>1, <1>8 DEF Written
    <2>2. CheckpointMark' = 0
        BY <2>1 DEF CheckpointMark
    <2> QED BY <1>1, <1>2, <1>3, <2>2 DEF Transfer!Next, Transfer!Forget
<1> QED BY <1>6, <1>7, <1>8

\* Every step of the worker is a step of the job, or leaves it as it was.
LEMMA TransferStep ==
    ASSUME IInv, IInv', [IngestNext]_ingestVars
    PROVE  [Transfer!Next]_(Transfer!vars)
<1>1. checkpoint' = checkpoint => CheckpointMark' = CheckpointMark /\ CheckpointText' = CheckpointText
    BY DEF CheckpointMark, CheckpointText
<1>2. CASE UNCHANGED <<stored, refused, deleted, checkpoint>>
    BY <1>1, <1>2 DEF Transfer!vars
<1>3. CASE StoreBatch
    BY <1>1, <1>3 DEF StoreBatch, Transfer!Next, Transfer!Arrive
<1>4. CASE SaveCheckpoint
    BY <1>4, SaveIsAdvanceOrForget
<1>5. CASE OthersDelete
    <2>1. PICK c \in stored : stored' = stored \ {c} /\ deleted' = deleted \cup {c}
        BY <1>5 DEF OthersDelete
    <2>2. refused' = refused /\ checkpoint' = checkpoint
        BY <1>5 DEF OthersDelete
    <2>3. (refused \cup deleted)' = (refused \cup deleted) \cup (stored \ stored')
        BY <2>1, <2>2
    <2> QED BY <1>1, <2>1, <2>2, <2>3 DEF Transfer!Next, Transfer!Remove
<1>6. CASE checkpoint' = NoCheckpoint /\ UNCHANGED <<stored, refused, deleted>>
    <2>1. CheckpointMark' = 0
        BY <1>6 DEF CheckpointMark, NoCheckpoint
    <2>2. CheckpointText' \in Source
        BY MarkFactsPrimed DEF MarkOK
    <2> QED BY <1>6, <2>1, <2>2 DEF Transfer!Next, Transfer!Forget
<1>7. \/ StoreBatch \/ SaveCheckpoint \/ OthersDelete
      \/ UNCHANGED <<stored, refused, deleted, checkpoint>>
      \/ checkpoint' = NoCheckpoint /\ UNCHANGED <<stored, refused, deleted>>
    BY DEF IngestNext, IngestStep, StartIngest, EmbedAttempt, ClearCheckpoint, StopIngest,
           EditSource, OtherJob, ingestVars
<1> QED BY <1>2, <1>3, <1>4, <1>5, <1>6, <1>7

\* Batches, retries, kills and the checkpoint file implement the abstract job
\* (IngestionWorker::ingest against ResumableTransfer).
THEOREM WorkerImplementsTransfer == IngestSpec => CheckpointsTransfer
<1>1. IngestInit => Transfer!Init
    <2> SUFFICES ASSUME IngestInit PROVE Transfer!Init
        OBVIOUS
    <2>1. CheckpointMark = 0 /\ CheckpointText \in Source /\ refused \cup deleted = {} /\ stored = {}
        BY DEF IngestInit, NoCheckpoint, CheckpointMark, CheckpointText
    <2> QED BY <2>1 DEF Transfer!Init
<1>2. IInv /\ IInv' /\ [IngestNext]_ingestVars => [Transfer!Next]_(Transfer!vars)
    BY TransferStep
<1> QED BY <1>1, <1>2, IngestInvariant, PTL DEF IngestSpec, CheckpointsTransfer, Transfer!Spec
=============================================================================
