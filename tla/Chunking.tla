------------------------------ MODULE Chunking ------------------------------
(***************************************************************************)
(* How a text is cut into segments (ingest.rs: chunk_fixed,                *)
(* chunk_heading_aware, chunk_semantic), and ingest_document_text (lib.rs),*)
(* which stores the segments under ids numbered from 0.                    *)
(*                                                                         *)
(* A text is a sequence of characters [w, c]: its width in bytes and its   *)
(* class, "hash", "newline", "space", "stop" (. ! ?) or "letter".          *)
(* Positions are byte offsets, 0 before the first character; a segment is  *)
(* [start, end].                                                           *)
(***************************************************************************)
EXTENDS Naturals, Sequences, FiniteSets, FiniteSetsExt, Selection

CONSTANTS
    DocText,            \* the texts a document can have
    Strategies,         \* [kind, max, overlap]
    MaxDocIngests

Character == [w : Nat \ {0}, c : {"hash", "newline", "space", "stop", "letter"}]

ASSUME ChunkingAssumption ==
    /\ DocText \subseteq Seq(Character)
    /\ \A s \in Strategies : /\ s.kind \in {"fixed", "heading", "semantic"}
                             /\ s.max \in Nat /\ s.overlap \in Nat

VARIABLES
    doc,        \* the text and strategy of the last ingest, and the chunks it reported
    docChunks,  \* number of a chunk |-> the text and segment it holds
    docIngests

chunkingVars == <<doc, docChunks, docIngests>>

\* The byte offset at which character i of the text ends.
OffsetOf(t) == LET o[i \in 0..Len(t)] == IF i = 0 THEN 0 ELSE o[i - 1] + t[i].w IN o

Bytes(t) == OffsetOf(t)[Len(t)]
Boundaries(t) == {OffsetOf(t)[i] : i \in 0..Len(t)}

\* The characters of a stretch of the text.
Within(t, seg) ==
    {i \in DOMAIN t : seg.start < OffsetOf(t)[i] /\ OffsetOf(t)[i] <= seg.end}

Blank(c) == c \in {"space", "newline"}
AllBlank(t, seg) == \A i \in Within(t, seg) : Blank(t[i].c)

Segment(start, end) == [start |-> start, end |-> end]

-----------------------------------------------------------------------------
\* Faulty variant of FixedEnd: it does not back off to a character.
FixedEndAnywhere(bounds, start, stop, max) == IF start + max <= stop THEN start + max ELSE stop

\* A segment ends at most max bytes on, at a character; if there is none, at the end of the text.
FixedEnd(bounds, start, stop, max) ==
    LET fits == {b \in bounds : start < b /\ b <= start + max /\ b <= stop}
    IN  IF fits = {} THEN stop ELSE Max(fits)

\* The next one starts overlap bytes before that end, if that is progress.
NextStart(bounds, start, end, overlap) ==
    LET back == {b \in bounds : start < b /\ b + overlap <= end}
    IN  IF back = {} THEN end ELSE Max(back)

\* A turn of chunk_fixed(): the segment from the start, and where the next one starts.
Turned(bounds, stop, max, overlap, cut) ==
    LET end == FixedEnd(bounds, cut.start, stop, max)
    IN  [start |-> IF end = stop THEN stop ELSE NextStart(bounds, cut.start, end, overlap),
         segs  |-> Append(cut.segs, Segment(cut.start, end))]

\* None is left at the end.
NextTurn(bounds, stop, max, overlap, cut) ==
    IF cut.start = stop THEN cut ELSE Turned(bounds, stop, max, overlap, cut)

\* The text between two positions after each turn.
FixedTurns(bounds, from, stop, max, overlap) ==
    LET cut[n \in 0..(stop - from)] ==
          IF n = 0 THEN [start |-> from, segs |-> <<>>]
          ELSE NextTurn(bounds, stop, max, overlap, cut[n - 1])
    IN  cut

AtLeastOne(n) == IF n = 0 THEN 1 ELSE n
Overlap(overlap, max) == IF overlap < max THEN overlap ELSE max - 1

\* chunk_fixed() of the text between two positions.
FixedSegments(t, from, stop, maxChars, overlapChars) ==
    LET max == AtLeastOne(maxChars)
    IN  FixedTurns(Boundaries(t), from, stop, max, Overlap(overlapChars, max))[stop - from].segs

\* Lines whose first visible character is a hash start a section.
HeadingStarts(t) ==
    {b \in {OffsetOf(t)[i] : i \in {n \in 0..(Len(t) - 1) : n = 0 \/ t[n].c = "newline"}} :
       LET line == {i \in DOMAIN t : OffsetOf(t)[i] > b
                                     /\ \A j \in DOMAIN t : OffsetOf(t)[j] > b /\ j < i
                                                            => t[j].c # "newline"}
           seen == {i \in line : ~Blank(t[i].c)}
       IN  seen # {} /\ t[Min(seen)].c = "hash"}

SectionStarts(t) == HeadingStarts(t) \cup {0}

\* A section ends where the next one starts.
SectionStop(t, i) ==
    IF i < Cardinality(SectionStarts(t)) THEN Nth(SectionStarts(t), i + 1) ELSE Bytes(t)
Section(t, i, maxChars, overlapChars) ==
    FixedSegments(t, Nth(SectionStarts(t), i), SectionStop(t, i), maxChars, overlapChars)

\* The segments of the sections up to each one.
HeadingTurns(t, maxChars, overlapChars) ==
    LET cut[i \in 0..Cardinality(SectionStarts(t))] ==
          IF i = 0 THEN <<>> ELSE cut[i - 1] \o Section(t, i, maxChars, overlapChars)
    IN  cut

HeadingSegments(t, maxChars, overlapChars) ==
    HeadingTurns(t, maxChars, overlapChars)[Cardinality(SectionStarts(t))]

\* Sentences end after a stop; they are joined as long as they fit.
SentenceEnds(t) == {OffsetOf(t)[i] : i \in {n \in DOMAIN t : t[n].c = "stop"}} \cup {Bytes(t)}
Sentences(t) ==
    LET ends == SentenceEnds(t)
    IN  [i \in 1..Cardinality(ends) |->
           Segment(IF i = 1 THEN 0 ELSE Nth(ends, i - 1), Nth(ends, i))]

Joined(segs, s, max) ==
    IF segs = <<>> THEN <<s>>
    ELSE IF s.end - segs[Len(segs)].start > max THEN Append(segs, s)
    ELSE [segs EXCEPT ![Len(segs)] = Segment(@.start, s.end)]

\* The segments after each sentence.
SemanticTurns(t, max) ==
    LET cut[n \in 0..Len(Sentences(t))] ==
          IF n = 0 THEN <<>> ELSE Joined(cut[n - 1], Sentences(t)[n], max)
    IN  cut

SemanticSegments(t, maxChars) ==
    LET segs == SemanticTurns(t, AtLeastOne(maxChars))[Len(Sentences(t))]
    IN  SelectAt(segs, {i \in DOMAIN segs : ~AllBlank(t, segs[i])})

\* chunk_content()
SegmentsOf(t, strategy) ==
    IF t = <<>> THEN <<>>
    ELSE IF strategy.kind = "fixed"
         THEN FixedSegments(t, 0, Bytes(t), strategy.max, strategy.overlap)
    ELSE IF strategy.kind = "heading" THEN HeadingSegments(t, strategy.max, strategy.overlap)
    ELSE SemanticSegments(t, strategy.max)

-----------------------------------------------------------------------------
\* An empty result stores nothing; a shorter one leaves the later numbers as they were.
IngestDocumentText ==
    /\ docIngests < MaxDocIngests
    /\ docIngests' = docIngests + 1
    /\ \E t \in DocText, strategy \in Strategies :
         LET segs == SegmentsOf(t, strategy) IN
         /\ doc' = [text |-> t, strategy |-> strategy, count |-> Len(segs)]
         /\ docChunks' = [n \in DOMAIN docChunks \cup 1..Len(segs) |->
                            IF n <= Len(segs) THEN [text |-> t, seg |-> segs[n]] ELSE docChunks[n]]

ChunkingInit ==
    /\ doc = [text |-> <<>>, strategy |-> CHOOSE s \in Strategies : TRUE, count |-> 0]
    /\ docChunks = [n \in {} |-> doc]
    /\ docIngests = 0

ChunkingNext == IngestDocumentText

ChunkingSpec == ChunkingInit /\ [][ChunkingNext]_chunkingVars

-----------------------------------------------------------------------------
\* max_chars counts bytes; a character wider than that, or a sentence, is not cut.
Uncuttable(t, strategy, seg) ==
    \/ \E i \in DOMAIN t : t[i].w > strategy.max
    \/ strategy.kind = "semantic" /\ \E i \in DOMAIN Sentences(t) : Sentences(t)[i] = seg

(***************************************************************************)
(* However a document is cut, and whatever was stored under its ids        *)
(* before, every visible character of its text is in one of its chunks, no *)
(* chunk splits a character, and a chunk is longer than the limit only     *)
(* where one character or one sentence is.                                 *)
(***************************************************************************)
DocumentCovered ==
    LET t == doc.text
        s == doc.strategy
        segs == {docChunks[n].seg : n \in 1..doc.count}
    IN  /\ \A i \in DOMAIN t : Blank(t[i].c) \/ \E seg \in segs : i \in Within(t, seg)
        /\ \A seg \in segs :
             /\ {seg.start, seg.end} \subseteq Boundaries(t)
             /\ seg.end - seg.start <= s.max \/ Uncuttable(t, s, seg)
=============================================================================
