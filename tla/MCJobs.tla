------------------------------- MODULE MCJobs -------------------------------
(***************************************************************************)
(* Small instances of Jobs: two texts of three and two segments, three     *)
(* rows on two pages, two keys, two snapshots, exports of three records.   *)
(***************************************************************************)
EXTENDS Jobs, TLC, SequencesExt

CONSTANTS text1, text2, mixed, old, new, written, edited, absent, noKey, m1, m2,
          secret1, secret2, garbage, noSource, s1, s2

Ch(w, c) == [w |-> w, c |-> c]
A == Ch(1, "letter")
Wide == Ch(2, "letter")
Stop == Ch(1, "stop")
Line == Ch(1, "newline")
Hash == Ch(1, "hash")
Space == Ch(1, "space")

\* The worker's source, as chunk_fixed() cuts it; an id hashes a segment and its characters.
Read(s) == IF s = text1 THEN <<A, Stop, Wide>> ELSE <<A, Stop, A>>
IdsOf(t) ==
    FoldLeft(LAMBDA ids, seg : Append(ids, <<seg, {<<n, t[n]>> : n \in Within(t, seg)}>>), <<>>,
             SegmentsOf(t, [kind |-> "fixed", max |-> 2, overlap |-> 1]))
MCSource == {text1, text2}
CutTexts == text1 :> IdsOf(Read(text1)) @@ text2 :> IdsOf(Read(text2))
MCSegments == CutTexts
MCChunkId == UNION {{MCSegments[s][i] : i \in DOMAIN MCSegments[s]} : s \in MCSource}

Ingest(batch, max, adaptive, cont, persist) ==
    [batch |-> batch, max |-> max, adaptive |-> adaptive, cont |-> cont, persist |-> persist]
MCIngestOptions ==
    {Ingest(1, 2, TRUE, FALSE, TRUE), Ingest(2, 2, FALSE, TRUE, TRUE),
     Ingest(2, 2, TRUE, TRUE, FALSE)}

\* All texts of two characters, and some longer ones.
MCDocText ==
    [1..2 -> {A, Wide, Stop, Line, Hash}] \cup
    {<<Wide, Line, Space, Hash, A, Stop, Space, A>>, <<A, A, A, A, A>>,
     <<Hash, A, Line, Hash, A, A, A>>, <<A, Stop, Space, Space, Stop, A, A, A>>, <<Space>>, <<>>}
MCStrategies == {[kind |-> k, max |-> m, overlap |-> o] :
                   k \in {"fixed", "heading", "semantic"}, m \in {0, 3}, o \in {2}}

Over(batch, tenant, mismatch, cont, persist) ==
    [batch |-> batch, tenant |-> tenant, mismatch |-> mismatch, cont |-> cont,
     persist |-> persist]
MCReindexOptions ==
    {Over(2, "t", TRUE, FALSE, TRUE), Over(2, "u", TRUE, TRUE, TRUE),
     Over(1, "t", FALSE, TRUE, FALSE)}
RowFor(id, tenant) == [id |-> id, tenant |-> tenant, text |-> written, model |-> old]
MCInitialChunks == {<<RowFor("a", "t"), RowFor("b", "t"), RowFor("c", "u")>>}

MCInitialSealed ==
    {<<[id |-> "a", key |-> noKey, with |-> noKey, plain |-> secret1]>>}

Rec(id, d, text, dim, src, docSrc, meta) ==
    [id |-> id, doc |-> d, text |-> text, dim |-> dim, src |-> src, docSrc |-> docSrc,
     docMeta |-> meta]
Doc(id, src, meta) == [id |-> id, src |-> src, meta |-> meta]
Lines(chunkLines) == [kind |-> "jsonl", documents |-> <<>>, chunks |-> chunkLines]

\* A chunk given twice, a wrong dimension in the second batch, the export repaired, a sqlite
\* source whose last embedding is empty, and one of another dimension that lists a document twice.
MCExports ==
    {Lines(<<Rec("a", "d", "x", 1, s1, noSource, "m1"), Rec("b", "d", "y", 1, noSource, s2, "m2"),
             Rec("a", "e", "z", 2, noSource, s2, "m1")>>),
     Lines(<<Rec("a", "d", "x", 1, s1, noSource, "m1"), Rec("b", "d", "y", 1, noSource, s2, "m2"),
             Rec("a", "e", "z", 1, noSource, s2, "m1")>>),
     [kind |-> "sqlite", documents |-> <<Doc("d", s2, "m3"), Doc("e", noSource, "m3")>>,
      chunks |-> <<Rec("b", "d", "w", 1, noSource, noSource, "m1"),
                   Rec("c", "e", "y", 1, s1, noSource, "m2"),
                   Rec("c", "f", "y", 0, noSource, noSource, "m2")>>],
     [kind |-> "sqlite", documents |-> <<Doc("d", s2, "m1"), Doc("d", noSource, "m3")>>,
      chunks |-> <<Rec("b", "d", "w", 2, noSource, noSource, "m1"),
                   Rec("c", "e", "y", 2, s1, noSource, "m2")>>]}
=============================================================================
