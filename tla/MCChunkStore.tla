---------------------------- MODULE MCChunkStore ----------------------------
(***************************************************************************)
(* Small instances of ChunkStore: two or three chunks, two documents, at   *)
(* most three rows ever inserted.                                          *)
(***************************************************************************)
EXTENDS ChunkStore, TLC

CONSTANTS a, b, c, d1, d2, hashed, plain, v1, v2, garbled, none, h1, h2

MCChunk == {a, b}
ThreeChunks == {a, b, c}
MCDoc == {d1, d2}
MCMeta == {hashed, plain}
MCHashed == {hashed}
MCVector == {v1, v2}

Way(persist, logged, shared, crashes) ==
    [persist |-> persist, wal |-> logged, shared |-> shared, crashes |-> crashes]

\* One handle after the other: with a rollback journal and kills, and with a log.
SequentialConfigs == {Way(TRUE, FALSE, FALSE, TRUE), Way(TRUE, TRUE, FALSE, FALSE)}

\* Two handles at a time that keep no sidecar.
SharedConfigs == {Way(FALSE, FALSE, TRUE, FALSE)}

\* The default configuration, a new handle for each call.
DefaultConfigs == {Way(TRUE, TRUE, TRUE, FALSE)}

E(n, v) == [dim |-> n, vec |-> v]
I(x, d, m, e) == [id |-> x, doc |-> d, meta |-> m, emb |-> e]

\* One chunk, two, three, a chunk that moves to another document, another dimension.
SequentialBatches ==
    {<<I(a, d1, hashed, E(1, v1))>>, <<I(a, d2, plain, E(1, v2))>>,
     <<I(a, d1, hashed, E(1, v1)), I(b, d1, hashed, E(1, v1))>>,
     <<I(a, d1, plain, E(1, v1)), I(b, d1, plain, E(1, v1)), I(c, d1, plain, E(1, v1))>>,
     <<I(b, d1, hashed, E(2, v1))>>}
SequentialTexts == {<<I(a, d1, hashed, none)>>}
SequentialEmbeddings == {E(1, v2), E(2, v1)}

SharedMeta == {hashed}
SharedDoc == {d1}
SharedBatches == {<<I(a, d1, hashed, E(1, v1))>>, <<I(b, d1, hashed, E(1, v1))>>}
SharedTexts == {<<I(b, d1, hashed, none)>>}
SharedEmbeddings == {E(1, v2)}

OneHandle == {h1}
TwoHandles == {h1, h2}
HandleSymmetry == Permutations(TwoHandles)

NoTexts == {}
=============================================================================
