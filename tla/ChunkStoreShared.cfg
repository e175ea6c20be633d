SPECIFICATION Spec
CONSTANTS
    a = a
    b = b
    c = c
    d1 = d1
    d2 = d2
    hashed = hashed
    plain = plain
    h1 = h1
    h2 = h2
    v1 = v1
    v2 = v2
    garbled = garbled
    none = none
    Chunk <- MCChunk
    Doc <- SharedDoc
    Meta <- SharedMeta
    Hashed <- MCHashed
    Vector <- MCVector
    Garbled = garbled
    NoEmb = none
    Handle <- TwoHandles
    Configs <- SharedConfigs
    Batches <- SharedBatches
    Texts <- SharedTexts
    Embeddings <- SharedEmbeddings
    MaxKey = 2
INVARIANTS
    VectorIndexFaithful
PROPERTIES
    OrphanRemovalKeepsChunks
SYMMETRY HandleSymmetry
