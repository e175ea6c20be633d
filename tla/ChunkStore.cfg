SPECIFICATION Spec
CONSTANTS
    a = a
    b = b
    c = c
    d1 = d1
    d2 = d2
    hashed = hashed
    plain = plain
    h1 = h1
    h2 = h2
    v1 = v1
    v2 = v2
    garbled = garbled
    none = none
    Chunk <- ThreeChunks
    Doc <- MCDoc
    Meta <- MCMeta
    Hashed <- MCHashed
    Vector <- MCVector
    Garbled = garbled
    NoEmb = none
    Handle <- OneHandle
    Configs <- SequentialConfigs
    Batches <- SequentialBatches
    Texts <- SequentialTexts
    Embeddings <- SequentialEmbeddings
    MaxKey = 3
INVARIANTS
    TypeOK
    FilteredSearchSound
PROPERTIES
    OpenSeesRows
