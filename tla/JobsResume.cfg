SPECIFICATION Spec
CONSTANTS
    text1 = text1
    text2 = text2
    mixed = mixed
    old = old
    new = new
    written = written
    edited = edited
    absent = absent
    noKey = noKey
    m1 = m1
    m2 = m2
    secret1 = secret1
    secret2 = secret2
    garbage = garbage
    noSource = noSource
    s1 = s1
    s2 = s2
    ActiveJobs = {"ingest"}
    Source <- MCSource
    ChunkId <- MCChunkId
    Segments <- MCSegments
    Mixed = mixed
    IngestOptions <- MCIngestOptions
    MaxRetries = 1
    MaxIngestRuns = 2
    DocText <- MCDocText
    Strategies <- MCStrategies
    MaxDocIngests = 2
    ReindexId = {"a", "b", "c"}
    ReindexTenant = {"t", "u"}
    ReindexText = {edited}
    Absent = absent
    TargetModel = new
    OldModel = old
    ReindexOptions <- MCReindexOptions
    InitialChunks <- MCInitialChunks
    MaxReindexRuns = 2
    MaxReindexEdits = 2
    KeyId = {"k1", "k2"}
    Material = {m1, m2}
    NoKey = noKey
    Adder = {1, 2}
    SealedId = {"a", "b"}
    Secret = {secret2}
    Garbage = garbage
    RotationPage = 1
    InitialSealed <- MCInitialSealed
    MaxKeyChanges = 2
    MaxSealedWrites = 2
    MaxRotations = 2
    Retentions = {0, 1}
    MaxClock = 2
    MaxCommits = 1
    MaxSnapshots = 2
    MaxInterventions = 2
    Exports <- MCExports
    MigrationBatch = 2
    NoSource = noSource
    MaxMigrations = 3
INVARIANTS
    CleanRunIsComplete
CHECK_DEADLOCK FALSE
