SPECIFICATION Spec
CONSTANTS
    ServingParts = {"index", "files", "search", "dialect", "catalog", "operations", "access"}
    IndexKinds = {"brute", "lsh", "hnsw"}
    IndexBatches <- MCIndexBatches
    IndexIds = {1, 2}
    IndexKeys = {1, 2, 3}
    Queries <- MCQueries
    Limits = {1, 2}
    KeySets <- MCKeySets
    Planes <- MCPlanes
    MinCandidates = 1
    HammingRadius = 1
    CandidateMultiplier = 1
    ExactCrossover = 1
    FilteredCrossover = 0
    MaxEntries = 3
    AnnKinds = {"lsh", "hnsw"}
    AnnBatches <- MCAnnBatches
    AnnIds = {1, 2}
    MaxAnnKey = 2
    MaxAnnClock = 2
    MaxAnnCrashes = 1
    SearchTables <- MCSearchTables
    KeysGiven = 4
    SearchEdits <- MCSearchEdits
    Requests <- MCRequests
    Setups <- MCSetups
    Rank <- MCRank
    Overlap <- MCOverlap
    Groups = {"g", "h"}
    AnyGroup = "any"
    Tuning <- MCTuning
    MaxSearchWrites = 1
    Words <- MCWords
    Numbers <- MCNumbers
    Statements <- MCStatements
    DialectTuning <- MCDialectTuning
    Sessions = {1, 2}
    DdlStatements <- MCDdl
    Identifiers = {"i", "j", "t", "c", "HNSW", "FTS5"}
    Columns <- MCColumns
    MaxDdl = 4
    ElectionTimeout = 1
    FaultDurations = {0, 1}
    DiskMayFail = TRUE
    TraceCapacity = 2
    MaxOpClock = 2
    MaxOpRequests = 3
    MaxOpRestarts = 1
    Caller = {1, 2}
    Deployments <- MCDeployments
    Contexts <- MCContexts
    Anonymous <- MCAnonymous
    Blank = " "
    AccessIds = {1}
    AccessTenants = {"acme", "beta"}
    AccessRows <- MCAccessRows
    MaxCalls = 2
INVARIANTS
    IndexConsistent
    LoadedIsStored
    SearchSound
    RoomySearchIsExhaustive
    RewriteIsMeant
    ReportsAddUp
    MeasuresOnRecord
    RequestsAddUp
    TrailAccounts
PROPERTIES
    AnswersAsPromised
CHECK_DEADLOCK FALSE
