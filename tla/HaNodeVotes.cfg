SPECIFICATION Spec
CONSTANTS
    s1 = s1
    p1 = p1
    v1 = v1
    none = none
    Node <- MCNode
    Val <- MCVal
    Self = s1
    None = none
    Configs <- VoteConfigs
    ReceiveRequests <- OneEntryReceives
    VoteRequests <- VoteCandidacies
    Heartbeats <- VoteHeartbeats
    Ackers <- NoRequests
    Indexes <- NoPositions
    MaxIndex = 1
    MaxTerm = 2
    DiskFaults = TRUE
INVARIANTS
    TypeOK
    PrimaryHasVoted
PROPERTIES
    OneVotePerTerm
