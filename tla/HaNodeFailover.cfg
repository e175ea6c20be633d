SPECIFICATION LiveSpec
CONSTANTS
    s1 = s1
    p1 = p1
    v1 = v1
    none = none
    Node <- MCNode
    Val <- MCVal
    Self = s1
    None = none
    Configs <- VoteConfigs
    ReceiveRequests <- OneEntryReceives
    VoteRequests <- NoRequests
    Heartbeats <- VoteHeartbeats
    Ackers <- NoRequests
    Indexes <- NoPositions
    MaxIndex = 2
    MaxTerm = 3
    DiskFaults = FALSE
PROPERTIES
    SilenceEndsInFailover
