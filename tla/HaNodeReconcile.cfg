SPECIFICATION Spec
CONSTANTS
    s1 = s1
    p1 = p1
    v1 = v1
    none = none
    Node <- MCNode
    Val <- MCVal
    Self = s1
    None = none
    Configs <- LogConfigs
    ReceiveRequests <- LogReceives
    VoteRequests <- NoRequests
    Heartbeats <- LogHeartbeats
    Ackers <- AckPeers
    Indexes <- Positions
    MaxIndex = 3
    MaxTerm = 3
    DiskFaults = FALSE
PROPERTIES
    ReconcileStopsAtHead
