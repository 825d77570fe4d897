\* One crash and one leader change during a failover.
CONSTANTS
    n1 = n1
    n2 = n2
    n3 = n3
    Never = Never
    Nodes <- MCNodes
    InitMasterSlaves <- OneSet
    InitLeader = n3
    Timeout = 2
    MaxCrashes = 1
    MaxFailovers = 2
    MaxElections = 1
    SyncHeartbeats = TRUE
    ElectOnLeaderCrash = FALSE
    LossyRelay = TRUE
SPECIFICATION Spec
INVARIANT ReplicationFollowsTopology
