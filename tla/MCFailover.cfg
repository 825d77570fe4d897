\* One replica set, one crash, a new leader only when the leader is down,
\* heartbeats within the timeout.
CONSTANTS
    n1 = n1
    n2 = n2
    n3 = n3
    Never = Never
    Nodes <- MCNodes
    InitMasterSlaves <- OneSet
    InitLeader = n3
    Timeout = 1
    MaxCrashes = 1
    MaxFailovers = 2
    MaxElections = 1
    SyncHeartbeats = TRUE
    ElectOnLeaderCrash = TRUE
    LossyRelay = FALSE
SPECIFICATION Spec
INVARIANT TypeOK
INVARIANT ReplicationFollowsTopology
PROPERTY HeardMasterReplaced
