\* No crashes, two leader changes: an earlier leader can lead again.
CONSTANTS
    n1 = n1
    n2 = n2
    n3 = n3
    Never = Never
    Nodes <- MCNodes
    InitMasterSlaves <- OneSet
    InitLeader = n3
    Timeout = 2
    MaxCrashes = 0
    MaxFailovers = 2
    MaxElections = 2
    SyncHeartbeats = TRUE
    ElectOnLeaderCrash = FALSE
    LossyRelay = FALSE
SPECIFICATION Spec
PROPERTY NoLiveMasterFailedOver
