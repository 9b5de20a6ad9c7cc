SPECIFICATION FairSpec
CONSTANTS
    Jobs = {a1, p1}
    LaunchJobs = {a1}
    Pump = pump
    MaxAttempts = 2
    ClaimBatch = 2
    MayStall = TRUE
    MaxRetries = 1
    MaxFaults = 2
INVARIANTS
    CourierInv
    PostsAccounted
PROPERTIES
    LifecycleRefined
    EveryJobSettles
CHECK_DEADLOCK FALSE
