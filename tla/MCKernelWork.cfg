SPECIFICATION Spec
CONSTANTS
    Executions = {1, 2}
    Messages = {3}
    Workers = {x1}
    Threads = {t1, t2}
    Ttl = 1
    BatchSize = 2
    RecoverLimit = 2
    MaxAttempts = 2
    Lag = 1
    MaxTime = 2
    MaxLeases = 2
    MaxRevision = 5
SYMMETRY Symmetry
INVARIANTS
    LeaseInv
PROPERTIES
    LiveLeaseHonoured
    QueueRefined
CHECK_DEADLOCK FALSE
