SPECIFICATION FairSpec
CONSTANTS
    Keys = {m}
    MaxConcurrent = 1
    NoRun = NoRun
    Manual = m
    Bodies = {b1, b2}
    Mirrors = {r1, r2}
    Protected = {p1}
    Requests = {c1}
    Pump = Pump
    Handlers = {h1}
    Workers = {w1}
    Days = 1
    BatchSize = 2
    MaxRows = 3
    MaxTime = 2
    MaxFaults = 1
INVARIANTS
    RetentionInv
    ClearedIsReceipted
PROPERTIES
    OldPayloadsCleared
CHECK_DEADLOCK FALSE
