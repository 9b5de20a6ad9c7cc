SPECIFICATION Spec
CONSTANTS
    Keys = {s1, s2}
    MaxConcurrent = 1
    NoRun = NoRun
    Requests = {c1, c2}
    Handlers = {h1, h2}
    Workers = {w1, w2}
    MayAbort = TRUE
    MayPanic = TRUE
    MaxRevision = 2
    MaxFaults = 1
SYMMETRY Symmetry
INVARIANTS
    GenerationInv
    LiveRunIsCurrent
PROPERTIES
    ApprovedIsNotRedrafted
CHECK_DEADLOCK FALSE
