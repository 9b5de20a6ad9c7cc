SPECIFICATION FairSpec
CONSTANTS
    Keys = {1, 2, 3}
    MaxConcurrent = 1
    NoRun = NoRun
    Requests = {1, 2}
    Threads = {1, 2}
    Pump = 0
    Budget = 1
    Lookahead = 2
    Scopes <- MCScopes
INVARIANTS
    EnrichInv
PROPERTIES
    EditsWin
    DecidedIsHeld
    EveryGapTried
CHECK_DEADLOCK FALSE
