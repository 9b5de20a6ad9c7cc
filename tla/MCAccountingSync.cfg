SPECIFICATION SyncSpec
CONSTANTS
    Realms = {a, b}
    Walks <- MCWalks
    Records <- MCRecords
    Entered = {1, 2}
    Contents = {x, y}
    Groups <- MCGroups
    Complete = {"month"}
    PageSize = 1
    RetryAfter = 2
    Scopes <- MCScopes
SYMMETRY Symmetry
INVARIANTS
    CacheInv
    GrantInv
PROPERTIES
    StandsDown
CHECK_DEADLOCK FALSE
