SPECIFICATION Spec
CONSTANTS
    Jobs = {j1, j2}
    Workloads <- MCWorkloads
    MaxAttempts = 2
    MaxFaults = 2
    MaxRetries = 1
SYMMETRY Symmetry
INVARIANTS
    WritesInv
    BlindWritesExplained
    DeliveredIsComplete
