SPECIFICATION Spec
CONSTANTS
    Requests = {r1, r2, r3}
    MayOmit = FALSE
    MaxDrafts = 2
    MaxRevision = 4
SYMMETRY Symmetry
INVARIANTS
    GateInv
    OneWritePerItem
PROPERTIES
    DecidedIsFinal
