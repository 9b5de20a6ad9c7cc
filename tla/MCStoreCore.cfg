SPECIFICATION Spec
CONSTANTS
    Writers = {w1, w2}
    Entities = {e1, e2}
    Keys = {k1, k2}
    Seconds = {"none", "advance", "initialize"}
    NoEntity = NoEntity
    MaxReceipts = 3
SYMMETRY Symmetry
INVARIANTS
    OneAppliedPerKey
    NoLostUpdate
    SuccessAnswersAgree
    AuditTrailComplete
PROPERTIES
    LedgerRefined
