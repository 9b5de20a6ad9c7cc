SPECIFICATION IntakeSpec
CONSTANTS
    NumMail = 0
    Hooks = {k1}
    Pump = Pump
    Handlers = {h1, h2}
    Categories = {ca, cb}
    Policies <- MCPolicies
    FollowUp = "follow_up"
    Lower = {k1}
    Deferred = {"follow_up", "calendar"}
    MaxEdits = 2
    MaxFaults = 1
SYMMETRY Symmetry
INVARIANTS
    IntakeInv
PROPERTIES
    OneVerdictPerGeneration
    EmissionKeepsItem
CHECK_DEADLOCK FALSE
