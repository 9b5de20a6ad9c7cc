SPECIFICATION FairSpec
CONSTANTS
    NumMail = 2
    Hooks = {}
    Pump = Pump
    Handlers = {}
    Categories = {ca}
    Policies <- MCPolicies
    FollowUp = "follow_up"
    Lower = {2}
    Deferred = {"follow_up", "calendar"}
    MaxEdits = 1
    MaxFaults = 1
PROPERTIES
    EveryMailHandled
    EveryMessageExamined
CHECK_DEADLOCK FALSE
