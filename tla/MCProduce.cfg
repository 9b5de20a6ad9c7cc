SPECIFICATION FairSpec
CONSTANTS
    Slots = {1, 2, 3, 4}
    Clicks = {c1}
    Pump = pump
    Runs = {r1}
    Barren = {3}
    Proposable = {2}
    OptedIn = {1, 2, 3}
    MaxPerCycle = 1
    ScanLimit = 2
    MaxDrafts <- MCMaxDrafts
    MaxFaults = 1
INVARIANTS
    SlotInv
    OneActiveDraft
    NoDoubleSpend
PROPERTIES
    FirstDraftsProduced
