SPECIFICATION FairSpec
CONSTANTS
    a = a
    b = b
    c = c
    None = None
    Jobs = {a, b, c}
    Units <- MixedUnits
    Budget = 2
    MaxFaults = 1
INVARIANTS
    NoHoldAndWait
    NoGhostRecord
PROPERTIES
    CountingBudget
    ServedUnlessCrowdedOut
