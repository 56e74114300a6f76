SPECIFICATION Spec
CONSTANTS
    raw = raw
    leased = leased
    Ids = {leased}
    Mode <- OneOfEach
    Keys = {k1}
    None = None
    Procs = {p1}
    MaxGen = 1
    MaxFaults = 0
    MaxCrashes = 0
INVARIANT EndsWithReceipt
CHECK_DEADLOCK FALSE
