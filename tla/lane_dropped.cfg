SPECIFICATION Spec
CONSTANTS
    s = s
    t = t
    pr = pr
    merge = merge
    other = other
    None = None
    Corrupt = Corrupt
    Sessions = {s, t}
    LegacyOwners = {s, t}
    Ops = {pr, merge, other}
    SessionOf <- TwoSessions
    Kind <- PrAndMerge
    MaxTakeovers = 0
    MaxFaults = 0
    MaxReuses = 0
INVARIANT TwoSessionsNeverDrive
CHECK_DEADLOCK FALSE
