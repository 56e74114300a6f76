SPECIFICATION FairSpec
CONSTANTS
    s = s
    t = t
    pr = pr
    merge = merge
    other = other
    None = None
    Corrupt = Corrupt
    Sessions = {s, t}
    LegacyOwners = {s, t}
    Ops = {pr, merge, other}
    SessionOf <- TwoSessions
    Kind <- PrepareAndMerge
    MaxTakeovers = 1
    MaxFaults = 1
    MaxReuses = 1
INVARIANTS OneDriver DriverRecorded
PROPERTY NeverBlockedForGood
CHECK_DEADLOCK FALSE
