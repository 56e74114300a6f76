SPECIFICATION FairSpec
CONSTANTS
    raw = raw
    leased = leased
    Ids = {raw, leased}
    Mode <- OneOfEach
    Keys = {k1}
    None = None
    Procs = {p1, p2}
    MaxGen = 2
    MaxFaults = 1
    MaxCrashes = 1
INVARIANTS StartedOnce OneOperationPerKey SucceededIsTrue OldGenerationsHoldNothing
PROPERTIES OneLife TerminalIsFinal RunningIsInHand RevokedIsStopped
CHECK_DEADLOCK FALSE
