SPECIFICATION FairSpec
CONSTANTS
    Procs = {p1, p2, p3, p4}
    NoPid = NoPid
    Remains = Remains
    MaxAttempts = 3
    MaxFaults = 2
CHECK_DEADLOCK FALSE
INVARIANTS OneHarness ReplacedOnlyWhenGone StartedIsFinal ReceiptIsTrue
PROPERTY RetrySettles
