SPECIFICATION FairSpec
CONSTANTS
    Machines = {m1, m2}
    Free = Free
    Bad = Bad
    MaxFaults = 1
INVARIANTS BelievedClaimStands NothingLeftBehind
PROPERTIES CommandEnds AtomicRegister
