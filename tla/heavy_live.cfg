SPECIFICATION FairSpec
CONSTANTS
    j1 = j1
    j2 = j2
    j3 = j3
    j4 = j4
    j5 = j5
    Jobs = {j1, j2, j3}
    Pids = {j1, j2}
    PidOf <- TwoProcesses
    Observer = Observer
    None = None
    N = 8
    MaxStalls = 1
    MaxCrashes = 1
    MaxFailures = 0
CONSTRAINT ThirdOnlyWhenCalm
INVARIANTS
    NoGhostHolder
    CapRespected
PROPERTIES
    WaiterServed
CHECK_DEADLOCK FALSE
