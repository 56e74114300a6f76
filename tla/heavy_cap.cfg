SPECIFICATION Spec
CONSTANTS
    j1 = j1
    j2 = j2
    j3 = j3
    j4 = j4
    j5 = j5
    Jobs = {j1, j2, j3, j4}
    Pids = {j1, j2, j3, j4}
    PidOf <- OwnProcess
    Observer = Observer
    None = None
    N = 8
    MaxStalls = 0
    MaxCrashes = 0
    MaxFailures = 1
SYMMETRY JobSymmetry
INVARIANTS
    AtMostThree
    NotCountedTwice
    NoOvertaking
PROPERTIES
    SharedBudget
CHECK_DEADLOCK FALSE
