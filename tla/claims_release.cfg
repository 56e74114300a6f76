SPECIFICATION Spec
CONSTANTS
    Machines = {m1, m2}
    Free = Free
    Bad = Bad
    MaxFaults = 1
INVARIANT ReleasedMeansGone
