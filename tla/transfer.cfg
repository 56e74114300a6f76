SPECIFICATION Spec
CONSTANTS
    MaxHead = 2
    MaxFaults = 3
    MaxCrashes = 2
INVARIANTS WorkLogTruthful RetiredEvidenceTrue MoveIsCheckpointed SucceededIsComplete
CHECK_DEADLOCK FALSE
