SPECIFICATION FirstSpec
CONSTANTS
    MaxRuns = 1
INVARIANTS
    PreviousIsActive
CHECK_DEADLOCK FALSE
