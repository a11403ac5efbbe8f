SPECIFICATION FairSpec
CONSTANTS
    MaxRuns = 2
    MaxBatches = 2
    MaxInterrupts = 1
INVARIANTS
    Inv
PROPERTIES
    AbortIsEarned
    SessionUnlocks
CHECK_DEADLOCK FALSE
