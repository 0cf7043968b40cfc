SPECIFICATION FairSpec
CONSTANTS
    N = 4
    Plans <- MCPlans
    MaxParallel = 2
    MaxAttempts = 2
    MaxRetries = 1
    MaxFailures = 2
    MaxCrashes = 1
CHECK_DEADLOCK FALSE
INVARIANTS
    LayersRight
    DepsBuilt
    EditsKept
    DoneIsSaved
PROPERTIES
    DoneInOrder
    RunEnds
