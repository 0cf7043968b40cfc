SPECIFICATION FairSpec
CONSTANTS
    N = 4
    Before <- MCBefore
    Plans = {planA, planB}
    NoPlan = NoPlan
    MaxRetries = 2
    MaxFailures = 3
    MaxCrashes = 2
    MaxTears = 2
    MaxBotched = 1
    MaxMisreads = 1
    MaxEnqueues = 1
CHECK_DEADLOCK FALSE
INVARIANTS
    CheckpointInv
PROPERTIES
    ProgressKept
    BuiltOnce
    MessageUsedUp
