SPECIFICATION FairSpec
CONSTANTS
    N = 4
    Before <- MCBefore
    Plans = {planA, planB}
    NoPlan = NoPlan
    MaxRetries = 2
    MaxFailures = 2
    MaxCrashes = 2
    MaxTears = 0
    MaxBotched = 0
    MaxMisreads = 0
    MaxEnqueues = 1
CHECK_DEADLOCK FALSE
PROPERTIES
    ImplementsResumableBuild
    EventuallyBuilt
