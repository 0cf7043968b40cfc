SPECIFICATION FairSpec
CONSTANTS
    N = 4
    Before <- MCBefore
    Plans = {planA}
    NoPlan = NoPlan
    MaxRetries = 2
    MaxFailures = 0
    MaxCrashes = 1
    MaxTears = 0
    MaxBotched = 1
    MaxMisreads = 0
    MaxEnqueues = 0
CHECK_DEADLOCK FALSE
PROPERTIES
    EventuallyBuilt
