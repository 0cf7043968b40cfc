SPECIFICATION FairSpec
CONSTANTS
    AutoBuildFrontend = FALSE
    VerifyLoop = TRUE
    HardGate = TRUE
    GithubPublish = TRUE
    CodemagicIntegration = TRUE
    CodemagicAutoBuild = FALSE
    NoTree = NoTree
    MaxRetries = 1
    MaxRequests = 3
    MaxFailures = 2
    MaxCrashes = 1
CHECK_DEADLOCK FALSE
INVARIANTS
    DoneMeansPushed
PROPERTIES
    QueueDrains
