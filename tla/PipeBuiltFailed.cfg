SPECIFICATION Spec
CONSTANTS
    AutoBuildFrontend = TRUE
    VerifyLoop = TRUE
    HardGate = TRUE
    GithubPublish = TRUE
    CodemagicIntegration = TRUE
    CodemagicAutoBuild = TRUE
    NoTree = NoTree
    MaxRetries = 1
    MaxRequests = 0
    MaxFailures = 1
    MaxCrashes = 0
CHECK_DEADLOCK FALSE
INVARIANTS
    BuiltIsNotFailed
