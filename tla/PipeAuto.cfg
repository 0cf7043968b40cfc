SPECIFICATION Spec
CONSTANTS
    AutoBuildFrontend = TRUE
    VerifyLoop = TRUE
    HardGate = TRUE
    GithubPublish = TRUE
    CodemagicIntegration = TRUE
    CodemagicAutoBuild = TRUE
    NoTree = NoTree
    MaxRetries = 1
    MaxRequests = 2
    MaxFailures = 2
    MaxCrashes = 1
CHECK_DEADLOCK FALSE
INVARIANTS
    OneBuildManyVersions
    ReworkKept
    KnownGapsNotPublished
    OpenRowsAreCrashes
    CodemagicBuildsStored
    QuietJobSettled
