SPECIFICATION FairSpec
CONSTANTS
    MaxTicks = 1
    MaxRetries = 1
    MaxRequests = 1
    MaxFailures = 1
    MaxCrashes = 1
CHECK_DEADLOCK FALSE
INVARIANTS
    LatestBuilt
    OneBuildPerMessage
    BuildsAccounted
    RowsTellTruth
PROPERTIES
    DeliveryDrains
