SPECIFICATION Spec
CONSTANTS
    NoMessage = NoMessage
    NoVersion = NoVersion
    NoFile = NoFile
    NoAccount = NoAccount
    Mixed = Mixed
    NoDraft = NoDraft
    NoApp = NoApp
    Sizes = {1, 2}
    HasShared = TRUE
    MaxRetries = 1
    MaxRequests = 2
    MaxFailures = 1
    MaxCrashes = 1
CHECK_DEADLOCK FALSE
INVARIANTS
    IconRemains
    PreviewTrue
    PushedWhole
    LegalLinkKept
    LinkedPageServed
    OwnAccountKept
    SettingsReachApp
