SPECIFICATION Spec
CONSTANTS
    Slides = {1, 2}
    NoPage = NoPage
    NoMessage = NoMessage
    MaxIterations = 2
    MaxRetries = 1
    MaxRequests = 2
    MaxFailures = 1
    MaxCrashes = 1
CHECK_DEADLOCK FALSE
INVARIANTS
    ListingHangsTogether
    
