SPECIFICATION Spec
CONSTANTS
    a = a
    b = b
    Screens = {a, b}
    Edges <- MCEdges
    Pages <- MCPages
    Navs <- MCNavs
    Router = Router
    Elsewhere = Elsewhere
    Interpolated = Interpolated
    NoPage = NoPage
    NoFile = NoFile
    MaxIterations = 3
    StructuralGate = TRUE
    HardGate = TRUE
    MaxFailures = 2
INVARIANTS
    ReportFresh
    PassedWasShown
    ClosedMeansClosed
    NeverIdle
PROPERTY
    LoopEnds
CHECK_DEADLOCK FALSE
