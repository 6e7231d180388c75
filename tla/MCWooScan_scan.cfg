SPECIFICATION Spec
CONSTANTS
    p1 = p1
    p2 = p2
    Process = {p1, p2}
    Order = {1, 2}
    PageSize = 1
    Lag = 1
    Overlap = 0
    History = 1
    MaxAge = 3
    MaxAttempts = 1
    MaxTime = 2
    MaxEdits = 1
    MaxScans = 2
    MaxJobs = 1
    MaxFaults = 1
SYMMETRY ProcessSymmetry
INVARIANTS
    TypeOK
    CoverageIsKnown
    CursorIsCovered
CHECK_DEADLOCK FALSE
