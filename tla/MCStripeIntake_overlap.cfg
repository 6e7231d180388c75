SPECIFICATION SafeSpec
CONSTANTS
    p1 = p1
    p2 = p2
    r1 = r1
    t1 = t1
    t2 = t2
    s1 = s1
    s2 = s2
    Worker = {p1, p2}
    Receipts = {}
    Ticks = {t1, t2}
    Scans = {s1, s2}
    MaxPages = 1
    MaxAttempts = 2
    MaxCrashes = 1
    MaxReplays = 1
SYMMETRY ScanSymmetry
VIEW WithoutHistory
INVARIANTS
    TypeOK
    ScanHasWork
    
PROPERTY ClosedScanStays
CONSTRAINT ReplayAlone
CHECK_DEADLOCK FALSE
