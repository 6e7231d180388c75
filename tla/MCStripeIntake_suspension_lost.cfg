SPECIFICATION Spec
CONSTANTS
    p1 = p1
    p2 = p2
    r1 = r1
    t1 = t1
    t2 = t2
    s1 = s1
    s2 = s2
    Worker = {p1}
    Receipts = {r1}
    Ticks = {}
    Scans = {}
    MaxPages = 1
    MaxAttempts = 2
    MaxCrashes = 1
    MaxReplays = 0
PROPERTY SuspensionIsAnnounced
CHECK_DEADLOCK FALSE
