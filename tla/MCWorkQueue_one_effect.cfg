SPECIFICATION SafeSpec
CONSTANTS
    p1 = p1
    p2 = p2
    w1 = w1
    w2 = w2
    Worker = {p1, p2}
    Work = {w1}
    Exempt = {}
    MaxAttempts = 3
    MaxCopies = 2
    MaxFaults = 1
    MaxReplays = 0
INVARIANT OneEffect
CHECK_DEADLOCK FALSE
