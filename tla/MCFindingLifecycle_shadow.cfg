SPECIFICATION Spec
CONSTANTS
    p1 = p1
    p2 = p2
    u1 = u1
    u2 = u2
    f1 = f1
    f2 = f2
    Findings = {f1}
    CoverageRule = {}
    Runner = {p1}
    Operator = {u1}
    Gap = 2
    MaxSuppress = 1
    MayShadow = TRUE
    MaxTime = 4
    MaxVersion = 6
    MaxCoverage = 0
PROPERTY ResolvedAfterCleanStreak
CHECK_DEADLOCK FALSE
