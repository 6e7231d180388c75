SPECIFICATION FindingsSpec
CONSTANTS
    o1 = o1
    o2 = o2
    p1 = p1
    p2 = p2
    r1 = r1
    r2 = r2
    r3 = r3
    u1 = u1
    u2 = u2
    u3 = u3
    f1 = f1
    Order = {o1, o2}
    Payment = {p1, p2}
    Case <- Shops
    LastTime = 3
    Window = 2
    Delay = 1
    Findings = {f1}
    CoverageRule = {f1}
    Runner = {r1, r2}
    Operator = {u1, u2}
    Gap = 2
    MaxSuppress = 2
    MayShadow = FALSE
    MaxTime = 4
    MaxVersion = 4
    MaxCoverage = 1
SYMMETRY RunnerSymmetry
INVARIANTS
    EvidenceTypeOK
    RaisedIsReal
    CleanIsReal
    HealthyIsSilent
    TypeOK
    EitherLifeIsAlerted
    VersionNamesContent
PROPERTIES
    ResolvedAfterCleanStreak
    SuppressionHolds
CHECK_DEADLOCK FALSE
