SPECIFICATION Spec
CONSTANTS
    p1 = p1
    p2 = p2
    w1 = w1
    w2 = w2
    Worker = {p1, p2}
    Work = {w1, w2}
    Exempt = {w2}
    MaxAttempts = 2
    MaxCopies = 2
    MaxFaults = 1
    MaxReplays = 1
INVARIANTS
    TypeOK
    RepeatsAreReported
    RunningHoldsRow
    AttemptsBounded
PROPERTIES
    ContractSpec
    EventuallySettled
CONSTRAINT ReplayAlone
CHECK_DEADLOCK FALSE
