SPECIFICATION ServicesSpec
CONSTANTS
    Parts = {"queue", "stripe", "mail", "erasure", "credentials", "pairing", "access"}
    p1 = p1
    r1 = r1
    t1 = t1
    s1 = s1
    w1 = w1
    w2 = w2
    e1 = e1
    e2 = e2
    f1 = f1
    v1 = v1
    i1 = i1
    i2 = i2
    c1 = c1
    c2 = c2
    u1 = u1
    q1 = q1
    q2 = q2
    k1 = k1
    b1 = b1
    b2 = b2
    Worker = {p1}
    Receipts = {r1}
    Ticks = {t1}
    Scans = {s1}
    MaxPages = 1
    MaxAttempts = 2
    MaxCrashes = 0
    MaxReplays = 1
    Event = {e1}
    Route = {r1}
    Quota = 1
    MaxMailTime = 4
    MaxMailCrashes = 1
    MaxReports = 1
    File = {f1}
    Invite = {v1}
    MaxEraseCrashes = 1
    Stripes = {i1, i2}
    Consent = {c1, c2}
    MaxTokens = 3
    MaxTokenCrashes = 1
    Code = {c1, c2}
    MaxKeys = 2
    MaxLate = 1
    User = {u1}
    Staff = {u1}
    Process = {q1, q2}
    RequestKey = {k1}
    Body = {b1, b2}
    MaxLapses = 1
INVARIANTS
    ServicesTypeOK
    
    ReceiptHasWork
    
    RepeatsNeedACrash
    OverflowIsCovered
    ComplaintIsHeard
    
    RestoreKeepsErased
    StoredTokenWorks
    HoldsLiveKey
    RepeatActsOnce
PROPERTIES
    
    ScansEnd
    
    
    DeletionEnds
    LostTokenIsNoticed
CHECK_DEADLOCK FALSE
