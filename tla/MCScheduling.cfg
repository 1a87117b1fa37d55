CONSTANTS
    c1 = c1
    c2 = c2
    d1 = d1
    d2 = d2
    t1 = t1
    a1 = a1
    a2 = a2
    None = None
    Drafts = {d1, d2}
    Targets = {t1}
    Accounts = {a1, a2}
    Callers = {c1, c2}
    Runner = c1
    TargetsOf <- OneTarget
    TargetOffset <- NoOffset
    PlatformOf <- OnePlatform
    Policy <- TightPolicy
    Similar <- BothAlike
    Cooldown = 2
    Day = 3
    Stagger = 1
    LookBack = 1
    RetryDelay = 0
    Adaptive = 1
    MaxTime = 1
    MaxCalls = 2
    MaxMoves = 1
SPECIFICATION Spec
SYMMETRY Symmetric
INVARIANT TypeOK
INVARIANT DuplicatesExplained
INVARIANT QuotaExplained
CHECK_DEADLOCK FALSE
