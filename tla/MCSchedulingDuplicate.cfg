CONSTANTS
    c1 = c1
    c2 = c2
    d1 = d1
    d2 = d2
    t1 = t1
    a1 = a1
    a2 = a2
    None = None
    Drafts = {d1, d2}
    Targets = {t1}
    Accounts = {a1, a2}
    Callers = {c1}
    Runner = c1
    TargetsOf <- OneTarget
    TargetOffset <- NoOffset
    PlatformOf <- OnePlatform
    Policy <- SpreadPolicy
    Similar <- BothAlike
    Cooldown = 2
    Day = 3
    Stagger = 1
    LookBack = 20
    RetryDelay = 0
    Adaptive = 1
    MaxTime = 3
    MaxCalls = 1
    MaxMoves = 0
SPECIFICATION Spec
SYMMETRY Symmetric
INVARIANT NoDuplicatePublished
CHECK_DEADLOCK FALSE
