\* One process, two requests of any kind at once, against the worker.
SPECIFICATION ScheduledSpec
CONSTANTS
    p1 = p1  p2 = p2  c1 = c1  c2 = c2  c3 = c3  j1 = j1  j2 = j2  d1 = d1  r1 = r1 r2 = r2  a1 = a1  a2 = a2
    Jobs = {j1}
    Drafts = {d1}
    DraftOf <- SameDraft
    PlatformOf <- AllStocktwits
    Accounts = {a1, a2}
    NoAccount = NoAccount
    Procs <- OneProc
    Requests = {r1, r2}
    Home <- HomeFirst
    Conns <- OneConn
    NoConn = NoConn
    Pool <- OnePool
    None = None
    Handlers <- AllHandlers
    MaxRetries = 1
    DeadLetterEnabled = TRUE
    BullAttempts = 2
    Mishaps <- NoMishaps
    MaxMishaps = 0
    MaxRequests = 2
    MaxArmed = 2
INVARIANT DrainedFailuresDeadLettered
PROPERTY SuccessUndoneOnlyByStaleWrite
SYMMETRY AccountSymmetry
CHECK_DEADLOCK FALSE
