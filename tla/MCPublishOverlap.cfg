\* Two processes, every handler, one crash, failing await, closed connection
\* or deleted account anywhere.
SPECIFICATION ScheduledSpec
CONSTANTS
    p1 = p1  p2 = p2  c1 = c1  c2 = c2  c3 = c3  j1 = j1  j2 = j2  d1 = d1  r1 = r1 r2 = r2  a1 = a1  a2 = a2
    Jobs = {j1}
    Drafts = {d1}
    DraftOf <- SameDraft
    PlatformOf <- AllStocktwits
    Accounts = {a1, a2}
    NoAccount = NoAccount
    Procs <- TwoProcs
    Requests = {r1}
    Home <- HomeFirst
    Conns <- ThreeConns
    NoConn = NoConn
    Pool <- TwoPools
    None = None
    Handlers <- AllHandlers
    MaxRetries = 1
    DeadLetterEnabled = TRUE
    BullAttempts = 2
    Mishaps <- AllMishaps
    MaxMishaps = 1
    MaxRequests = 1
    MaxArmed = 2
INVARIANTS TypeOK ExclusiveExecution PostsAuthorised SuccessWasPosted
PROPERTY JobsFollowLifecycle
SYMMETRY OverlapSymmetry
CHECK_DEADLOCK FALSE
