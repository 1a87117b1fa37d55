\* One process whose pool has two connections, one account (so no reroute), one
\* job, the replay of its dead letter.
SPECIFICATION Spec
CONSTANTS
    p1 = p1  p2 = p2  c1 = c1  c2 = c2  c3 = c3  j1 = j1  j2 = j2  d1 = d1  r1 = r1 r2 = r2  a1 = a1  a2 = a2
    Jobs = {j1}
    Drafts = {d1}
    DraftOf <- SameDraft
    PlatformOf <- AllStocktwits
    Accounts = {a1}
    NoAccount = NoAccount
    Procs <- OneProc
    Requests = {r1}
    Home <- HomeFirst
    Conns <- TwoConns
    NoConn = NoConn
    Pool <- OnePoolOfTwo
    None = None
    Handlers <- ReplayHandlers
    MaxRetries = 1
    DeadLetterEnabled = TRUE
    BullAttempts = 2
    Mishaps <- NoMishaps
    MaxMishaps = 0
    MaxRequests = 2
    MaxArmed = 2
INVARIANT NoStuckDrafts
CHECK_DEADLOCK FALSE
