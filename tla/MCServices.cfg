SPECIFICATION ServicesSpec
CONSTANTS
    i1 = i1  i2 = i2  i3 = i3
    Sources = {"reddit", "news"}
    Setups = {{"reddit"}, {"news"}}
    Caught = {"reddit"}
    Searching = {"reddit"}
    Batches <- TheBatches
    Items = {i1, i2, i3}
    Home <- TheHome
    Meaningful = {i1, i2}
    BadDate = {i2}
    EventKey <- TheKeys
    MinQualified = 1
    TimeRanges = {1, 2, 3}
    Words = {1, 2, 3, 4, 5}
    Searches <- AllSearches
    MaxCycles = 2

    r1 = r1  r2 = r2  k1 = k1  k2 = k2  k3 = k3  g1 = g1
    Runs = {r1, r2}
    PipeConns = {k1, k2, k3}
    Process <- TheProcess
    NoPipeConn = NoPipeConn
    Signals = {g1}
    SymbolOf <- TheSymbol
    Windows = {1}
    MinEvents = 1
    TopLimit = 1
    Bodies = {"b1", "b2"}
    Clean = {"b1"}
    MaxTime = 1

    p1 = p1  p2 = p2  d1 = d1  d2 = d2
    Posts = {p1, p2}
    Requests <- RequestMixes
    Channels = {d1, d2}
    NoPost = NoPost
    LoginOf <- TheLogins
    NoLogin = NoLogin
    MaxChannels = 2

    f1 = f1  f2 = f2  s1 = s1  s2 = s2  s3 = s3  s4 = s4
    Flows = {f1, f2}
    Approvals = {f2}
    Seeds = {s1, s2, s3, s4}
    IdSeeds = {s3}
    Approved <- TheApproved
    Refs = {"@a", "a", "old", "new"}
    NoRef = NoRef
    RefOf <- TheRefs
    Defaults = {"a"}
    Chats = {"A", "B"}
    ChatOf <- TheChats
    MovesTo <- TheMoves
    Rows = {1, 2, 3, 4, 5}
    MaxTries = 2
INVARIANTS
    ServicesTypeOK
    StaleStateExplained
    ActiveSourcesStored
    PlansWidenInOrder
    ProcessesExclude
    TrendOncePerEvidence
    StrandedDraftsExplained
    SuccessIsWhole
    ConfirmedReported
    SenderExplained
    ChargedOnce
    BlockedOnlyByTwins
    TwiceOnlyWhenLost
SYMMETRY RunSymmetry
CHECK_DEADLOCK FALSE
