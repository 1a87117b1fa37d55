SPECIFICATION BothSpec
CONSTANTS
    c1 = c1  c2 = c2  a1 = a1  a2 = a2
    Calls = {c1, c2}
    Kinds = {"publish", "manual", "batch", "engage", "discover", "bootstrap", "status"}
    Mixes <- CallMixes
    Accounts = {a1, a2}
    NoAccount = NoAccount
    NoCall = NoCall
    MaxForeign = 1

    u1 = u1  u2 = u2  w1 = w1  w2 = w2
    Users = {u1, u2}
    Workspaces = {w1, w2}
    EnvLogins = {w2}
    Demands <- DemandMixes
    NoUser = NoUser
    NoCookie = NoCookie
    MaxCookie = 2
INVARIANTS
    BothTypeOK
    NoResubmitAfterAnswer
    WrongAccountExplained
    ForeignIdExplained
    OwnProfileUndisturbed
    OneRenewalPerWorkspace
    PostedAtMostOnce
PROPERTIES
    CallsEnd
    ConnectingSettles
    RenewalsShared
CHECK_DEADLOCK FALSE
