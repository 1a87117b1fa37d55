\* Two configured accounts and one that an operator may link; a job with its
\* reroutes and retries, a manual post, operators.
SPECIFICATION Spec
CONSTANTS
    a1 = a1  a2 = a2  a3 = a3  j1 = j1  m1 = m1
    Accounts = {a1, a2, a3}
    Configured = {a1, a2}
    Nobody = Nobody
    Gone = Gone
    Jobs = {j1}
    Posters = {m1}
    StartHealth = {40}
    MaxRuns = 2
    MaxEdits = 2
INVARIANTS TypeOK QuarantinedAwaitReview SelectionFollowsConfiguration RerouteLeavesAccount
PROPERTY WithdrawalEndsKnowingly
SYMMETRY ConfiguredSymmetry
CHECK_DEADLOCK FALSE
