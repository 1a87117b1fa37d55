\* Two configured accounts, a job, operators.
SPECIFICATION Spec
CONSTANTS
    a1 = a1  a2 = a2  a3 = a3  j1 = j1  m1 = m1
    Accounts = {a1, a2}
    Configured = {a1, a2}
    Nobody = Nobody
    Gone = Gone
    Jobs = {j1}
    Posters = {}
    StartHealth = {100}
    MaxRuns = 2
    MaxEdits = 2
INVARIANT RestrictionChargedToPoster
CHECK_DEADLOCK FALSE
