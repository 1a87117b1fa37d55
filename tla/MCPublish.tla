----------------------------- MODULE MCPublish -----------------------------
(***************************************************************************)
(* Instances of PublishJobs for TLC.  The cfg files choose the handlers    *)
(* and the disturbances; here are the values they name.                    *)
(***************************************************************************)
EXTENDS PublishJobs, TLC

CONSTANTS p1, p2, c1, c2, c3, j1, j2, d1, r1, r2, a1, a2

\* One application process, as deployed, with a pool of one connection.
OneProc == {p1}
OneConn == {c1}
OnePool == (p1 :> {c1})

\* One process with a pool of two connections.
TwoConns == {c1, c2}
OnePoolOfTwo == (p1 :> {c1, c2})

\* Two processes; the first has a pool of two connections.
TwoProcs == {p1, p2}
ThreeConns == {c1, c2, c3}
TwoPools == (p1 :> {c1, c2}) @@ (p2 :> {c3})

HomeFirst == [r \in Requests |-> p1]
SameDraft == [j \in Jobs |-> d1]
AllStocktwits == [j \in Jobs |-> "STOCKTWITS"]
StocktwitsAndDiscord == [j \in Jobs |-> IF j = j2 THEN "DISCORD" ELSE "STOCKTWITS"]

AllHandlers == RequestKinds
\* The handlers that add one queue entry per row they make PENDING, after
\* reconciling the draft.
OneEntryHandlers == {"schedule", "retry", "rerun", "replay", "dismiss"}
WindowHandlers == {"schedule", "window"}
ReplayHandlers == {"schedule", "replay"}

AllMishaps == {"crash", "fault", "recycle", "deleteAccount"}
NoMishaps == {}

\* The state after every job has been scheduled: the rows are PENDING, each
\* with its queue entry and an account.
ScheduledInit ==
    \E a \in [Jobs -> Accounts] :
        /\ status = [j \in Jobs |-> "PENDING"]
        /\ account = a
        /\ queue = [j \in Jobs |-> [k \in Tries |-> IF k = 0 THEN 1 ELSE 0]]
        /\ armed = [j \in Jobs |-> 1]
        /\ InitRest
ScheduledSpec == ScheduledInit /\ [][Next]_vars

AccountSymmetry == Permutations(Accounts)
\* The connections of the first of TwoPools are interchangeable too.
OverlapSymmetry == Permutations(Accounts) \cup Permutations({c1, c2})
=============================================================================
