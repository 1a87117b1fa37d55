---------------------------- MODULE MCScheduling ----------------------------
(* Instances of Scheduling for TLC: two drafts alike on one target, two    *)
(* accounts of one platform, two calls.                                    *)
EXTENDS Scheduling, TLC

CONSTANTS c1, c2, d1, d2, t1, a1, a2

OneTarget == [d \in Drafts |-> {t1}]
NoOffset == [t \in Targets |-> 0]
OnePlatform == [x \in Targets \cup Accounts |-> "STOCKTWITS"]
TightPolicy == [p \in {"STOCKTWITS"} |->
                  [minDelay |-> 0, maxDelay |-> 1, accountQuota |-> 1, globalQuota |-> 2]]
SpreadPolicy == [p \in {"STOCKTWITS"} |->
                  [minDelay |-> 1, maxDelay |-> 3, accountQuota |-> 3, globalQuota |-> 4]]
BothAlike == Drafts \X Drafts

Symmetric == Permutations(Accounts) \cup Permutations(Drafts)
=============================================================================
