----------------------------- MODULE MCSessions -----------------------------
(***************************************************************************)
(* The sessions of StockTwits and of dlvr.it, with liveness.  The two      *)
(* share no variable: a behaviour follows one and leaves the other at rest. *)
(***************************************************************************)
EXTENDS TLC, StocktwitsSessions, DlvritSessions

CONSTANTS c1, c2, a1, a2,  \* calls, accounts
          u1, u2, w1, w2   \* users and workspaces of dlvr.it

VARIABLE part  \* the component this behaviour follows

\* The calls that meet: on the shared profile, on the profile of one account,
\* and on profiles of their own.
Ask(kind, a) == [kind |-> kind, acct |-> a]
CallMixes ==
    {c1 :> x[1] @@ c2 :> x[2] :
        x \in {<<Ask("publish", a1), Ask("discover", a2)>>,
               <<Ask("publish", a1), Ask("status", a1)>>,
               <<Ask("manual", a1), Ask("engage", a1)>>,
               <<Ask("batch", a1), Ask("status", a2)>>,
               <<Ask("manual", a1), Ask("bootstrap", a2)>>}}

\* dlvr.it: w2 is the workspace whose credentials the environment holds.
Demand(op, w, secret) == [op |-> op, ws |-> w, secret |-> secret]
DemandMixes ==
    {u1 :> x[1] @@ u2 :> x[2] :
        x \in {<<Demand("post", w1, "none"), Demand("connect", w1, "right")>>,
               <<Demand("post", w2, "none"), Demand("reload", w2, "none")>>,
               <<Demand("connect", w1, "wrong"), Demand("reload", w1, "none")>>}}

bothVars == <<part, sessionVars, dlvritVars>>

\* Where a component is not followed, one of its initial states stands for all.
BothInit ==
    /\ part \in {"stocktwits", "dlvrit"}
    /\ SessionInit /\ (part # "stocktwits" => ~dry /\ call[c1].kind = "batch")
    /\ DlvritInit /\ (part # "dlvrit" => demand[u1].ws = w2 /\ issued = 0)

BothNext ==
    \/ part = "stocktwits" /\ SessionNext /\ UNCHANGED <<part, dlvritVars>>
    \/ part = "dlvrit" /\ DlvritNext /\ UNCHANGED <<part, sessionVars>>

BothSpec == BothInit /\ [][BothNext]_bothVars /\ SessionFairness /\ DlvritFairness

-----------------------------------------------------------------------------
\* Every variable of the component that is followed keeps its type: whatever
\* the pages and the sites answer, no call gets into a state that the code does
\* not know.
BothTypeOK ==
    /\ part = "stocktwits" => SessionTypeOK
    /\ part = "dlvrit" => DlvritTypeOK
=============================================================================
