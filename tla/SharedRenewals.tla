--------------------------- MODULE SharedRenewals ---------------------------
(***************************************************************************)
(* What the dlvr.it sessions promise their users, without the browser that *)
(* fetches a cookie and the site that accepts it: a workspace is renewed   *)
(* once at a time and whoever asks meanwhile shares it, also once its      *)
(* cookie is stored and others find it.  It ends for all who share it      *)
(* alike: with the cookie it has stored, or in a failure, which takes no   *)
(* stored cookie back.  A user works with a cookie that was kept when it   *)
(* looked, or with the one its renewal brought.                            *)
(***************************************************************************)
CONSTANTS Users, Workspaces, Cookies, NoCookie

VARIABLES login,     \* the workspace of each user
          at,        \* how far each user is
          held,      \* the cookie it works with
          renewing,  \* workspaces that are being renewed
          brought,   \* workspace -> cookie its running renewal has stored
          kept       \* workspace -> cookie that the next user finds

renewalVars == <<login, at, held, renewing, brought, kept>>

MaybeKept == [Workspaces -> Cookies \cup {NoCookie}]

RenewalInit ==
    /\ login \in [Users -> Workspaces]
    /\ at = [u \in Users |-> "absent"] /\ held = [u \in Users |-> NoCookie]
    /\ renewing = {} /\ brought = [w \in Workspaces |-> NoCookie] /\ kept \in MaybeKept

Moves(u, step, k) ==
    at' = [at EXCEPT ![u] = step] /\ held' = [held EXCEPT ![u] = k] /\ UNCHANGED login

Comes(u) == at[u] = "absent" /\ Moves(u, "looking", NoCookie)
            /\ UNCHANGED <<renewing, brought, kept>>

Finds(u) ==
    /\ at[u] = "looking" /\ kept[login[u]] # NoCookie /\ Moves(u, "holding", kept[login[u]])
    /\ UNCHANGED <<renewing, brought, kept>>

\* A user that comes, finds nothing, or whose cookie is refused shares the
\* renewal of its workspace, and there is one from then on.
Joins(u) ==
    /\ at[u] \in {"absent", "looking", "holding"}
    /\ at[u] = "looking" => kept[login[u]] = NoCookie
    /\ Moves(u, "waiting", NoCookie)
    /\ renewing' = renewing \cup {login[u]} /\ UNCHANGED <<brought, kept>>

Leaves(u) ==
    /\ at[u] \in {"holding", "served"}
    /\ \E step \in {"served", "failed"} : Moves(u, step, NoCookie)
    /\ UNCHANGED <<renewing, brought, kept>>

Sharers(w) == {u \in Users : at[u] = "waiting" /\ login[u] = w}

\* The renewal has its cookie, which others find before it ends.
Stores(w) ==
    /\ w \in renewing /\ brought[w] = NoCookie
    /\ \E k \in Cookies : /\ brought' = [brought EXCEPT ![w] = k]
                          /\ kept' = [kept EXCEPT ![w] = k]
    /\ UNCHANGED <<login, at, held, renewing>>

Ends(w) ==
    /\ w \in renewing /\ renewing' = renewing \ {w}
    /\ brought' = [brought EXCEPT ![w] = NoCookie]
    /\ UNCHANGED <<login, kept>>

\* All who share the renewal go on, with its cookie or to look for it.
Succeeds(w) ==
    /\ Ends(w) /\ brought[w] # NoCookie
    /\ \E lookers \in SUBSET Sharers(w) :
          /\ at' = [u \in Users |-> IF u \in lookers THEN "looking"
                                    ELSE IF u \in Sharers(w) THEN "holding" ELSE at[u]]
          /\ held' = [u \in Users |-> IF u \in Sharers(w) \ lookers THEN brought[w]
                                      ELSE held[u]]

\* All who share it fail, and what was kept stays, its own cookie too.
Breaks(w) ==
    /\ Ends(w)
    /\ at' = [u \in Users |-> IF u \in Sharers(w) THEN "failed" ELSE at[u]]
    /\ UNCHANGED held

Forgets(w) ==
    kept' = [kept EXCEPT ![w] = NoCookie] /\ UNCHANGED <<login, at, held, renewing, brought>>

\* The process restarts: who is under way has failed.
Restarts ==
    /\ \E stay \in SUBSET {u \in Users : at[u] = "served"} :
          at' = [u \in Users |-> IF at[u] = "absent" \/ u \in stay THEN at[u] ELSE "failed"]
    /\ held' = [u \in Users |-> NoCookie]
    /\ renewing' = {} /\ brought' = [w \in Workspaces |-> NoCookie]
    /\ kept' \in MaybeKept /\ UNCHANGED login

RenewalNext ==
    \/ \E u \in Users : Comes(u) \/ Finds(u) \/ Joins(u) \/ Leaves(u)
    \/ \E w \in Workspaces : Stores(w) \/ Succeeds(w) \/ Breaks(w) \/ Forgets(w)
    \/ Restarts

RenewalSpec == RenewalInit /\ [][RenewalNext]_renewalVars
=============================================================================
