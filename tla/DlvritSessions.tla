--------------------------- MODULE DlvritSessions ---------------------------
(***************************************************************************)
(* The dlvr.it sessions: dlvrit-session.service.ts keeps one cookie per    *)
(* workspace in memory and on disk and renews it with a browser; posts and *)
(* route listings use it (dlvrit.publisher.ts) and ask for a new one when  *)
(* they are answered 401; operators connect and reload a workspace         *)
(* (publishing.service.ts).  All users that find a renewal running share   *)
(* it.  The site is the environment: it forgets cookies when it likes.     *)
(***************************************************************************)
EXTENDS Naturals, FiniteSets

CONSTANTS Users,       \* requests that need a session
          Workspaces,  \* dlvr.it logins
          EnvLogins,   \* those whose credentials the environment holds
          Demands,     \* the requests that meet: user -> what it asks for
          NoUser, NoCookie,
          MaxCookie    \* cookies the site hands out

ASSUME DlvritConstants ==
    /\ NoUser \notin Users /\ NoCookie \notin Nat /\ MaxCookie \in Nat \ {0}
    /\ EnvLogins \subseteq Workspaces
    /\ Demands \subseteq [Users -> [op : {"post", "connect", "reload"}, ws : Workspaces,
                                    secret : {"none", "right", "wrong"}]]

VARIABLES demand,      \* what each user asks for
          req,         \* how far each user is
          flight,      \* the browser a user has started: where it stands
          refreshes,   \* workspace -> the user whose renewal all others share
          remembered,  \* workspace -> cookie kept in memory
          onDisk,      \* workspace -> cookie kept in the session file
          profile,     \* workspace -> cookie in the browser's own profile
          valid,       \* cookies the site accepts
          issued,      \* cookies the site has handed out
          rows,        \* workspace -> status of its database row
          restarted    \* the process has been restarted

dlvritVars == <<demand, req, flight, refreshes, remembered, onDisk, profile, valid, issued,
                rows, restarted>>

Cookies == 1 .. MaxCookie
MaybeCookie == Cookies \cup {NoCookie}
Statuses == {"CONNECTING", "ACTIVE", "RECONNECT_REQUIRED"}
ReqSteps == {"idle", "looking", "waiting", "calling", "linking", "failing", "done", "failed"}
Places == {"none", "landing", "form", "inside", "stored", "broken"}
Workspace(u) == demand[u].ws
Operator(u) == demand[u].op # "post"

Fresh == [step |-> "idle", on |-> NoUser, then |-> "looking", cookie |-> NoCookie,
          again |-> FALSE, delivered |-> 0]

DlvritInit ==
    /\ demand \in Demands
    /\ req = [u \in Users |-> Fresh]
    /\ flight = [u \in Users |-> "none"]
    /\ refreshes = [w \in Workspaces |-> NoUser]
    /\ remembered = [w \in Workspaces |-> NoCookie]
    /\ issued \in {0, 1} /\ valid = 1 .. issued
    /\ profile = [w \in Workspaces |-> IF issued = 0 THEN NoCookie ELSE 1]
    /\ \E kept \in {NoCookie} \cup valid : onDisk = [w \in Workspaces |-> kept]
    /\ rows = [w \in Workspaces |-> "ACTIVE"]
    /\ restarted = FALSE

DlvritAt(u, step) == req[u].step = step

\* refreshSession: share the renewal that runs, or start one.
Renew(u, then, r) ==
    LET running == refreshes[Workspace(u)]
        on == IF running = NoUser THEN u ELSE running
    IN  /\ flight' = IF running = NoUser THEN [flight EXCEPT ![u] = "landing"] ELSE flight
        /\ refreshes' = [refreshes EXCEPT ![Workspace(u)] = on]
        /\ req' = [req EXCEPT ![u] = [r EXCEPT !.step = "waiting", !.then = then, !.on = on]]

\* A connect marks its row first; a connect and a reload renew before they
\* look for the cookie, a post looks for it at once.
Ask4Session(u) ==
    /\ DlvritAt(u, "idle")
    /\ IF Operator(u)
       THEN Renew(u, "looking", req[u])
       ELSE req' = [req EXCEPT ![u].step = "looking"] /\ UNCHANGED <<flight, refreshes>>
    /\ rows' = IF demand[u].op = "connect" THEN [rows EXCEPT ![Workspace(u)] = "CONNECTING"]
                                           ELSE rows
    /\ UNCHANGED <<demand, remembered, onDisk, profile, valid, issued, restarted>>

\* Memory first, then the session file.
KeptCookie(w) == IF remembered[w] # NoCookie THEN remembered[w] ELSE onDisk[w]

\* getSessionCookie.
Look(u) ==
    LET w == Workspace(u)
        kept == KeptCookie(w)
    IN  /\ DlvritAt(u, "looking")
        /\ IF kept = NoCookie
           THEN Renew(u, "calling", req[u]) /\ UNCHANGED remembered
           ELSE /\ remembered' = [remembered EXCEPT ![w] = kept]
                /\ req' = [req EXCEPT ![u].step = "calling", ![u].cookie = kept]
                /\ UNCHANGED <<flight, refreshes>>
        /\ UNCHANGED <<demand, onDisk, profile, valid, issued, rows, restarted>>

\* The request keeps nothing but what it delivered.
Ended(u, step) == [Fresh EXCEPT !.step = step, !.delivered = req[u].delivered]

Waiters(f) == {u \in Users : DlvritAt(u, "waiting") /\ req[u].on = f}

\* Fault: only a renewal that succeeds is removed from the map.
KeepsFailed(f) ==
    /\ flight' = [flight EXCEPT ![f] = "none"]
    /\ req' = [u \in Users |-> IF u \in Waiters(f) THEN Ended(u, "failing") ELSE req[u]]
    /\ UNCHANGED refreshes

\* The renewal is rejected: it leaves the map and all who share it fail.
Rejects(f) ==
    /\ flight' = [flight EXCEPT ![f] = "none"]
    /\ refreshes' = [refreshes EXCEPT ![Workspace(f)] = NoUser]
    /\ req' = [u \in Users |-> IF u \in Waiters(f) THEN Ended(u, "failing") ELSE req[u]]

\* The catch block: the browser's cookie file is removed while the browser
\* still runs, which may write it again when it is closed.
GivesUp(f) ==
    /\ flight' = [flight EXCEPT ![f] = "broken"]
    /\ profile' \in {profile, [profile EXCEPT ![Workspace(f)] = NoCookie]}
    /\ UNCHANGED <<req, refreshes>>

\* The browser does not start, and nothing is to be closed; or the page does
\* not load.
LandFails(f) ==
    /\ flight[f] = "landing"
    /\ (Rejects(f) /\ UNCHANGED profile) \/ GivesUp(f)
    /\ UNCHANGED <<demand, remembered, onDisk, valid, issued, rows, restarted>>

\* The page has routed to the login form, to the dashboard, or has not routed
\* within its 20 seconds, which counts as the dashboard.
Lands(f) ==
    /\ flight[f] = "landing"
    /\ \E at \in {"form", "inside"} :
          /\ at = "form" => profile[Workspace(f)] \notin valid
          /\ flight' = [flight EXCEPT ![f] = at]
    /\ UNCHANGED <<demand, req, refreshes, remembered, onDisk, profile, valid, issued, rows,
                   restarted>>

\* Only a connect brings credentials; the environment's serve one workspace.
Secret(f) == IF demand[f].op = "connect" THEN demand[f].secret
             ELSE IF Workspace(f) \in EnvLogins THEN "right" ELSE "none"

LogsIn(f) ==
    /\ flight[f] = "form" /\ Secret(f) = "right" /\ issued < MaxCookie
    /\ issued' = issued + 1
    /\ valid' = valid \cup {issued + 1}
    /\ profile' = [profile EXCEPT ![Workspace(f)] = issued + 1]
    /\ flight' = [flight EXCEPT ![f] = "inside"]
    /\ UNCHANGED <<demand, req, refreshes, remembered, onDisk, rows, restarted>>

\* No credentials, wrong ones, or no way back to the dashboard in 30 seconds.
SignInFails(f) ==
    /\ flight[f] = "form" /\ GivesUp(f)
    /\ UNCHANGED <<demand, remembered, onDisk, valid, issued, rows, restarted>>

\* Fault: the renewal leaves the map once its cookie is stored, and those who
\* wait for it are not told.
LeavesEarly(f) ==
    LET w == Workspace(f)
    IN  /\ flight[f] = "inside" /\ profile[w] # NoCookie
        /\ remembered' = [remembered EXCEPT ![w] = profile[w]]
        /\ flight' = [flight EXCEPT ![f] = "stored"]
        /\ refreshes' = [refreshes EXCEPT ![w] = NoUser]
        /\ UNCHANGED <<demand, req, onDisk, profile, valid, issued, rows, restarted>>

\* extractCookie and store: the cookie of the profile, whatever it is worth, is
\* what whoever looks finds from now on, while those who wait still wait for
\* the browser to be closed.  A session file that is not written is ignored.
Extracts(f) ==
    LET w == Workspace(f)
    IN  /\ flight[f] = "inside" /\ profile[w] # NoCookie
        /\ remembered' = [remembered EXCEPT ![w] = profile[w]]
        /\ onDisk' \in {onDisk, [onDisk EXCEPT ![w] = profile[w]]}
        /\ flight' = [flight EXCEPT ![f] = "stored"]
        /\ UNCHANGED <<demand, req, refreshes, profile, valid, issued, rows, restarted>>

\* There is no cookie, or the browser is gone.
ExtractFails(f) ==
    /\ flight[f] = "inside" /\ GivesUp(f)
    /\ UNCHANGED <<demand, remembered, onDisk, valid, issued, rows, restarted>>

\* A request goes on with the cookie of the renewal it has waited for.
GoesOn(r, k) == [r EXCEPT !.step = r.then, !.on = NoUser, !.cookie = k]

\* The promise of the renewal is resolved with the cookie it has stored.
Resolves(f) ==
    /\ flight' = [flight EXCEPT ![f] = "none"]
    /\ refreshes' = [refreshes EXCEPT ![Workspace(f)] = NoUser]
    /\ req' = [u \in Users |-> IF u \in Waiters(f) THEN GoesOn(req[u], profile[Workspace(f)])
                                                   ELSE req[u]]

\* The browser is closed and the renewal leaves the map.  A close that throws
\* rejects the renewal though its cookie is stored.
Closes(f) ==
    /\ \/ flight[f] = "stored" /\ Resolves(f)
       \/ flight[f] \in {"stored", "broken"} /\ Rejects(f)
    /\ UNCHANGED <<demand, remembered, onDisk, profile, valid, issued, rows, restarted>>

\* Fault: any error of the first call is answered with a renewal.
RetriesAnything(u) ==
    LET delivered == [req[u] EXCEPT !.delivered = @ + 1]
    IN  /\ DlvritAt(u, "calling")
        /\ \/ Renew(u, "calling", [delivered EXCEPT !.again = TRUE])
           \/ /\ req' = [req EXCEPT ![u] = [Ended(u, "done") EXCEPT !.delivered = @ + 1]]
              /\ UNCHANGED <<flight, refreshes>>
        /\ UNCHANGED <<demand, remembered, onDisk, profile, valid, issued, rows, restarted>>

\* callPostPlus, or the request for the routes.  A cookie the site has
\* forgotten is answered 401: the first 401 asks for a renewal, the second is
\* final.  Every other error is final, though the message may be out.
Answers(u) ==
    LET ok == req[u].cookie \in valid
    IN  /\ DlvritAt(u, "calling")
        /\ \/ ~ok /\ ~req[u].again /\ Renew(u, "calling", [req[u] EXCEPT !.again = TRUE])
           \/ /\ \/ ok /\ Operator(u) /\ req' = [req EXCEPT ![u] = Ended(u, "linking")]
                 \/ /\ ok /\ ~Operator(u)
                    /\ \E step \in {"done", "failing"} :
                          req' = [req EXCEPT ![u] = [Ended(u, step) EXCEPT !.delivered = @ + 1]]
                 \/ req' = [req EXCEPT ![u] = Ended(u, "failing")]
              /\ UNCHANGED <<flight, refreshes>>
        /\ UNCHANGED <<demand, remembered, onDisk, profile, valid, issued, rows, restarted>>

\* The routes become accounts, and the row ACTIVE; a route may be refused.
Links(u) ==
    /\ DlvritAt(u, "linking")
    /\ \/ /\ req' = [req EXCEPT ![u].step = "done"]
          /\ rows' = [rows EXCEPT ![Workspace(u)] = "ACTIVE"]
       \/ req' = [req EXCEPT ![u].step = "failing"] /\ UNCHANGED rows
    /\ UNCHANGED <<demand, flight, refreshes, remembered, onDisk, profile, valid, issued,
                   restarted>>

\* Fault: the failure of a request is not written to the workspace's row.
FailsQuietly(u) ==
    /\ DlvritAt(u, "failing")
    /\ req' = [req EXCEPT ![u].step = "failed"]
    /\ UNCHANGED <<demand, flight, refreshes, remembered, onDisk, profile, valid, issued, rows,
                   restarted>>

\* An operator's request that failed asks for a new connection.
Fails(u) ==
    /\ DlvritAt(u, "failing")
    /\ req' = [req EXCEPT ![u].step = "failed"]
    /\ rows' = IF Operator(u) THEN [rows EXCEPT ![Workspace(u)] = "RECONNECT_REQUIRED"]
                              ELSE rows
    /\ UNCHANGED <<demand, flight, refreshes, remembered, onDisk, profile, valid, issued,
                   restarted>>

Unfinished(u) == req[u].step \notin {"done", "failed"}

\* The site forgets a cookie.
SiteForgets ==
    /\ \E u \in Users : Unfinished(u)
    /\ \E k \in valid : valid' = valid \ {k}
    /\ UNCHANGED <<demand, req, flight, refreshes, remembered, onDisk, profile, issued, rows,
                   restarted>>

\* After 24 hours a kept cookie is as good as none.
Ages(w) ==
    /\ \E u \in Users : Workspace(u) = w /\ Unfinished(u)
    /\ <<remembered[w], onDisk[w]>> # <<NoCookie, NoCookie>>
    /\ remembered' = [remembered EXCEPT ![w] = NoCookie]
    /\ onDisk' = [onDisk EXCEPT ![w] = NoCookie]
    /\ UNCHANGED <<demand, req, flight, refreshes, profile, valid, issued, rows, restarted>>

\* A restart of the process loses what it kept in memory.
Restart ==
    /\ ~restarted /\ restarted' = TRUE /\ \E u \in Users : Unfinished(u)
    /\ flight' = [u \in Users |-> "none"]
    /\ refreshes' = [w \in Workspaces |-> NoUser]
    /\ remembered' = [w \in Workspaces |-> NoCookie]
    /\ req' = [u \in Users |-> IF req[u].step \in {"idle", "done"} THEN req[u]
                               ELSE Ended(u, "failed")]
    /\ UNCHANGED <<demand, onDisk, profile, valid, issued, rows>>

UserStep(u) == Ask4Session(u) \/ Look(u) \/ Answers(u) \/ Links(u) \/ Fails(u)
FlightStep(f) == LandFails(f) \/ Lands(f) \/ LogsIn(f) \/ SignInFails(f) \/ Extracts(f)
                 \/ ExtractFails(f) \/ Closes(f)

DlvritNext ==
    \/ \E u \in Users : UserStep(u) \/ FlightStep(u)
    \/ SiteForgets \/ Restart
    \/ \E w \in Workspaces : Ages(w)

DlvritSpec == DlvritInit /\ [][DlvritNext]_dlvritVars

\* Every step of a request that runs and of a browser has a timeout.
DlvritFairness == \A u \in Users : WF_dlvritVars(~DlvritAt(u, "idle") /\ UserStep(u))
                                   /\ WF_dlvritVars(FlightStep(u))

DlvritTypeOK ==
    /\ demand \in Demands
    /\ req \in [Users -> [step : ReqSteps, on : Users \cup {NoUser},
                          then : {"looking", "calling"}, cookie : MaybeCookie,
                          again : BOOLEAN, delivered : Nat]]
    /\ flight \in [Users -> Places]
    /\ refreshes \in [Workspaces -> Users \cup {NoUser}]
    /\ remembered \in [Workspaces -> MaybeCookie] /\ onDisk \in [Workspaces -> MaybeCookie]
    /\ profile \in [Workspaces -> MaybeCookie]
    /\ issued \in 0 .. MaxCookie /\ valid \subseteq 1 .. issued
    /\ rows \in [Workspaces -> Statuses] /\ restarted \in BOOLEAN

\* The cookie a renewal has stored while its browser is being closed.
StoredCookie(w) ==
    IF refreshes[w] # NoUser /\ flight[refreshes[w]] = "stored" THEN profile[w] ELSE NoCookie

\* How a request, its cookie and the renewals look to SharedRenewals.
Progress == [idle |-> "absent", looking |-> "looking", waiting |-> "waiting",
             calling |-> "holding", linking |-> "served", done |-> "served",
             failing |-> "failed", failed |-> "failed"]

Shared == INSTANCE SharedRenewals WITH
    login <- [u \in Users |-> Workspace(u)],
    at <- [u \in Users |-> Progress[req[u].step]],
    held <- [u \in Users |-> IF DlvritAt(u, "calling") THEN req[u].cookie ELSE NoCookie],
    renewing <- {w \in Workspaces : refreshes[w] # NoUser},
    brought <- [w \in Workspaces |-> StoredCookie(w)],
    kept <- [w \in Workspaces |-> KeptCookie(w)]

\* The sessions keep what SharedRenewals promises: whatever browsers, operators
\* and posts do at once, those who wait for a renewal go on with the cookie that
\* this renewal has stored, or all fail with it; what is stored stays stored
\* when the renewal then fails; and a failure stores nothing.
RenewalsShared == Shared!RenewalSpec

\* At most one browser logs in to a workspace, and it is the one that the next
\* request for a session shares: a renewal that has ended answers nobody.
OneRenewalPerWorkspace ==
    \A w \in Workspaces :
        /\ \A u \in Users : flight[u] # "none" /\ Workspace(u) = w => refreshes[w] = u
        /\ refreshes[w] # NoUser => flight[refreshes[w]] # "none"

\* However often the session is renewed, a message goes to dlvr.it at most once.
PostedAtMostOnce == \A u \in Users : req[u].delivered <= 1

\* An operator's request does not leave its workspace CONNECTING: whether its
\* own renewal or the one it shares succeeds or fails, the row says so.  Only a
\* restart leaves it there (and a last update that fails, which is left out).
ConnectingSettles ==
    \A w \in Workspaces : rows[w] = "CONNECTING" ~> rows[w] # "CONNECTING" \/ restarted
=============================================================================
