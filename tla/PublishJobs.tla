---------------------------- MODULE PublishJobs ----------------------------
(***************************************************************************)
(* The publishing subsystem: the queue workers, the operator's requests    *)
(* and the disturbances they live with, over the shared rows, and what the *)
(* subsystem promises.                                                     *)
(***************************************************************************)
EXTENDS PublishWorker, PublishRequests

InitRest ==
    /\ attempts = [j \in Jobs |-> 0]
    /\ draft = [d \in Drafts |-> "AUTO_APPROVED"]
    /\ deadLetter = [j \in Jobs |-> None]
    /\ locks = [j \in Jobs |-> L!Free]
    /\ posts = [j \in Jobs |-> 0]
    /\ live = Accounts
    /\ mishaps = 0 /\ issued = 0
    /\ cut = [j \in Jobs |-> 0] /\ breached = {}
    /\ pc = [w \in Procs |-> "idle"]
    /\ cur = [w \in Procs |-> None]
    /\ tries = [w \in Procs |-> 0]
    /\ lockConn = [w \in Procs |-> NoConn]
    /\ snapAttempts = [w \in Procs |-> 0]
    /\ snapAccount = [w \in Procs |-> NoAccount]
    /\ outcome = [w \in Procs |-> "none"]
    /\ view = [w \in Procs |-> None]
    /\ phase = [w \in Procs |-> "fresh"]
    /\ reqPc = [r \in Requests |-> "idle"]
    /\ reqKind = [r \in Requests |-> "none"]
    /\ reqJob = [r \in Requests |-> None]
    /\ reqTodo = [r \in Requests |-> {}]
    /\ reqDrafts = [r \in Requests |-> {}]
    /\ reqView = [r \in Requests |-> None]

\* Before the first draft is scheduled.
Init ==
    /\ status = [j \in Jobs |-> None]
    /\ account = [j \in Jobs |-> NoAccount]
    /\ queue = [j \in Jobs |-> [k \in Tries |-> 0]]
    /\ armed = [j \in Jobs |-> 0]
    /\ InitRest

\* An application process dies and restarts: the worker and the requests it
\* serves stop where they are and PostgreSQL frees
\* the locks of its connections.  BullMQ finds the entry stalled and hands it
\* out again, or fails it when it has stalled too often.
Crash(w) ==
    /\ Spend("crash")
    /\ locks' = L!Closed(locks, Pool[w])
    /\ \/ Busy(w) /\ queue' = [queue EXCEPT ![cur[w]][tries[w]] = @ + 1]
       \/ UNCHANGED queue
    /\ CutOff(w)
    /\ Reset(w)
    /\ LET lost(r) == Home[r] = w IN
        /\ reqPc' = [r \in Requests |-> IF lost(r) THEN "idle" ELSE reqPc[r]]
        /\ reqKind' = [r \in Requests |-> IF lost(r) THEN "none" ELSE reqKind[r]]
        /\ reqJob' = [r \in Requests |-> IF lost(r) THEN None ELSE reqJob[r]]
        /\ reqTodo' = [r \in Requests |-> IF lost(r) THEN {} ELSE reqTodo[r]]
        /\ reqDrafts' = [r \in Requests |-> IF lost(r) THEN {} ELSE reqDrafts[r]]
        /\ reqView' = [r \in Requests |-> IF lost(r) THEN None ELSE reqView[r]]
    /\ UNCHANGED <<rows, posts, live, issued, armed, breached>>

\* Prisma closes an idle pooled connection, or PostgreSQL drops it.  The locks
\* it held are free, also that of an execution in progress.
Recycle(c) ==
    /\ Spend("recycle")
    /\ locks' = L!Closed(locks, {c})
    /\ breached' = breached \cup {cur[w] : w \in {w \in Procs : Executing(w) /\ lockConn[w] = c}}
    /\ UNCHANGED <<rows, queue, posts, live, issued, armed, cut, worker, request>>

\* deleteStocktwitsAccounts: the row goes, PublishJob.accountId is set to null.
DeleteAccount(a) ==
    /\ Spend("deleteAccount")
    /\ a \in live
    /\ live' = live \ {a}
    /\ account' = [j \in Jobs |-> IF account[j] = a THEN NoAccount ELSE account[j]]
    /\ UNCHANGED <<status, attempts, draft, deadLetter, queue, locks, posts,
                   issued, history, worker, request>>

Next ==
    \/ \E w \in Procs : WorkerStep(w) \/ WorkerFault(w) \/ Crash(w)
    \/ \E r \in Requests : Begin(r) \/ RequestStep(r) \/ RequestFault(r)
    \/ \E c \in Conns : Recycle(c)
    \/ \E a \in Accounts : DeleteAccount(a)

Spec == Init /\ [][Next]_vars

\* The event loop of a process keeps running its worker and the requests it
\* has accepted; nothing obliges an operator to send one, and no disturbance
\* is owed.
FairSpec ==
    /\ Spec
    /\ \A w \in Procs : WF_vars(WorkerStep(w))
    /\ \A r \in Requests : WF_vars(RequestStep(r))

-----------------------------------------------------------------------------
WorkerSteps == {"idle", "lock", "load", "route", "gate", "post", "record", "reconcile",
                "settle", "reward", "skip", "charge", "reroute", "requeue", "fail",
                "deadLetter", "unlock", "throw"}
RequestSteps == {"idle", "arm", "reconcile", "settle", "add", "mark", "markWrite", "dismiss"}

RowTypes ==
    /\ status \in [Jobs -> JobStatus \cup {None}]
    /\ attempts \in [Jobs -> Nat]
    /\ account \in [Jobs -> Accounts \cup {NoAccount}]
    /\ draft \in [Drafts -> DraftStatus]
    /\ deadLetter \in [Jobs -> DeadLetterStatus \cup {None}]

WorldTypes ==
    /\ queue \in [Jobs -> [Tries -> Nat]]
    /\ locks \in L!LockTables
    /\ posts \in [Jobs -> Nat]
    /\ live \subseteq Accounts
    /\ mishaps \in Nat /\ issued \in Nat
    /\ armed \in [Jobs -> Nat] /\ cut \in [Jobs -> Nat] /\ breached \subseteq Jobs

WorkerTypes ==
    /\ pc \in [Procs -> WorkerSteps]
    /\ cur \in [Procs -> Jobs \cup {None}]
    /\ tries \in [Procs -> Tries]
    /\ lockConn \in [Procs -> Conns \cup {NoConn}]
    /\ snapAttempts \in [Procs -> Nat]
    /\ snapAccount \in [Procs -> Accounts \cup {NoAccount}]
    /\ outcome \in [Procs -> Outcomes]
    /\ view \in [Procs -> DraftStatus \cup {None}]
    /\ phase \in [Procs -> {"fresh", "posted", "closed"}]
    /\ \A w \in Procs : pc[w] # "idle" => cur[w] \in Jobs
    /\ \A w \in Procs : pc[w] = "settle" => view[w] \in DraftStatus

PendingWrites == [draft : Drafts, status : DraftStatus]

RequestTypes ==
    /\ reqPc \in [Requests -> RequestSteps]
    /\ reqKind \in [Requests -> RequestKinds \cup {"none"}]
    /\ reqJob \in [Requests -> Jobs \cup {None}]
    /\ reqTodo \in [Requests -> SUBSET Jobs]
    /\ reqDrafts \in [Requests -> SUBSET Drafts]
    /\ reqView \in [Requests -> PendingWrites \cup {None}]
    /\ \A r \in Requests : reqPc[r] # "idle" => reqJob[r] \in Jobs
    /\ \A r \in Requests : reqPc[r] = "settle" => reqView[r] \in PendingWrites

\* Every variable keeps its type; a busy worker or request has its job, and a
\* pending draft write its value.
TypeOK == RowTypes /\ WorldTypes /\ WorkerTypes /\ RequestTypes

\* The publish-job lock does exclude: although lock and unlock run on
\* arbitrary pooled connections, two processes never execute the same job,
\* unless the connection holding the lock was closed under an execution of it
\* (publishing.service.ts acquirePublishJobLock / releasePublishJobLock).
ExclusiveExecution ==
    \A v, w \in Procs :
        v # w /\ Executing(v) /\ Executing(w) /\ cur[v] = cur[w] => cur[w] \in breached

\* A job may be posted once more: it is PENDING and no execution has posted it.
Credit(j) ==
    IF status[j] = "PENDING" /\ \A w \in Procs : ~ (cur[w] = j /\ phase[w] = "posted")
    THEN 1 ELSE 0

\* Duplicate posts have only two sources: the row was made PENDING again, or an
\* execution ended (crash, failing await) between the accepted post and its
\* write to the row.  Neither a second queue entry (dispatch, BullMQ retry,
\* stalled entry) nor a second process adds one.
PostsAuthorised ==
    \A j \in Jobs \ breached : posts[j] + Credit(j) <= armed[j] + cut[j]

\* A row says SUCCESS only when the provider has accepted the job's post.
SuccessWasPosted == \A j \in Jobs : status[j] = "SUCCESS" => posts[j] > 0

\* A recorded success is undone only by a handler that read the row before
\* (retry, rerun, replay: an unconditional write) or by the execution that
\* recorded it, when a later await of its own fails: never by another worker
\* and never by a window replay.
SuccessUndoneOnlyByStaleWrite ==
    [][\A j \in Jobs :
         status[j] = "SUCCESS" /\ status'[j] # "SUCCESS" =>
           \/ \E r \in Requests : reqPc[r] = "arm" /\ reqJob[r] = j /\ reqKind[r] \in Unguarded
           \/ \E w \in Procs : /\ cur[w] = j /\ phase[w] = "closed"
                               /\ pc[w] \in {"fail", "reroute"}
           \/ j \in breached]_vars

-----------------------------------------------------------------------------
\* The inductive invariant behind these.

\* The connection that took an execution's lock is one of its process, and it
\* still holds the lock unless it was closed.
LockHeld ==
    \A w \in Procs : Executing(w) =>
        /\ lockConn[w] \in Pool[w]
        /\ cur[w] \notin breached => locks[cur[w]].conn = lockConn[w]

\* The phase of an execution at each of its steps: nothing is posted or closed
\* before the post, what is recorded was posted, and what comes after the write
\* of a terminal status finds the row closed.
PhaseOfStep ==
    \A w \in Procs :
        /\ pc[w] \in {"idle", "lock", "load", "route", "gate", "post", "skip"}
               => phase[w] = "fresh"
        /\ pc[w] = "record" => phase[w] = "posted"
        /\ pc[w] \in {"reconcile", "settle", "reward", "requeue", "deadLetter"}
               => phase[w] = "closed"

\* The execution has found the row PENDING and has neither closed it nor left
\* for its finally block before a post.
RowInHand(w) ==
    \/ phase[w] = "posted"
    \/ phase[w] = "fresh"
       /\ pc[w] \in {"route", "gate", "skip", "post", "charge", "reroute", "fail"}

\* A row in hand is PENDING; no more can be said of the row of an execution
\* without its lock.
RowHeld ==
    \A w \in Procs : RowInHand(w) /\ cur[w] \notin breached => status[cur[w]] = "PENDING"

\* The provider has the post of an execution that has posted.
PostedAccepted == \A w \in Procs : phase[w] = "posted" => posts[cur[w]] > 0

\* An execution past the load of its row has one.
RowLoaded ==
    \A w \in Procs : pc[w] \notin {"idle", "lock", "load", "unlock", "throw"}
                       => status[cur[w]] # None

IInv ==
    /\ TypeOK /\ LockHeld /\ PhaseOfStep /\ RowHeld
    /\ PostedAccepted /\ SuccessWasPosted /\ PostsAuthorised

\* A request under way has its kind, one that is for a single job goes on to no
\* other, and those that make no row PENDING are never about to.
RequestsShaped ==
    \A r \in Requests : reqPc[r] # "idle" =>
        /\ reqKind[r] \in RequestKinds
        /\ reqKind[r] \notin {"schedule", "window"} => reqTodo[r] \subseteq {reqJob[r]}
        /\ reqKind[r] \in {"dispatch", "dismiss"} => reqPc[r] # "arm"

-----------------------------------------------------------------------------
\* The lifecycle of a job as an outsider sees it: every step of the workers, the
\* requests and the disturbances is one of its steps or changes nothing of it.
Life == INSTANCE JobLifecycle WITH permits <- [j \in Jobs |-> armed[j] + cut[j]],
                                   loose <- breached

\* A job is posted only while PENDING and within its permits, becomes a SUCCESS
\* only after a post, and leaves a terminal status only by failing after all or
\* by a new permit (executePublishJob against every handler and disturbance).
JobsFollowLifecycle == Life!Spec

-----------------------------------------------------------------------------
\* Nothing runs and nothing is queued.
Drained ==
    /\ \A w \in Procs : pc[w] = "idle"
    /\ \A r \in Requests : reqPc[r] = "idle"
    /\ \A j \in Jobs : Entries(j) = {}

\* Once the system has come to rest, every draft shows what its jobs came to
\* (reconcileDraftPublishState): published when all its jobs were published or
\* skipped, failed when one failed, waiting only while one is PENDING.
DrainedDraftsAgree ==
    Drained => \A d \in Drafts : RowsOf(d) # {} =>
        LET ends == {status[j] : j \in RowsOf(d)} IN
        /\ draft[d] = "AUTO_APPROVED" <=> "PENDING" \in ends
        /\ draft[d] = "PUBLISHED" <=> ends \subseteq {"SUCCESS", "SKIPPED"}

\* Once the system has come to rest, every job that failed with its attempts
\* used up has a dead letter (moveToDeadLetterIfExhausted).
DrainedFailuresDeadLettered ==
    Drained /\ DeadLetterEnabled =>
        \A j \in Jobs : status[j] = "FAILED" /\ attempts[j] >= MaxRetries => deadLetter[j] # None

\* Every job that becomes PENDING is brought to an end, no matter how requests
\* and executions interleave: each arming is followed by a queue entry that is
\* delivered while the row is PENDING.  This presumes that the reroutes of a job
\* come to an end (MaxArmed): tryRerouteFailedJob itself sets no limit.
ArmedJobsSettle == \A j \in Jobs : status[j] = "PENDING" ~> status[j] # "PENDING"

\* ops/tests/soak-and-failure-injection.md: "Replay recovers failed windows
\* without data corruption."  At rest, no job that was made PENDING is left so.
NoOrphanedJobs == Drained => \A j \in Jobs : status[j] # "PENDING"

\* ops/tests/soak-and-failure-injection.md: "No stuck drafts after replay."
\* At rest, no draft that has jobs still waits to be published.
NoStuckDrafts ==
    Drained => \A d \in Drafts : RowsOf(d) # {} => draft[d] # "AUTO_APPROVED"

-----------------------------------------------------------------------------
\* What holds as long as nothing has disturbed the system.

\* An execution that owes its job a dead letter.
Owes(w, j) ==
    /\ cur[w] = j /\ pc[w] \in {"reconcile", "settle", "deadLetter"}
    /\ outcome[w] \in Errors /\ Exhausted(snapAttempts[w] + 1)

\* An execution between the choice of an account and its reward.
UsesAccount(w) ==
    \/ pc[w] \in {"gate", "post", "record"}
    \/ pc[w] \in {"reconcile", "settle", "reward"} /\ outcome[w] = "posted"

\* What an execution has come to at each of its steps, disturbed or not.
OutcomeOfStep ==
    \A w \in Procs :
        /\ pc[w] \in {"record", "reward"} => outcome[w] = "posted"
        /\ pc[w] \in {"charge", "reroute", "requeue", "fail", "deadLetter"}
               => outcome[w] \in Errors
        /\ pc[w] \in {"reconcile", "settle"} => outcome[w] # "none"

\* The account of a post is there, so no execution fails once it has closed its
\* row; nobody has counted an attempt since it loaded the row; and a job that is
\* without its dead letter has an execution that owes it.
DeadLettersOwed ==
    /\ breached = {} /\ live = Accounts
    /\ \A w \in Procs :
        /\ UsesAccount(w) => account[cur[w]] # NoAccount
        /\ phase[w] = "closed" => pc[w] \notin {"charge", "reroute", "fail"}
        /\ pc[w] # "throw"
        /\ RowInHand(w) /\ pc[w] # "unlock" => attempts[cur[w]] <= snapAttempts[w]
    /\ DeadLetterEnabled =>
        \A j \in Jobs : status[j] = "FAILED" /\ attempts[j] >= MaxRetries =>
            deadLetter[j] # None \/ \E w \in Procs : Owes(w, j)

=============================================================================
