---------------------------- MODULE PublishRows ----------------------------
(***************************************************************************)
(* The shared state of the publishing subsystem: the rows of PublishJob,   *)
(* ContentDraft and PublishDeadLetter, the BullMQ publish queue, the       *)
(* advisory locks, and what the provider (StockTwits through dlvr.it,      *)
(* Telegram) has accepted; the processes that work on it (one queue worker *)
(* and some HTTP requests per application process); and the helpers of     *)
(* publishing.service.ts that both use.                                    *)
(***************************************************************************)
EXTENDS Naturals, FiniteSets

CONSTANTS
    Jobs, Drafts, DraftOf, PlatformOf,
    Accounts, NoAccount,
    Procs,             \* application processes, one BullMQ worker in each
    Requests, Home,    \* HTTP request slots and the process serving each
    Conns, NoConn,
    Pool,              \* the Prisma connections of each process
    None,              \* no row, no job, no draft status read
    Handlers,          \* the request kinds this deployment issues
    MaxRetries,        \* PUBLISH_MAX_RETRIES
    DeadLetterEnabled, \* PUBLISH_DEAD_LETTER_ENABLED
    BullAttempts,      \* defaultJobOptions.attempts
    Mishaps,           \* the disturbances that may happen
    MaxMishaps,        \* bound on their number
    MaxRequests,       \* bound on the number of HTTP requests
    MaxArmed           \* bound on the reroutes of a job

Platforms == {"TELEGRAM", "STOCKTWITS", "DISCORD"}
RequestKinds == {"schedule", "retry", "rerun", "replay", "window", "dispatch", "dismiss"}
JobStatus == {"PENDING", "SUCCESS", "FAILED", "SKIPPED"}
DraftStatus == {"AUTO_APPROVED", "PUBLISHED", "FAILED"}
DeadLetterStatus == {"OPEN", "REPLAYED", "DISMISSED"}
Tries == 0 .. BullAttempts - 1

ASSUME PublishAssumption ==
    /\ DraftOf \in [Jobs -> Drafts]
    /\ PlatformOf \in [Jobs -> Platforms]
    /\ Home \in [Requests -> Procs]
    /\ Pool \in [Procs -> SUBSET Conns]
    /\ \A p, q \in Procs : p # q => Pool[p] \cap Pool[q] = {}
    /\ NoAccount \notin Accounts
    /\ None \notin Jobs \cup JobStatus \cup DraftStatus \cup DeadLetterStatus
    /\ NoConn \notin Conns
    /\ Handlers \subseteq RequestKinds
    /\ Mishaps \subseteq {"crash", "fault", "recycle", "deleteAccount"}
    /\ MaxRetries \in Nat \ {0} /\ BullAttempts \in Nat \ {0}
    /\ MaxMishaps \in Nat /\ MaxRequests \in Nat /\ MaxArmed \in Nat
    /\ DeadLetterEnabled \in BOOLEAN

VARIABLES
    status,       \* PublishJob.status, None before the row exists
    attempts,     \* PublishJob.attempts
    account,      \* PublishJob.accountId
    draft,        \* ContentDraft.status
    deadLetter,   \* PublishDeadLetter.status, None without a row
    queue,        \* entries per job, by how often BullMQ has tried them
    locks,        \* the publish-job advisory locks
    posts,        \* how many posts of the job the provider has accepted
    live,         \* the AccountProfile rows that exist
    mishaps, issued,     \* used up of their bounds
    armed,        \* history: how often the row was made PENDING
    cut,          \* history: executions that posted and ended unrecorded
    breached,     \* history: jobs whose lock vanished under an execution
    \* the queue worker of each process
    pc, cur, tries, lockConn, snapAttempts, snapAccount, outcome, view, phase,
    \* the HTTP requests
    reqPc, reqKind, reqJob, reqTodo, reqDrafts, reqView

L == INSTANCE AdvisoryLocks WITH Keys <- Jobs

rows    == <<status, attempts, account, draft, deadLetter>>
world   == <<queue, locks, posts, live>>
budget  == <<mishaps, issued>>
history == <<armed, cut, breached>>
worker  == <<pc, cur, tries, lockConn, snapAttempts, snapAccount, outcome, view, phase>>
request == <<reqPc, reqKind, reqJob, reqTodo, reqDrafts, reqView>>
vars    == <<rows, world, budget, history, worker, request>>

-----------------------------------------------------------------------------
\* A row exists once createAndQueuePublishJob has created it.
Rows == {j \in Jobs : status[j] # None}
RowsOf(d) == {j \in Rows : DraftOf[j] = d}

\* Fault: a skipped job keeps its draft from being published.
ReconciledSkipIsFailure(d) ==
    IF \E j \in RowsOf(d) : status[j] = "PENDING" THEN "AUTO_APPROVED"
    ELSE IF \A j \in RowsOf(d) : status[j] = "SUCCESS" THEN "PUBLISHED"
    ELSE "FAILED"

\* Fault: a draft with a failed job gets no status.
ReconciledFailureUndefined(d) ==
    CASE \E j \in RowsOf(d) : status[j] = "PENDING" -> "AUTO_APPROVED"
      [] \A j \in RowsOf(d) : status[j] \in {"SUCCESS", "SKIPPED"} -> "PUBLISHED"
      [] OTHER -> None

\* The status reconcileDraftPublishState computes from the rows it reads; it
\* runs only for drafts that have a row.
Reconciled(d) ==
    IF \E j \in RowsOf(d) : status[j] = "PENDING" THEN "AUTO_APPROVED"
    ELSE IF \A j \in RowsOf(d) : status[j] \in {"SUCCESS", "SKIPPED"} THEN "PUBLISHED"
    ELSE "FAILED"

\* publishQueue.add: one more entry for j that BullMQ has not tried yet.
Enqueued(j) == [queue EXCEPT ![j][0] = @ + 1]

\* The row is made PENDING and its post authorised once more.
Arm(j) ==
    /\ status' = [status EXCEPT ![j] = "PENDING"]
    /\ armed' = [armed EXCEPT ![j] = @ + 1]

Entries(j) == {k \in Tries : queue[j][k] > 0}

Spend(m) == m \in Mishaps /\ mishaps < MaxMishaps /\ mishaps' = mishaps + 1

=============================================================================
