# StockPromotion: TLA+ models and proofs

The repository is a NestJS service (`src/app/src`) that collects market
chatter, ranks trends, lets a language model write drafts, and publishes the
approved drafts to StockTwits (through dlvr.it or in a browser), Telegram and
Discord from a pool of accounts. This directory holds TLA+ modules for that whole
path: the cycles that ingest, the runs of the pipeline, the scheduling and the life of
publish jobs, the accounts they use, the sessions of StockTwits and dlvr.it, the
Telegram chats, and the posts an operator makes by hand. With them come TLC
configurations that check them, and TLAPS proofs. `PROJECT.json` maps every
definition to the lines it models and lists runs, mutants, hazards, findings and
theorems.

## 1. The system

| Component | State it keeps | Operations | What makes it correct |
|---|---|---|---|
| Publish jobs, execution (`publishing/publishing.service.ts`, `publish.processor.ts`) | `PublishJob`, `PublishAttempt`, `PublishDeadLetter`, `ContentDraft.status`; BullMQ queue; PostgreSQL advisory locks | `executePublishJob` (lock, load, gates, post, record, reconcile, charge, reroute, dead-letter, unlock) | one execution per job; each post accounted for; SUCCESS means posted; each PENDING job ends; exhausted jobs are dead-lettered |
| Publish jobs, operator requests | the same rows and queue | retry, rerun, dispatch now, dead-letter replay and dismissal, window replay | no published job is posted again behind the worker's back; drafts agree with their jobs |
| Publish jobs, scheduling | `PublishJob` rows, cooldown and idempotency keys | `scheduleDraftPublishes`, `createAndQueuePublishJob`, `hasRecentDuplicateWithinCooldown` | no duplicate within the cooldown; quotas hold |
| Accounts (`accounts/accounts.service.ts`) | status, health, health state, rotation policy | sync from configuration, selection, outcome, quarantine, replacement, dlvr.it accounts | quarantined accounts do not post; the account that failed is the one charged |
| Manual posts and Discord broadcasts (`publishManualPost`, `publishing/discord-ui.publisher.ts`) | no rows of their own: the answer and the charge to the account; one Firefox profile for all broadcasts | checks, dlvr.it or browser items, broadcast over servers and channels, login and its recovery, audit | an answer of success leaves out no failure; confirmed channels are reported; an account is charged once; messages appear under the login that came with the post |
| CSV campaigns (`publishing.service.ts`) | accounts a campaign adds, their jobs | upsert accounts, create jobs 90 seconds apart | (not modelled) |
| Posting policy (`policy/*`) | in-memory token buckets and backoff | only the static restriction classification is called | a muted account halts |
| Pipeline (`orchestration/orchestration.service.ts`) | pipeline lock, queue, run state | queued and HTTP runs, draft approval | runs of two processes never overlap; approved drafts are handed to the scheduling |
| Ingestion (`ingestion/ingestion.service.ts`) | connector state, `SourceEvent` | three connectors at once, batches, plans of a search, deduplicated storing | a source reported healthy has stored its rows; plans widen in order |
| Trends and content (`trends`, `content`, `llm`) | trends with a fingerprint, drafts with a unique body | windows, evidence, threshold; generation with attempts, duplicate look-up and creation | evidence counts once per window; no approved draft is stranded |
| dlvr.it sessions (`publishing/dlvrit-session.service.ts`, `dlvrit.publisher.ts`) | cookie per workspace in memory, on disk and in a browser profile; status of the workspace's row | look-up, shared renewal in a browser, one renewed try after a 401, connect and reload | one renewal at a time; a message is delivered at most once; no workspace stays CONNECTING |
| Telegram (`telegram.publisher.ts` and the candidates in `publishing.service.ts`) | candidate chats | seeds, approval, inspection with rest, targets, send with retry and one redirection | one candidate holds up no other; a chat gets a message once unless an answer was lost |
| StockTwits browser (`publishing/stocktwits.publisher.ts`) | a browser profile per account and a default one, the cookies in it, a page | publish, manual post, batch, warm-up, discovery, bootstrap, status | no resubmission after an answer; the right account posts; the id reported is the post's own |
| Retention (`retention/*`) | none | delete old rows | (not modelled) |
| Authentication (`auth/*`) | sessions, failed-login counters | login, guards | (not modelled) |
| Manual UI, audit, telemetry, health, configuration | none, or append-only | HTML pages, logs, checks | (not modelled) |

**How they interact.** HTTP requests and the scheduler call services directly in
the same Node process. The pipeline and publish jobs run on BullMQ workers,
one entry at a time per process (`@Processor` without a concurrency option), in
the same process or in another instance. All durable state is in PostgreSQL
through Prisma, almost always one query per step and rarely in a transaction;
the services share rows, not messages. The queue is in Redis. What is not in a row
is in a file or a browser's profile directory: the sessions of dlvr.it, StockTwits and
Discord, which several calls of one process use at once.

**What is hard.** Every `await` is a point where another request, the worker or
another process runs. Rows are read in one query and written in another,
usually without repeating the condition. The job lock is a *session* advisory
lock taken and released by separate queries on a connection pool. Posts are
not idempotent: an accepted post whose answer or record is lost is sent again.
BullMQ redelivers (three attempts, stalled entries), operators add entries, and
only the PENDING check keeps a second entry from posting. Nothing sweeps rows
that lost their queue entry. The sites are slow, answer late or not at all, log people
out and show the messages of others; a browser may be killed by another call for its
profile.

The full list of hazards, each with its line and the property that covers it,
is in `PROJECT.json` under `hazards`.

## 2. Modules

| Module | What it is |
|---|---|
| `AdvisoryLocks` | PostgreSQL session advisory locks as operators on a lock table: granted, locked (nesting), unlocked (nothing for a session that does not hold it), closed. External: it models PostgreSQL as the code uses it. |
| `PublishRows` | Constants, the shared variables, and the helpers both sides use (`Reconciled`, `Enqueued`, `Arm`). |
| `PublishWorker` | `executePublishJob`, one action per awaited call. |
| `PublishRequests` | The operator's handlers and the creation of jobs, one action per awaited call. |
| `PublishJobs` | Composition, disturbances (crash, closed connection, deleted account), `Spec`, `FairSpec`, all properties and the inductive invariants. |
| `JobLifecycle` | The abstract specification of a job that `PublishJobs` implements: status, posts, permits, and the jobs of which nothing is promised any more. |
| `MCPublish` and `MCPublish*.cfg` | Instances for TLC. |
| `PublishJobsProofs` | Types, lock exclusion, rows in hand, the ledger of posts, successes. |
| `PublishSafetyProofs` | The refinement of `JobLifecycle`, what undoes a success, and dead letters. |
| `AccountPool` | The posting accounts of one platform under the flows that use them: scheduling, execution, reroute, manual posts, operators. |
| `MCAccounts` and `MCAccounts*.cfg` | Instances for TLC. |
| `AccountPoolProofs` | The inductive invariant of `AccountPool` and the properties it gives. |
| `Scheduling` | Concurrent calls of `scheduleDraftPublishes` in time: draw, account and quota, two duplicate queries, idempotency key, row, queue entry; and the worker and operators who move rows in time. |
| `MCScheduling` and `MCScheduling*.cfg` | Instances for TLC. |
| `SchedulingProofs` | The inductive invariant of `Scheduling` and the properties it gives. |
| `StocktwitsSessions` | The calls of the StockTwits publisher: profile lock, launch, login, composing, submitting, the listener and its timer, confirmation, second attempt, batches. |
| `DlvritSessions` | Posts, connects and reloads that need a dlvr.it cookie, and the renewal they share. |
| `SharedRenewals` | The abstract specification of a shared renewal that `DlvritSessions` implements: one renewal of a workspace at a time, which stores its cookie and then ends alike for all who wait for it. |
| `MCSessions` and `MCSessions.cfg` | The two together, with liveness. |
| `IngestionCycles` | Cycles of concurrent connectors, and the plans of a search as functions of its configuration. |
| `PipelineRuns` | Runs of the pipeline under its lock (`AdvisoryLocks`), with trends and drafts. |
| `ManualPosts` | Manual posts with their charges and Discord broadcasts. |
| `TelegramChats` | Candidates, targets and sending. |
| `MCServices` and `MCServices.cfg` | The four together. |
| `SessionsProofs`, `PipelineProofs`, `ManualPostsProofs` | The inductive invariants of the sessions, the pipeline and the manual posts, and the properties they give. |
| `ServicesProofs` | The same for the ingestion and for Telegram, and for the four components of `MCServices` together. |

`PublishJobs` and `AccountPool` are two views of the same execution. The first has every
await of `executePublishJob`, the lock and the queue, and sees of the accounts only which
exist: any of them may be chosen. The second has what decides which account
is chosen and what is charged to it, and sees of the job only its account. What one leaves
open the other restricts, so a safety property of either holds of the whole. `Scheduling` is the third
view: it has the times, contents and keys of the rows, which the other two leave out, and sees
an execution only by what it does to a row (`Execute`, `Drop`, `ChooseReroute`, `WriteReroute`).

The six other components touch this core at one step each. `PipelineRuns` sees of a
cycle only that events arrive and that it ends or throws, and of a schedule only that a
draft was handed over. `DlvritSessions` and the sends of `TelegramChats` are what stands
behind the posting step of `PublishWorker`, which may succeed, fail or be lost in any way.
`StocktwitsSessions` stands behind the browser items of `ManualPosts`, and `AccountPool`
behind its choice of an account. These components share no variable, so the MC modules
follow one of them per behaviour (`part`) and leave the others in an initial state:
interleaving steps that cannot affect each other would add states and no behaviour.

### State and code

`status`, `attempts`, `account` are the columns of `PublishJob`; `draft` is
`ContentDraft.status` (the three values publishing writes); `deadLetter` is
`PublishDeadLetter.status`. `None` stands for a row that does not exist.
`queue[j][k]` counts BullMQ entries of job `j` tried `k` times before. `posts[j]`
counts what the provider accepted, which the program cannot see. `live` is the
set of account rows.

Each process has one worker with a program counter `pc`, the job `cur`, and the
locals of `executePublishJob` that outlive an await: `snapAttempts`
(`job.attempts`), `snapAccount` (`job.accountId`), `outcome` (the error, or
`posted` / `skipped`), `view` (the draft status computed but not yet written).
`lockConn` is the connection the lock query ran on. `phase` (fresh, posted,
closed) is a history of the execution. Requests have `reqPc`, `reqKind`,
`reqJob`, `reqTodo` (the rest of a window or schedule), `reqDrafts`, `reqView`.

The history variables `armed`, `cut` and `breached` exist only for the
properties: how often a row was made PENDING, how many executions ended between
an accepted post and its record, and which jobs lost their lock under an
execution. They are also the refinement mapping to `JobLifecycle`: the `permits` of a
job are `armed + cut`, the jobs `loose` are those `breached`, `status` and `posts` are themselves;
every other variable is hidden. `JobLifecycle` lets a job FAIL whatever it was, because the catch block
of `executePublishJob` also runs after the write of SUCCESS; `SuccessUndoneOnlyByStaleWrite` says when.

Error messages are three classes, by what `isReroutableFailure` and
`isAccountRestrictionError` answer: `plain`, `transient`, `restriction`. The gates
answer in any way (go on, skip, throw). `Route` and `Reroute` may choose any
existing account or none. Time, bodies, evidence and audit records are left out.

`AccountPool` has a row per account handle: `status` (MISSING when there is none), `health`
(`healthScore` in hundredths), `review` (`replacementRequestedAt` is set). `assigned` is
`PublishJob.accountId`. `flow[f]` is one record per job or manual post: the step it is at and
what it holds across awaits, `snap` (`job.accountId` as `executePublishJob` or
`tryRerouteFailedJob` read it), `active` (`activeAccount`, or the account selected), `cand`
(the candidates of `getEligibleAccount`), `seen` (the row `recordPublishOutcome` read),
`result`. An id of a deleted row held in a local becomes `Gone`. Two history variables serve
properties: `touched`, the accounts whose row changed status since the flow's last
sync, and `barred`, those quarantined and not reinstated by an operator. Each
query is a step of its own: the sync (one transaction over the platform's rows), the read of the
candidates, the write of `lastSelectedAt`, the write of the job's account, the post, the read and the
transaction of `recordPublishOutcome`, its last rows. A flow may be cut off at any step (`Crash`).
Quotas, quiet hours and the gates answer in any way. In the code `healthScore` is a floating-point
number; in hundredths the limit 0.35 is exact.

`Scheduling` has `job`, the `PublishJob` rows as a function whose domain grows, keyed by what the unique
column `idempotencyKey` hashes (draft, target, account, bucket); `at` is `scheduledAt`,
`account` the account the row has now. `queued` holds queue
entries, each with the time its delay ends. `caller[c]` holds the locals of one call of
`scheduleDraftPublishes`: the batch, the position `i`, the targets left, and the target, time and account
chosen. `Runner` is the pipeline run, of which its lock admits one; it takes the drafts generation
approved. The other callers are approvals of an operator, which take a draft of any
status. A target carries its platform; which targets a draft has (its symbol when it trends, the
chats joined) is any subset of `TargetsOf`. Contents are drafts: the content hash is unique to a draft, and
`Similar` says which pairs reach the threshold. Three history variables serve the properties:
`since[c]`, the rows created or moved after call `c` read the quotas (`quota`) and made the exact query
(`copies`); `missed[k]`, the same for the row a call created, kept on; and `moved`, the rows whose time
changed after creation. Row statuses SKIPPED do not arise from the StockTwits and Telegram
jobs modelled here before their execution, and count for no query, like FAILED.

`StocktwitsSessions` has a record per call: the step `pc` of the publisher's method, the
operation and account asked for, and its locals: the item and attempt, `before` (the message ids on
the page before the submission), `wire` (what StockTwits has answered and the
listener has not read), `api` (what the listener settled on), `got` (the ids taken for the messages).
`browser` says whose browser runs on a profile: `Unlock` frees it, as `releaseStaleChromeProfileLock`
does by killing the process. `cookies` says whose session a profile holds, `feed` what the site shows,
`up` whether the process runs: a refusal that arrives before the call awaits the listener is an
unhandled rejection, and ends it. `heard` is a history, the attempts that were answered within the
listener's time. A call whose browser was taken fails at its next step on the page. The page answers in any
way; the selectors, waits and probes that make up an answer are abstracted to it.

`DlvritSessions` numbers the cookies the site hands out; `remembered`, `onDisk` and `profile`
are the three places one is kept, `valid` the site's view. `refreshes[w]` is the user whose renewal
is in the service's map of renewals in flight, `flight[u]` how far that renewal's browser is. `req[u]` has the
step, the renewal it waits for (`on`) and what it does then, the cookie it uses, and `again` for
the renewed try. `rows` is the status of the workspaces' rows. `SharedRenewals` sees of it only who waits, who holds
which cookie, the workspaces in the map of renewals, and `KeptCookie`, what the next request would find in memory or in
the session file; the browsers, the site and the rows are hidden. A renewal that succeeds takes three steps: `Extracts` stores the cookie
(`store`, in memory and, if the file can be written, on disk), `Closes` closes the browser, and with that the renewal leaves the
map and those who wait go on. Between the first and the second, others find the new cookie, and one whose cookie was refused
joins the renewal that is about to end. A `context.close()` that throws fails all who wait, though the cookie was stored;
`brought` in `SharedRenewals` is that cookie. In the catch block the cookie file of the profile is removed while the browser still runs, which
may write it again (`GivesUp`).

`IngestionCycles` has a task per cycle and connector: the batch it is `at`, the `plan` it tries, `best`
(the rows of the best plan so far), the rows `chosen`, and `errs`, the batches whose error was swallowed. `cycle`
fails when `Promise.all` rejects; its other tasks go on and may write `connector` after the
next cycle has. Cycles start in the order of their numbers, but one may start while others run: the lock of the pipeline nests on
its own connection, where `POST /orchestration/run` with mode `sync` meets a queued run. `beside[c]` is a history, the cycles
that were running when `c` started. `FetchPlans` translates the construction of the search plans.

`PipelineRuns` has a record per run: the step, its process, the time and events it has read, the windows
`left`, the rows computed (`fresh`), the symbols to write for, the body the model has written. A trend's
fingerprint is its symbol, window and `evidence`; a draft's unique key is its body. `plock` is a table of
`AdvisoryLocks`; a query takes any connection of the run's process, so an unlock may miss the
lock. `met` is a history, the pairs of runs that were at work at once.

`ManualPosts` has a record per post. `item`, `failed` and `st` are the StockTwits half; `link`, `left`,
`sent` and `here` say where the broadcast is and hold the rows of the present server, `rows` those
collected, `bad` that something without a row failed, `way` how it logged in. `window` is the post whose
Firefox holds the profile, `user` the login whose session the profile holds, `closed` the posts whose window
was closed. `cleared` are the messages for StockTwits that came back without an error, which is
all the program knows of them: a dry run sends nothing, any body of dlvr.it that is not marked as an error counts as
taken, and the browser may take a stranger's message for its own. `said` is what channels show. `confirmMessageSent` looks for the opening of the
message anywhere in the text of the page, so that a channel counts as posted (`Confirmed`) tells nothing of `said`. `noted` is a
history of the rows of channels, kept when a server's rows are dropped. Discord asked for without any link is an error (`AfterStocktwits`).

`TelegramChats` has the candidates' rows (`seed`, `chat`, approved, joined, and `rests` until the
next inspection is due), a record per call, and for each chat what it `got`; `lost` are the calls with an
unanswered send. A chat has several references, and gets another when its group `moved`.

`WorkerFault` and `RequestFault` let any awaited database or Redis call fail:
inside the inner `try` the catch block takes over, after it the error goes through
`finally` to BullMQ, which retries the entry.

Calls that the program makes between two changes of the modelled state and
that change none of it (audit, attempt rows, telemetry) are part of the action
before them; their failure is a `WorkerFault` at the next step.

BullMQ is modelled as the code uses it: `queue.add` adds an entry. The installed version
(5.71.1 in `package-lock.json`) takes an id of the caller's that holds a colon only if it
has exactly three parts. Those of replay, retry, rerun, dispatch and reroute have
three and that of a schedule holds no colon. The id of the window replay has four, so `Add` always fails there and the
handler ends with its first row PENDING and without an entry. What the handler would do afterwards,
mark the dead letter, go on, reconcile the drafts, is never reached and is not modelled.

## 3. Runs

| Run | Instance | Shows |
|---|---|---|
| `publish_overlap` | 2 processes (pools of 2 and 1 connections), 1 job, 2 accounts, every handler, 1 request, 1 disturbance of any kind | `TypeOK`, `ExclusiveExecution`, `PostsAuthorised`, `SuccessWasPosted`, and that `PublishJobs` implements `JobLifecycle` (`JobsFollowLifecycle`) |
| `publish_races` | 1 process, 1 job, 2 concurrent requests of any kind | `DrainedFailuresDeadLettered`, `SuccessUndoneOnlyByStaleWrite` |
| `publish_settle` | 1 process, a draft with a StockTwits and a Discord job, 3 requests one after another, fairness, no disturbance | `DrainedDraftsAgree`, `ArmedJobsSettle` |
| `publish_window` | 1 process, 1 job, a schedule and a window replay | **violation** of `NoOrphanedJobs` |
| `publish_leak` | 1 process with 2 pooled connections, 1 account, a schedule and the replay of a dead letter | **violation** of `NoStuckDrafts` |
| `accounts_pool` | 2 configured accounts and 1 an operator may link, 1 job with reroutes and retries, 1 manual post, 2 operator changes | `TypeOK`, `QuarantinedAwaitReview`, `SelectionFollowsConfiguration`, `RerouteLeavesAccount`, `WithdrawalEndsKnowingly` |
| `accounts_quarantine` | 2 configured accounts, 1 job, 2 operator changes | **violation** of `QuarantinedNeverSelected` |
| `accounts_charge` | 2 configured accounts, 1 job, 2 operator changes | **violation** of `RestrictionChargedToPoster` |
| `scheduling` | 2 alike drafts, 1 target, 2 accounts, a pipeline run and an approval at once, 1 row moved | `TypeOK`, `DuplicatesExplained`, `QuotaExplained` |
| `scheduling_duplicate` | 1 pipeline run of 2 alike drafts | **violation** of `NoDuplicatePublished` |
| `sessions` | StockTwits: 2 calls in five mixes (both on the default profile, both on one account's, on two profiles), 1 stranger's message; dlvr.it: 2 requests in three mixes, 2 cookies, 1 restart; fairness | `NoResubmitAfterAnswer`, `WrongAccountExplained`, `ForeignIdExplained`, `OwnProfileUndisturbed`, `OneRenewalPerWorkspace`, `PostedAtMostOnce`, `RenewalsShared`, `CallsEnd`, `ConnectingSettles`, types |
| `services` | ingestion: 2 cycles that may overlap, 2 connectors, 3 items; searches: 150 configurations; pipeline: 2 runs in 2 processes (2 and 1 connections), 1 signal, 2 bodies; manual posts: 2 in four mixes, 2 channels; Telegram: 2 calls, 4 seeds, 2 chats of which one moves | `StaleStateExplained`, `ActiveSourcesStored`, `PlansWidenInOrder`; `ProcessesExclude`, `TrendOncePerEvidence`, `StrandedDraftsExplained`; `SuccessIsWhole`, `ConfirmedReported`, `SenderExplained`, `ChargedOnce`; `BlockedOnlyByTwins`, `TwiceOnlyWhenLost`; types |

Each property of a passing run has a mutant: a plausible bug, written next to the
definition it changes ("Fault: ..." or "Mutant: ..."), under which TLC finds the property violated.

**Bounds.** `MaxMishaps` (disturbances), `MaxRequests` and `MaxArmed` (reroutes of a
job) are the only artificial bounds; they are guards of `Spend`, `Begin` and
`Reroute`. One job is enough for the lock, the ledger and the races, because jobs
share nothing but their draft and the set of accounts; the draft properties use
two jobs of one draft with different outcomes. Two processes and three
connections give both cases of a lock query (same session, another session) within
and across processes. `MaxRetries` 1 and 2 and `BullAttempts` 2 reach "exhausted"
and "retried" in short behaviours; `app.module.ts` sets three attempts, which adds
redeliveries of a kind already there. The accounts are interchangeable, so the
safety runs use symmetry on them; the run with liveness does not.

In `AccountPool` the bounds are `MaxRuns` (executions and manual posts, in `Execute` and `Compose`) and
`MaxEdits` (operators' changes and retries, in `Edit`). Two runs give an execution with a reroute
and a second execution, or an execution beside a manual post; two edits give a
quarantine with a disable, a link or a deletion under a running flow. Two configured accounts give a fallback,
the third is the one that is in the rows but not in the configuration. `StartHealth` 40 is the
health earlier posts may have left (40 is 1 - 4 * 0.15, by four failed posts): one failure
is short of the limit of 35, another is past it, and two restrictions pass zero. The runs of the violations start from 100.

In `Scheduling` the bounds are `MaxTime` (in `Tick`), `MaxCalls` (in `Call`) and `MaxMoves` (in `Move`). Two
calls are the pipeline run with its batch of two and an approval of either draft beside it, before or
after; one move is any one re-arming or reroute. Rows are scheduled at 0 to 3 with a cooldown of 2 and a day of 3,
so both sides of a bucket boundary and of each window occur; the account quota is 1 and the global
quota 2, so that a second row meets the one and a third the other. The run of the violation has more time
(`MaxTime` 3) for the posts, and quotas that do not bind. `LookBack` 1 stands for the 20
rows the code compares: two rows are enough to have one left out.

In `MCSessions` the bounds are `MaxForeign` (in `Stranger`), `MaxCookie` (in the step that issues one) and
the one restart of `Restart`. The hazards are races of two calls for a profile or a renewal: a third call meets
each of the two in the same ways. `PostAttempts` 2 is the publisher's own number; `BatchSize` 2 gives a symbol
after another. One stranger's message is enough to be mistaken for the post's own; with two cookies
one is issued, forgotten and renewed.

In `MCServices` the bounds are `MaxCycles`, `MaxTime` (in `Tick`), `MaxTries` and the finite sets of items, signals and
posts. Two cycles are one that fails and leaves a connector running, and the next, or two that run at once. Two runs and three
connections are runs in one process and in two, and an unlock that misses. `MaxTime` 1 lets the window of length
1 move on between two runs. The four mixes of posts are two broadcasts on one profile, links that are none before and
between others, dlvr.it with a channel, and browser items with and without a pooled account. The seeds of
Telegram are two links to one chat, an id that moves and an invitation that names none. Symmetry is
used on the two runs and on the two connections of one process, which no
constant and no property tells apart; no liveness is checked in that run.

`MCPublish!ScheduledInit` starts two of the runs after the jobs have been created,
the state `schedule` requests lead to; the other runs start from `Init`, where no
row exists.

**Deadlock** is switched off in every cfg: a system with no request to serve and
an empty queue rests, and the bounds end every behaviour.

**Fairness.** `FairSpec` asks that a worker or an accepted request with a step to
take eventually takes one (`WF` of `WorkerStep(w)` and `RequestStep(r)`): Node's
event loop and BullMQ's polling do that. Nothing obliges an operator to send a
request (`Begin`), and no disturbance is owed. The fairness of `Deliver`, part of
`WorkerStep`, is BullMQ's: an entry in the queue is eventually delivered, though
not which one first.

`SessionFairness` asks a step of every StockTwits call that can take one (`CallStep`, which includes its timer and
its waits, all of which have timeouts in the code); no answer of the site is owed.
`DlvritFairness` asks it of a request that has started and of a browser that logs in, whose
navigations and HTTP calls have timeouts. Under it `CallsEnd` says that every call ends and `ConnectingSettles` that
no workspace stays CONNECTING but by a restart.

`ArmedJobsSettle` and `DrainedDraftsAgree` are checked where they can hold: a pool of
one connection (with more, the lock leaks, see `publish_leak`), no dispatch-now, which adds a second entry, and
no window replay (which always throws, see `publish_window`), no failing awaits (nothing sweeps a row whose
queue entry was lost), and reroutes that come to an end.

## 4. What the violations say

* `publish_window`: `replayFailedWindow` makes the row of its first candidate PENDING and then calls `queue.add` with
  the id `<job>:window-replay:<time>:<index>`, which BullMQ refuses: a custom id with colons must have three parts. The request ends
  in an error; the row stays PENDING without an entry, its dead letter OPEN, its draft FAILED. Every replay and retry looks
  for FAILED rows, so only dispatch-now can still run the job.
  `ops/tests/soak-and-failure-injection.md:19` says "Replay recovers failed windows without data corruption."
* `publish_leak`: lock and unlock are separate pool queries. An unlock on another
  connection does nothing and the lock stays with the first. When the dead letter is replayed, the draft is made
  `AUTO_APPROVED`, and the new entry, tried on the other connection, finds the lock taken and is completed without work. The job
  stays PENDING and the draft waits. The same document asks for "No stuck drafts after replay." (line 20).
* `accounts_quarantine`: `phase-2-scale-automation.md:59` says "Quarantined accounts are never
  selected for posting." Every selection and every execution starts with
  `syncAccountsFromConfig`, which sets each configured account to `ACTIVE` whatever its status. A
  quarantine therefore lasts until the next publish job.
* `accounts_charge`: when a job's account is not `ACTIVE`, the execution posts from a fallback, but
  the catch block charges `job.accountId` as it was read. A muted fallback stays `ACTIVE` and the other account
  is quarantined; the comment at `publishing.service.ts:703-706` says the restricted account is "already being
  QUARANTINED".

* `scheduling_duplicate`: `phase-1-core-pipeline.md:78` says "No duplicate post is published within
  configured cooldown windows." Both duplicate queries look from the new row's time back over one cooldown.
  Times are drawn with `randomInt` between the least and the greatest delay, so the second of two
  alike drafts may be drawn a little before the first, outside what its query sees. One pipeline run is
  enough. Other ways (two calls at once, retries, reroutes) are the ones `DuplicatesExplained` lists.

## 5. Proofs

`PublishJobsProofs` and `PublishSafetyProofs` prove, for every value of the constants
that meets `PublishAssumption` (any number of processes, disjoint connection pools,
jobs, requests, disturbances):

| Theorem | Statement |
|---|---|
| `TypeCorrect` | `Spec => []TypeOK` |
| `LockExclusion` | `Spec => []ExclusiveExecution` |
| `SuccessesWerePosted` | `Spec => []SuccessWasPosted` |
| `NoUnauthorisedPost` | `Spec => []PostsAuthorised` |
| `Invariant` | `Spec => []IInv` |
| `SuccessesUndone` | `Spec => SuccessUndoneOnlyByStaleWrite` |
| `LifecycleImplemented` | `Spec => JobsFollowLifecycle`, that is `Spec => Life!Spec` |
| `FailuresDeadLettered` | `Spec => [](mishaps = 0 => DrainedFailuresDeadLettered)` |

The argument. `ExclusiveExecution` is not inductive: it speaks of two workers, while
what keeps them apart is the lock table. `LockHeld` adds that an execution's lock is
on a connection of its own process, unless that connection was closed under it
(`breached`). Pools are disjoint, so another process is never granted the lock and
never releases it; within a process there is one worker. A leaked lock only
makes the table more restrictive.

`PostsAuthorised` is a ledger: `posts + Credit <= armed + cut`, where a job has credit
1 while it is PENDING and no execution has an unrecorded post of it. A post spends the credit,
which is there because `RowHeld` says that the row is PENDING from the check until the
execution writes it (only a worker ends a PENDING row, and by the lock there is no other), and
`PhaseOfStep` that the execution has not posted yet. Arming a row and cutting an
execution off add to the right-hand side. `PostedAccepted` carries the post to the
write of SUCCESS.

`IInv` is the conjunction of these. The proofs have one case per action, with
frame lemmas (`LockFrame`, `RowFrame`, `CreditKept`) for the actions that leave a part
alone.

`SuccessesUndone` and `LifecycleImplemented` are about steps. The lemma `StatusInHand` says what a
worker's step does to a status: it changes that of its own job only, and, while the lock holds, only from PENDING
or after closing it itself. `RequestsShaped` says which kinds of request reach the write of PENDING: dispatch and
dismissal never do. For the refinement each step is one of `JobLifecycle`'s or leaves its variables alone: a
post is `Publish`, since by `RowHeld` and the ledger the row is PENDING and has a permit left; a cut is `Forget`; a
breach is `Loosen`.

`FailuresDeadLettered` needs its hypothesis. With a failing await or a deleted account, the catch
block runs after the row was closed and counts from a stale number, so that an exhausted job may be left without a dead
letter: the hazard at `publishing.service.ts:683`. Without a disturbance `DeadLettersOwed` is inductive: nobody counts an
attempt between the load and the write of an execution, none fails after closing its row, and a job without its dead
letter has an execution that is about to write it. Here any number of processes, connections and requests is allowed.

TLC checked each of these invariants before it was proved: `IInv` and `RequestsShaped` on the instances of
`publish_overlap` and `publish_races`, `DeadLettersOwed` and `OutcomeOfStep` under `mishaps = 0` there.

`AccountPoolProofs` does the same for the account pool, from `PoolAssumption`:

| Theorem | Statement |
|---|---|
| `PoolInvariant` | `Spec => []IInv` |
| `PoolTypeCorrect` | `Spec => []TypeOK` |
| `QuarantineReviewed` | `Spec => []QuarantinedAwaitReview` |
| `SelectionConfigured` | `Spec => []SelectionFollowsConfiguration` |
| `RerouteLeaves` | `Spec => []RerouteLeavesAccount` |
| `WithdrawalsEndKnowingly` | `Spec => WithdrawalEndsKnowingly` |

The argument. A sync leaves the rows in line with the configuration; `Aligned` says that they
stay so for every account not in the flow's `touched`, so an account a flow finds ACTIVE is configured or
touched (`SelectionFollowsConfiguration`). `SeenIsCurrent` says the same of the row an outcome is
computed from: with `Aligned`, an outcome that makes a withdrawn account ACTIVE belongs to a flow
that saw it before (`WithdrawalEndsKnowingly`). `SnapIsAssigned` and `SelectionState` carry
the excluded account from the read of the job to the choice (`RerouteLeavesAccount`). The proofs restate
`IInv` for one flow (`Sound`); `OneFlow` covers every step that changes only one flow's
locals, `TouchedSound` the other flows when rows change, so that each action needs one argument.
TLC checked `IInv` on the instance of `accounts_pool` first.

`SchedulingProofs`, from `SchedulingAssumption`:

| Theorem | Statement |
|---|---|
| `SchedulingCorrect` | `Spec => []Invariant` |
| `SchedulingTypes` | `Spec => []TypeOK` |
| `DuplicatesAreExplained` | `Spec => []DuplicatesExplained` |
| `QuotaExcessExplained` | `Spec => []QuotaExplained` |

The argument. The two properties say what the checks of `scheduleDraftPublishes` are worth: a duplicate
or a row over its quota is there only if another row moved into its window after the check, or
it moved itself. They speak of rows; `RoomLeft` and `NoneFound` say the same of a call that has read and
not yet created its row, and become the row's in `Create`. Every step that gives a row a new time
adds it to the `since` of the deciding calls and the `missed` of the rows, and every other step can
only take rows out of the windows, so counts stay below the quotas; finiteness of the rows is part of the
invariant for that. TLC checked `Invariant` on the instance of `scheduling` first.

`PipelineProofs`, from `PipelineConstants` (any runs, connections, signals, windows):

| Theorem | Statement |
|---|---|
| `PipelineInvariant` | `PipelineSpec => []PipelineInv` |
| `PipelineTypeCorrect` | `PipelineSpec => []PipelineTypeOK` |
| `ProcessesExcluded` | `PipelineSpec => []ProcessesExclude` |
| `EvidenceOnce` | `PipelineSpec => []TrendOncePerEvidence` |
| `DraftsHandedOn` | `PipelineSpec => []StrandedDraftsExplained` |

The argument. Exclusion does not follow from "the lock is held": it nests within a process and may be
left behind. `LockCovers` counts: the runs at work whose process has lost no connection are all of the
holder's process, and no more than the lock's depth, so no release by one run can free the lock under
another. `Knows` says what a run that computes knows of the trends of others: those of a run it has not met
end before the time it read, so evidence in them is older than what its own window adds. `DraftsAccounted` keeps
a draft with clean text with a run that has yet to hand it on.

`SessionsProofs` has the two kinds of sessions. StockTwits, from `SessionConstants` (any calls, accounts and mixes):

| Theorem | Statement |
|---|---|
| `SessionInvariant` | `SessionSpec => []SessionInv` |
| `SessionTypeCorrect` | `SessionSpec => []SessionTypeOK` |
| `AnswersEndAttempts` | `SessionSpec => []NoResubmitAfterAnswer` |
| `WrongAccountsExplained` | `SessionSpec => []WrongAccountExplained` |
| `ForeignIdsExplained` | `SessionSpec => []ForeignIdExplained` |
| `ManualPostsUndisturbed` | `SessionSpec => []OwnProfileUndisturbed` |
| `CallsWindDown` | `SessionSpec => [][every step of a call lowers its Rank, no step raises it]_sessionVars` |

The argument. `Sound` is what a call's own record says: an answer that was heard is of the attempt under way, and the
page is searched only after the timer. `Placed` says that the feed holds no message of an attempt that is yet to come.
`CookiesKnown` says that nobody but an account's own calls logs in on its profile, and that a call which logged in
itself still has its session while its browser lives. `Rank` counts the attempts that may come after the one under way,
then the steps of the code, then the listener's timer. It is below 120 in every state (two symbols, two attempts, twelve
steps), so a call takes fewer than 120 steps of its own, whatever the others do: this is the part of `CallsEnd` that
is about states, and the part that a loop of retries would break.

dlvr.it, from `DlvritConstants`:

| Theorem | Statement |
|---|---|
| `DlvritInvariant` | `DlvritSpec => []DlvritInv` |
| `DlvritTypeCorrect` | `DlvritSpec => []DlvritTypeOK` |
| `RenewalsUnique` | `DlvritSpec => []OneRenewalPerWorkspace` |
| `DeliveredOnce` | `DlvritSpec => []PostedAtMostOnce` |
| `NobodyWaitsInVain` | `DlvritSpec => [](WaitersServed /\ ConnectingHeld)` |
| `RenewalsImplemented` | `DlvritSpec => RenewalsShared`, that is `DlvritSpec => Shared!RenewalSpec` |
| `BothTypeCorrect` | `BothSpec => []BothTypeOK`, of the two beside each other |

The argument. `RenewalsOwned` ties each browser to the entry of its workspace in both directions, through every way a
renewal starts and ends; `Modest` says that a request which may still call has delivered nothing.
`NobodyWaitsInVain` is what `ConnectingSettles` needs of the states: a request that waits has a browser running for its
workspace, and a row that is CONNECTING has an operator's request under way, unless the process was restarted. That
these then take their steps is fairness, which stays with TLC. It was checked by TLC first, on all pairs of seven demands.

For `RenewalsImplemented` each step is one of `SharedRenewals` or leaves its variables alone. A browser that
signs in or fails answers the requests whose `on` is its user; that these are exactly the requests waiting for the workspace
is `RenewalsOwned` with `WaitersServed`: the renewal a request waits for runs, and only one of a workspace runs. So none
is left behind by a renewal that ended, and none is answered by that of another workspace. A request whose cookie was
refused joins the renewal that another began, or begins one. A write of the site, of
a row or of a browser's page is a stutter.

`ManualPostsProofs`, from `ManualConstants` (any posts, requests, channels, logins):

| Theorem | Statement |
|---|---|
| `ManualInvariant` | `ManualSpec => []ManualInv` |
| `ManualTypeCorrect` | `ManualSpec => []ManualTypeOK` |
| `SendersExplained` | `ManualSpec => []SenderExplained` |
| `OneCharge` | `ManualSpec => []ChargedOnce` |
| `ConfirmationsReported` | `ManualSpec => []ConfirmedReported` |
| `SuccessesWhole` | `ManualSpec => []SuccessIsWhole` |

The argument. The properties speak of answers; the invariant says what leads to them. `Fit` gives the
shared profile to one broadcast, so that a login by the form stays its own until the site ends it.
`Charged` has no charge before the outcome is known. `SentOff` says that the messages done with have
come back without an error unless a failure is noted. `Reported` keeps what became of each channel in the rows, through every way a server or a
broadcast ends, as long as nobody closes the window. `Whole` keeps every link left out, and a request without any, in `bad`, and
finds a failed row or `bad` in every broadcast whose window was closed. Each step changes
one post: `MovesOn` has what it owes to the others, `BroadcastMoves`, `LinkMoves` and `RowKeeps` what the
steps of a broadcast share.

`ServicesProofs`, from `IngestionConstants` (any sources, batches, items, cycles) and `TelegramConstants` (any
candidates, calls, references):

| Theorem | Statement |
|---|---|
| `IngestionInvariant` | `IngestionSpec => []IngestionInv` |
| `IngestionTyped` | `IngestionSpec => []IngestionTypeOK` |
| `StaleStatesExplained` | `IngestionSpec => []StaleStateExplained` |
| `HealthyMeansStored` | `IngestionSpec => []ActiveSourcesStored` |
| `SearchesWidenInOrder` | `IngestionSpec => []PlansWidenInOrder` |
| `TelegramInvariant` | `TelegramSpec => []TelegramInv` |
| `TelegramTyped` | `TelegramSpec => []TelegramTypeOK` |
| `OnlyTwinsBlock` | `TelegramSpec => []BlockedOnlyByTwins` |
| `RepeatsExplained` | `TelegramSpec => []TwiceOnlyWhenLost` |
| `ServicesInvariant` | `ServicesSpec => []ServicesInv` |
| `ServicesTyped` | `ServicesSpec => []ServicesTypeOK` |

The argument, for the ingestion. `StatesWritten` says that a connector which has ended wrote the state of its source,
and that what is there now is of its cycle or later, or of a failed cycle, or of one its cycle ran beside. It is kept because a
connector that reports under an older cycle belongs to one that is not done: it has failed, or it is still running and was so
when the later one started (`CyclesInOrder`). `Accounted` says of every row a connector has selected that it is stored, among the errors, or about to
be stored; a batch that fails is noted under the number at which its rows are offered.

`SearchesWidenInOrder` holds of every configuration, of any number of keywords and time ranges. The code builds a plan list in
loops; the model states what the loops leave: `PushOnce` keeps the first of each pair (`Firsts`, `Pushed`), and the list
is that of the ranges one after another (`OverRanges`). What would be inductions over lists are arguments by a least
counterexample: `LeastNat` takes the least number with a property from the well-foundedness the library proves, `PlaceOf`
the first place of an element. `KeywordLists` and `SlicesCover` say that the slices hold every keyword, `RangeTries` what
is asked in one range and in which order; `ListOfPlans` puts these together.

For Telegram. `StandsFor` compares a row with a reference through the moves of groups known so far. It is kept by
every step (`RowsStand`): an inspection writes a reference of the same chat, a move maps both sides alike. So a call's list still
names what its rows stand for (`ListCurrent`), and a call that threw still has the twin it threw on, although other calls
write rows and groups move between and after its steps. This needs that a supergroup does not move again, and, for the
counts, that it is the chat the group was: both are assumptions about Telegram. `SentOnce` relates the chats that have
the message to the references done with: the one in hand is among those taken and has delivered nothing, unless another
reference names its chat.

`ServicesInv` is the conjunction of the four invariants. TLC checked `IngestionInv` and `TelegramInv` on the instance of
`services` first.

**Only model-checked.** Liveness: `ArmedJobsSettle`, `CallsEnd`, `ConnectingSettles`. Of the second, the safety part is
`CallsWindDown`; of the third, `NobodyWaitsInVain`. And `DrainedDraftsAgree`: it holds of one worker, one connection and one
request at a time, the instance of `publish_settle`, and of no weaker deployment (two reconciliations of a draft may write in the wrong
order), so there is no general theorem in it. Every other property of a passing run is stated by a theorem,
`DrainedFailuresDeadLettered` under the hypothesis named above. The runs of violations are
counterexamples and have nothing to prove.

## 6. Not modelled

* HTML pages (`manual-ui`), health, audit and telemetry, start-up validation
  (`environment.validation.ts`): their state is outside the program or write-only.
* `STOCKTWITS_DRY_RUN`. With it set, `dlvrit.publisher.ts:49-57` answers with an id `dry-run-...` without sending
  anything, the job is written SUCCESS and its account credited; `submitInlineSymbolPost` of the StockTwits browser
  (`stocktwits.publisher.ts:4407-4413`) returns before its click, and the call goes on to look for a message that was not sent. `PublishWorker` and `StocktwitsSessions` have the program without it: in the former a post that
  returns without an error was accepted (`SuccessWasPosted`), also where dlvr.it answered 200 with a body that is not
  marked as an error, which is taken at its word. `ManualPosts` makes neither assumption.
* The CSV campaign: it upserts accounts and creates jobs 90 seconds apart without the checks of
  `scheduleDraftPublishes`; what the worker does with its jobs is in `PublishWorker`.
* `posting-policy.service.ts` but for its static `isAccountRestrictionError`: nothing calls it.
  `stocktwits-compliance` decides on the wording of a text; a draft is clean or not by choice.
* Retention, and the login limiter and sessions of `auth`: single steps that take part in no
  other component's protocol.
* Prompts and answers of the language model: a choice of bodies.
* In `StocktwitsSessions`: the proxy pool, the solving of challenges and the stealth settings, the
  parsing of the trending page, and methods that nothing calls.
* In `DlvritSessions` and `TelegramChats`: failing database writes, but for the unique key of
  a chat. In particular the last update of a workspace's row, returned without an `await` from
  within its `try`, may fail and leave the row CONNECTING; `ConnectingSettles` is about the logins.
* In `ManualPosts`: a `context.close()` at the end of a broadcast that throws although nobody closed the window; it would
  take the confirmed rows with it as a closed window does, and make the answer no success.
* In `IngestionCycles`: what brings cycles to overlap (the lock is `PipelineRuns`'); the parsing of pages, an
  answer's rows being any of those offered; the count of a connector's failures.
* In `PipelineRuns`: scores and weights, which choose among the trending symbols: any choice within
  the limit.
* Time, in `PublishJobs`. Delays of queue entries are dropped: an entry may be delivered at once. This
  is more behaviour than the code has, also for the reroute and retry delays. `Scheduling`
  has time: an entry is delivered when its delay has ended or later, and may find its row moved to
  another time meanwhile.
* In `Scheduling`: quiet hours, health and the sync are why a selection may find none (`AccountPool` has them);
  a failing query ends the call (`Abort`); CSV campaigns, which create jobs without these checks.
* In `AccountPool`: failing queries other than those of deleted accounts (they end a flow like `Crash`),
  the counters and times of `AccountHealthState` (only the gates read them), the order of
  the candidates (any candidate within its quota may be taken), a change of the configuration while
  the program runs (it is read from the environment at start).
* `hashtext` collisions of two job ids, which would make two jobs share a lock.
* BullMQ's stalled-entry recovery while the worker is still running (an event loop
  blocked longer than the lock duration). The job lock guards against it like against
  any second entry.

## 7. Plan

In this order:

1. (done) Publish jobs: `AdvisoryLocks`, `PublishRows`, `PublishWorker`, `PublishRequests`,
   `PublishJobs`; type correctness, lock exclusion and the ledger proved.
2. (done) Accounts: `AccountPool`, with its invariant and all its checked properties proved.
3. (done) `Scheduling`: creation of jobs in time, with its invariant and both properties proved.
4. (done) `PipelineRuns` over `AdvisoryLocks`, with trends and drafts, its invariant and properties proved.
5. (done) `DlvritSessions` and `StocktwitsSessions`, proved but for liveness; `TelegramChats`.
6. (done) `ManualPosts` with the Discord broadcast, proved; `IngestionCycles`.
7. CSV campaigns: accounts upserted under a running pool, jobs without duplicate checks.
8. (done) `JobLifecycle`: the abstract life of one publish job and the refinement, checked and proved.
9. (done) Theorems about `SuccessUndoneOnlyByStaleWrite`, dead letters, ingestion and Telegram.
10. (done) Abstract specification of the dlvr.it sessions, `SharedRenewals`, and the refinement, checked and proved; the order
    of the search plans, proved.
11. A mutual exclusion that `PipelineRuns` implements, as `SharedRenewals` is one of the renewals.
12. What a reroute without end costs: a bound on the posts of a job that counts its reroutes.

## 8. Running

    tlc -workers 2 -config MCPublishOverlap.cfg MCPublish
    tlapm PublishJobsProofs.tla
    tlc -workers 2 -config MCAccounts.cfg MCAccounts
    tlapm PublishSafetyProofs.tla
    tlapm AccountPoolProofs.tla
    tlc -workers 2 -config MCScheduling.cfg MCScheduling
    tlapm SchedulingProofs.tla
    tlc -workers 2 -config MCSessions.cfg MCSessions
    tlc -workers 2 -config MCServices.cfg MCServices
    tlapm PipelineProofs.tla
    tlapm SessionsProofs.tla
    tlapm ManualPostsProofs.tla
    tlapm ServicesProofs.tla
