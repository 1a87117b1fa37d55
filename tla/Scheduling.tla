----------------------------- MODULE Scheduling -----------------------------
(***************************************************************************)
(* How publish jobs come to exist: scheduleDraftPublishes chooses a time   *)
(* and an account per draft and target, looks for a recent duplicate,      *)
(* creates the row under its idempotency key and queues it.  Several calls *)
(* run at once: a pipeline run and the approvals of operators.  A worker   *)
(* and the operators then move rows in time without looking for duplicates.*)
(* Times are in one unit; minutes in the code.                             *)
(***************************************************************************)
EXTENDS Integers, Sequences, FiniteSets

CONSTANTS
    Drafts, Targets, Accounts, None,
    Callers,        \* calls of scheduleDraftPublishes that may be under way
    Runner,         \* the pipeline run: one at a time, by its lock
    TargetsOf,      \* draft -> its StockTwits symbol and the Telegram chats
    TargetOffset,   \* target -> its place among the Telegram chats (0 for a symbol)
    PlatformOf,     \* target or account -> its platform
    Policy,         \* platform -> rotation policy
    Similar,        \* the pairs of drafts whose similarity reaches the threshold
    Cooldown,       \* PUBLISH_COOLDOWN_MINUTES
    Day,            \* the 24 hours of isWithinQuota
    Stagger,        \* the 2 minutes per position of resolveScheduledTime
    LookBack,       \* the 20 rows hasRecentDuplicateWithinCooldown compares
    RetryDelay,     \* PUBLISH_RETRY_DELAY_SECONDS
    Adaptive,       \* PHASE2_ADAPTIVE_COOLDOWN_MINUTES
    MaxTime, MaxCalls, MaxMoves     \* bounds

Platforms == {PlatformOf[x] : x \in Targets \cup Accounts}

ASSUME SchedulingAssumption ==
    /\ IsFiniteSet(Drafts) /\ IsFiniteSet(Callers)
    /\ TargetsOf \in [Drafts -> SUBSET Targets]
    /\ TargetOffset \in [Targets -> Nat]
    /\ DOMAIN PlatformOf = Targets \cup Accounts
    /\ Policy \in [Platforms -> [minDelay : Nat, maxDelay : Nat,
                                 accountQuota : Nat, globalQuota : Nat]]
    /\ Similar \in SUBSET (Drafts \X Drafts)
    /\ Cooldown \in Nat \ {0}
    /\ Day \in Nat /\ Stagger \in Nat /\ LookBack \in Nat
    /\ RetryDelay \in Nat /\ Adaptive \in Nat
    /\ MaxTime \in Nat /\ MaxCalls \in Nat /\ MaxMoves \in Nat
    /\ None \notin Accounts /\ None \notin Targets

\* The unique column idempotencyKey: a hash of these four.
Keys == [draft : Drafts, target : Targets, account : Accounts, bucket : Nat]

Statuses == {"PENDING", "SUCCESS", "FAILED"}
DraftStatuses == {"NEW", "FLAGGED", "AUTO_APPROVED", "PUBLISHED", "FAILED"}
Steps == {"idle", "load", "select", "exact", "similar", "create", "enqueue"}

\* at is scheduledAt, account the current accountId, posted when it was posted.
Rows == [status : Statuses, at : Nat, account : Accounts, posted : Nat]

VARIABLES
    now,
    draft,      \* ContentDraft.status, NEW before the draft exists
    job,        \* the PublishJob rows by idempotency key
    queued,     \* the queue entries: a row's key and the time its delay ends
    caller,     \* a call of scheduleDraftPublishes: its step and locals
    reroute,    \* a reroute of the worker between its choice and its write
    calls, moves,   \* counters for the bounds
    since,      \* history: rows that moved after this call's reads
    missed,     \* history: the same, of the call that created the row, kept on
    moved       \* history: rows whose time or account changed after creation

vars == <<now, draft, job, queued, caller, reroute, calls, moves, since, missed, moved>>
history == <<since, missed, moved>>

Free == [step |-> "idle", batch |-> << >>, i |-> 1, targets |-> {},
         target |-> None, at |-> 0, account |-> None]

Nothing == [quota |-> {}, copies |-> {}]

Init ==
    /\ now = 0
    /\ draft \in [Drafts -> {"NEW", "FLAGGED"}]
    /\ job = << >>
    /\ queued = {}
    /\ caller = [c \in Callers |-> Free]
    /\ reroute = None
    /\ calls = 0 /\ moves = 0
    /\ since = [c \in Callers |-> Nothing]
    /\ missed = << >>
    /\ moved = {}

-----------------------------------------------------------------------------
(* What the queries answer.                                                *)

Live(k) == job[k].status \in {"PENDING", "SUCCESS"}

\* The rows a query "scheduledAt between at - span and at, PENDING or SUCCESS" finds.
Within(at, span) == {k \in DOMAIN job : Live(k) /\ job[k].at \in (at - span)..at}

OfAccount(a, at) == {k \in Within(at, Day) : job[k].account = a}

\* Mutant: the account's comparison is off by one.
WithinQuotaLoose(a, at) ==
    /\ Cardinality(OfAccount(a, at)) <= Policy[PlatformOf[a]].accountQuota
    /\ Cardinality(Within(at, Day)) < Policy[PlatformOf[a]].globalQuota

WithinQuota(a, at) ==
    /\ Cardinality(OfAccount(a, at)) < Policy[PlatformOf[a]].accountQuota
    /\ Cardinality(Within(at, Day)) < Policy[PlatformOf[a]].globalQuota

Recent(t, at) == {k \in Within(at, Cooldown) : k.target = t}

\* ORDER BY scheduledAt DESC LIMIT LookBack; equal times come in any order.
Latest(W) ==
    {R \in SUBSET W :
        /\ \A k \in R, l \in W \ R : job[l].at <= job[k].at
        /\ Cardinality(R) <= LookBack
        /\ Cardinality(R) < LookBack => R = W}

\* Positions: the draft's in the batch, and the chat's among the targets.
ScheduledTimes(c, t) ==
    LET p == Policy[PlatformOf[t]]
        last == IF p.maxDelay > p.minDelay THEN p.maxDelay ELSE p.minDelay
        place == (caller[c].i - 1) + TargetOffset[t]
    IN {now + jitter + Stagger * place : jitter \in p.minDelay..last}

Current(c) == caller[c].batch[caller[c].i]

KeyOf(c) == [draft |-> Current(c), target |-> caller[c].target,
             account |-> caller[c].account, bucket |-> caller[c].at \div Cooldown]

-----------------------------------------------------------------------------
(* Calls of scheduleDraftPublishes.                                        *)

\* The orders in which the drafts of D can be listed.
Orders(D) == {s \in [1..Cardinality(D) -> D] : \A d \in D : \E n \in DOMAIN s : s[n] = d}

Call(c, batch) ==
    /\ caller[c].step = "idle"
    /\ calls < MaxCalls /\ calls' = calls + 1
    /\ caller' = [caller EXCEPT ![c] = [Free EXCEPT !.step = "load", !.batch = batch]]
    /\ UNCHANGED <<now, job, queued, reroute, moves, history>>

\* A pipeline run has generated drafts; it schedules the auto-approved ones.
RunSchedules(c) ==
    /\ c = Runner
    /\ \E D \in SUBSET {d \in Drafts : draft[d] = "NEW"} : \E batch \in Orders(D) :
        /\ D # {}
        /\ Call(c, batch)
        /\ draft' = [d \in Drafts |-> IF d \in D THEN "AUTO_APPROVED" ELSE draft[d]]

\* An operator approves a draft, whatever its status is.
Approve(c) ==
    /\ c # Runner
    /\ \E d \in Drafts :
        /\ draft[d] # "NEW"
        /\ Call(c, <<d>>)
        /\ draft' = [draft EXCEPT ![d] = "AUTO_APPROVED"]

\* The next draft of the batch.  The symbol is left out when it is not
\* trending, the chats are those joined now.
Load(c) ==
    /\ caller[c].step = "load"
    /\ IF caller[c].i > Len(caller[c].batch)
       THEN caller' = [caller EXCEPT ![c] = Free]
       ELSE IF draft[Current(c)] = "AUTO_APPROVED"
            THEN \E T \in SUBSET TargetsOf[Current(c)] :
                    caller' = [caller EXCEPT ![c].step = "select", ![c].targets = T]
            ELSE caller' = [caller EXCEPT ![c].i = @ + 1]
    /\ UNCHANGED <<now, draft, job, queued, reroute, calls, moves, history>>

\* The draft's targets are exhausted: on to the next draft.
NextDraft(c) ==
    /\ caller[c].step = "select" /\ caller[c].targets = {}
    /\ caller' = [caller EXCEPT ![c].step = "load", ![c].i = @ + 1]
    /\ UNCHANGED <<now, draft, job, queued, reroute, calls, moves, history>>

\* What is left of the call once target t is done.
Passed(c, t) ==
    [caller[c] EXCEPT !.step = "select", !.targets = @ \ {t}, !.target = None,
                      !.at = 0, !.account = None]

Plus(m, k) == [quota |-> m.quota \cup {k}, copies |-> m.copies \cup {k}]

\* The calls that have chosen an account and not yet created the row.
Deciding(c) == caller[c].step \in {"exact", "similar", "create"}

\* Row k is new at its time: the calls that are deciding may have missed it.
Noted(k) == since' = [c \in Callers |-> IF Deciding(c)' THEN Plus(since[c], k) ELSE Nothing]

\* What call c remembers of its reads, forgotten when it stops deciding.
Remember(c, m) == since' = [since EXCEPT ![c] = IF Deciding(c)' THEN m ELSE Nothing]

\* Draw the time and choose an account that is within its quotas then; quiet
\* hours, health and full quotas may leave none.
Select(c) ==
    /\ caller[c].step = "select"
    /\ \E t \in caller[c].targets : \E at \in ScheduledTimes(c, t) :
        \/ \E a \in Accounts :
            /\ PlatformOf[a] = PlatformOf[t]
            /\ WithinQuota(a, at)
            /\ caller' = [caller EXCEPT ![c].step = "exact", ![c].target = t,
                                        ![c].at = at, ![c].account = a]
        \/ caller' = [caller EXCEPT ![c] = Passed(c, t)]
    /\ since' = [since EXCEPT ![c] = Nothing]
    /\ UNCHANGED <<now, draft, job, queued, reroute, calls, moves, missed, moved>>

\* The first query for duplicates: the same content (one draft has it).
CheckExact(c) ==
    /\ caller[c].step = "exact"
    /\ caller' = [caller EXCEPT ![c] =
          IF \E k \in Recent(@.target, @.at) : k.draft = Current(c)
          THEN Passed(c, @.target) ELSE [@ EXCEPT !.step = "similar"]]
    /\ Remember(c, [since[c] EXCEPT !.copies = {}])
    /\ UNCHANGED <<now, draft, job, queued, reroute, calls, moves, missed, moved>>

\* Mutant: the second query for duplicates is left out.
CheckSimilarSkipped(c) ==
    /\ caller[c].step = "similar"
    /\ caller' = [caller EXCEPT ![c].step = "create"]
    /\ Remember(c, since[c])
    /\ UNCHANGED <<now, draft, job, queued, reroute, calls, moves, missed, moved>>

\* Mutant: the queue entry is added before the row.
CheckSimilarQueues(c) ==
    /\ caller[c].step = "similar"
    /\ caller' = [caller EXCEPT ![c].step = "create"]
    /\ queued' = queued \cup {[key |-> KeyOf(c), at |-> caller[c].at]}
    /\ Remember(c, since[c])
    /\ UNCHANGED <<now, draft, job, reroute, calls, moves, missed, moved>>

\* The second: similar bodies among the latest rows.
CheckSimilar(c) ==
    /\ caller[c].step = "similar"
    /\ \E R \in Latest(Recent(caller[c].target, caller[c].at)) :
        caller' = [caller EXCEPT ![c] =
            IF \E k \in R : <<k.draft, Current(c)>> \in Similar
            THEN Passed(c, @.target) ELSE [@ EXCEPT !.step = "create"]]
    /\ Remember(c, since[c])
    /\ UNCHANGED <<now, draft, job, queued, reroute, calls, moves, missed, moved>>

\* The look-up by key, then the insert, which the unique column refuses.
Create(c) ==
    LET k == KeyOf(c) IN
    /\ caller[c].step = "create"
    /\ IF k \in DOMAIN job
       THEN /\ caller' = [caller EXCEPT ![c] = Passed(c, @.target)]
            /\ Remember(c, Nothing)
            /\ UNCHANGED <<job, missed, moved>>
       ELSE /\ caller' = [caller EXCEPT ![c].step = "enqueue"]
            /\ job' = [l \in DOMAIN job \cup {k} |->
                         IF l = k THEN [status |-> "PENDING", at |-> caller[c].at,
                                        account |-> caller[c].account, posted |-> 0]
                         ELSE job[l]]
            /\ Noted(k)
            /\ missed' = [l \in DOMAIN job \cup {k} |->
                            IF l = k THEN since[c] ELSE Plus(missed[l], k)]
            /\ UNCHANGED moved
    /\ UNCHANGED <<now, draft, queued, reroute, calls, moves>>

Enqueue(c) ==
    /\ caller[c].step = "enqueue"
    /\ queued' = queued \cup {[key |-> KeyOf(c), at |-> caller[c].at]}
    /\ caller' = [caller EXCEPT ![c] = Passed(c, @.target)]
    /\ UNCHANGED <<now, draft, job, reroute, calls, moves, history>>

\* An awaited call throws or the process ends: nothing catches or resumes.
Abort(c) ==
    /\ caller[c].step # "idle"
    /\ caller' = [caller EXCEPT ![c] = Free]
    /\ Remember(c, Nothing)
    /\ UNCHANGED <<now, draft, job, queued, reroute, calls, moves, missed, moved>>

-----------------------------------------------------------------------------
(* The worker and the operators, who look for no duplicates.               *)

\* reconcileDraftPublishState with the rows J (PublishJobs has its steps).
Reconciled(J, d) ==
    LET statuses == {J[k].status : k \in {l \in DOMAIN J : l.draft = d}} IN
    [draft EXCEPT ![d] = IF "PENDING" \in statuses THEN "AUTO_APPROVED"
                         ELSE IF "FAILED" \in statuses THEN "FAILED" ELSE "PUBLISHED"]

\* Entry e is delivered.  Its row may have got another time since; only the
\* row's status is looked at.
Due(e) == e.at <= now /\ reroute = None

\* An execution ends: the row becomes SUCCESS or FAILED.
Execute(e) ==
    /\ Due(e) /\ job[e.key].status = "PENDING"
    /\ \E outcome \in {"SUCCESS", "FAILED"} :
        /\ job' = [job EXCEPT ![e.key].status = outcome,
                              ![e.key].posted = IF outcome = "SUCCESS" THEN now ELSE @]
        /\ draft' = Reconciled(job', e.key.draft)
        /\ missed' = IF outcome = "SUCCESS" THEN missed ELSE [missed EXCEPT ![e.key] = Nothing]
    /\ queued' = queued \ {e}
    /\ UNCHANGED <<now, caller, reroute, calls, moves, since, moved>>

\* The row has ended by another entry.
Drop(e) ==
    /\ Due(e) /\ job[e.key].status # "PENDING"
    /\ queued' = queued \ {e}
    /\ UNCHANGED <<now, draft, job, caller, reroute, calls, moves, history>>

\* A failed execution looks for another account, within its quotas at the
\* time the job is to be put off to ...
ChooseReroute(e) ==
    /\ Due(e) /\ job[e.key].status = "PENDING"
    /\ \E a \in Accounts \ {job[e.key].account} :
        /\ PlatformOf[a] = PlatformOf[e.key.target]
        /\ WithinQuota(a, now + Adaptive)
        /\ reroute' = [key |-> e.key, account |-> a]
    /\ queued' = queued \ {e}
    /\ UNCHANGED <<now, draft, job, caller, calls, moves, history>>

\* Row k is given a new time and is PENDING.
Move(k, at, a) ==
    /\ moves < MaxMoves /\ moves' = moves + 1
    /\ UNCHANGED <<now, caller, calls>>
    /\ job' = [job EXCEPT ![k].status = "PENDING", ![k].at = at, ![k].account = a]
    /\ queued' = queued \cup {[key |-> k, at |-> at]}
    /\ Noted(k)
    /\ missed' = [l \in DOMAIN job |-> IF l = k THEN Nothing ELSE Plus(missed[l], k)]
    /\ moved' = moved \cup {k}

\* ... and puts it off to that account.
WriteReroute ==
    /\ reroute # None
    /\ Move(reroute.key, now + Adaptive, reroute.account)
    /\ reroute' = None
    /\ UNCHANGED draft

\* Retry, rerun, dead-letter and window replay of a FAILED job, and dispatch
\* of a PENDING one.
Rearm(k) ==
    /\ \/ /\ job[k].status = "FAILED"
          /\ \E delay \in {0, RetryDelay} : Move(k, now + delay, job[k].account)
       \/ job[k].status = "PENDING" /\ Move(k, now, job[k].account)
    /\ draft' = Reconciled(job', k.draft)
    /\ UNCHANGED reroute

Tick ==
    /\ now < MaxTime /\ now' = now + 1
    /\ UNCHANGED <<draft, job, queued, caller, reroute, calls, moves, history>>

CallerStep(c) ==
    \/ RunSchedules(c) \/ Approve(c)
    \/ Load(c) \/ NextDraft(c) \/ Select(c) \/ CheckExact(c) \/ CheckSimilar(c)
    \/ Create(c) \/ Enqueue(c)
    \/ Abort(c)

Next ==
    \/ \E c \in Callers : CallerStep(c)
    \/ \E e \in queued : Execute(e) \/ Drop(e) \/ ChooseReroute(e)
    \/ \E k \in DOMAIN job : Rearm(k)
    \/ WriteReroute
    \/ Tick

Spec == Init /\ [][Next]_vars

-----------------------------------------------------------------------------
(* Properties.                                                             *)

Window(k, span) == {l \in Within(job[k].at, span) : l # k}

Alike(k, l) ==
    /\ k.target = l.target
    /\ k.draft = l.draft \/ <<l.draft, k.draft>> \in Similar

\* The other rows that may have stood in the window of row k when it was checked.
Crowd(k) ==
    missed[k].copies \cup
    {l \in DOMAIN job \ {k} : /\ l.target = k.target
                              /\ job[l].at \in (job[k].at - Cooldown)..job[k].at}

\* The rows row k was compared with, and that have not moved since, are not
\* duplicates of it, as far as the look-back reached.
WasUnique(k) ==
    \A l \in Window(k, Cooldown) \ missed[k].copies :
        Alike(k, l) => k.draft # l.draft /\ Cardinality(Crowd(k)) > LookBack

\* The rows counted for row k, and that have not moved since, leave room for it.
HadRoom(k) ==
    LET seen == Window(k, Day) \ missed[k].quota
        p == Policy[PlatformOf[job[k].account]]
    IN /\ Cardinality({l \in seen : job[l].account = job[k].account}) < p.accountQuota
       /\ Cardinality(seen) < p.globalQuota

\* Two live rows for one target with like content within the cooldown have
\* one explanation: the earlier one moved there (was created, rescheduled or
\* made PENDING again) after the later one was checked, or the later one
\* itself moved since; like but different drafts also escape when the target
\* had more rows than the look-back compares.  A second call that overlaps,
\* a time drawn before one already there, a retry and a reroute are the ways.
DuplicatesExplained == \A k \in DOMAIN job \ moved : Live(k) => WasUnique(k)

\* No row stands over a full quota by what its selection could see: its
\* account's and all rows of the day before it, without those that moved
\* after the count, leave room for it.
QuotaExplained == \A k \in DOMAIN job \ moved : Live(k) => HadRoom(k)

\* Near or exact duplicates are not published on a target within the cooldown
\* (phase-1-core-pipeline.md, acceptance criteria).
NoDuplicatePublished ==
    \A k, l \in DOMAIN job :
        /\ k # l /\ Alike(k, l)
        /\ job[k].status = "SUCCESS" /\ job[l].status = "SUCCESS"
        => job[k].posted \notin (job[l].posted - Cooldown)..(job[l].posted + Cooldown)

CallerStates == [step : Steps, batch : Seq(Drafts), i : Nat \ {0},
                 targets : SUBSET Targets, target : Targets \cup {None},
                 at : Nat, account : Accounts \cup {None}]

Marks == [quota : SUBSET DOMAIN job, copies : SUBSET DOMAIN job]

TypeOK ==
    /\ now \in 0..MaxTime
    /\ draft \in [Drafts -> DraftStatuses]
    /\ DOMAIN job \in SUBSET Keys
    /\ job \in [DOMAIN job -> Rows]
    /\ queued \in SUBSET [key : DOMAIN job, at : Nat]
    /\ caller \in [Callers -> CallerStates]
    /\ reroute \in {None} \cup [key : DOMAIN job, account : Accounts]
    /\ calls \in 0..MaxCalls /\ moves \in 0..MaxMoves
    /\ since \in [Callers -> Marks]
    /\ missed \in [DOMAIN job -> Marks]
    /\ moved \in SUBSET DOMAIN job

-----------------------------------------------------------------------------
(* The inductive invariant: what holds of a call that is still deciding.   *)

CallersOK ==
    \A c \in Callers :
        /\ caller[c].step \notin {"idle", "load"} => caller[c].i \in 1..Len(caller[c].batch)
        /\ caller[c].step \notin {"idle", "load", "select"} =>
              caller[c].target \in Targets /\ caller[c].account \in Accounts
        /\ caller[c].step = "enqueue" => KeyOf(c) \in DOMAIN job

\* The quota a call read still holds of the rows that have not moved since.
RoomLeft(c) ==
    LET seen == Within(caller[c].at, Day) \ since[c].quota
        p == Policy[PlatformOf[caller[c].account]]
    IN /\ Cardinality({l \in seen : job[l].account = caller[c].account}) < p.accountQuota
       /\ Cardinality(seen) < p.globalQuota

CallCrowd(c) ==
    since[c].copies \cup
    {l \in DOMAIN job : /\ l.target = caller[c].target
                        /\ job[l].at \in (caller[c].at - Cooldown)..caller[c].at}

\* The rows a call compared with are not duplicates, if they have not moved since.
NoneFound(c) ==
    \A l \in Recent(caller[c].target, caller[c].at) \ since[c].copies :
        /\ l.draft # Current(c)
        /\ caller[c].step = "create" /\ <<l.draft, Current(c)>> \in Similar
             => Cardinality(CallCrowd(c)) > LookBack

Invariant ==
    /\ TypeOK /\ IsFiniteSet(DOMAIN job)
    /\ CallersOK
    /\ \A c \in Callers : Deciding(c) => RoomLeft(c)
    /\ \A c \in Callers : caller[c].step \in {"similar", "create"} => NoneFound(c)
    /\ DuplicatesExplained
    /\ QuotaExplained

=============================================================================
