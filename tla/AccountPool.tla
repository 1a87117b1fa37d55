---------------------------- MODULE AccountPool ----------------------------
(***************************************************************************)
(* The posting accounts of one platform (accounts.service.ts) under the    *)
(* flows that use them: a publish job that is scheduled, executed and      *)
(* rerouted, a post typed by an operator, and the operators' changes to    *)
(* the rows.  Every flow first brings the rows in line with the            *)
(* configuration, then reads them, posts, and charges or rewards an        *)
(* account: each of these is a query of its own.                           *)
(***************************************************************************)
EXTENDS Integers

CONSTANTS Accounts,     \* account handles of the platform
          Configured,   \* those the environment lists
          Nobody,       \* no account
          Gone,         \* the id of a row that has been deleted
          Jobs,         \* publish jobs, each with its execution
          Posters,      \* requests to publishManualPost
          StartHealth,  \* health that earlier posts may have left configured accounts
          MaxRuns,      \* bound: executions and manual posts
          MaxEdits      \* bound: changes by operators

ASSUME PoolAssumption ==
    /\ Configured \subseteq Accounts
    /\ Nobody \notin Accounts /\ Gone \notin Accounts /\ Nobody # Gone
    /\ Jobs \cap Posters = {}
    /\ StartHealth \subseteq 0..100
    /\ MaxRuns \in Nat /\ MaxEdits \in Nat

Flows == Jobs \cup Posters
Statuses == {"ACTIVE", "QUARANTINED", "DISABLED", "MISSING"}

\* Health in hundredths, and what an outcome adds to it.
Full == 100
QuarantineAt == 35
Delta(success, restricted) == IF success THEN 8 ELSE IF restricted THEN -35 ELSE -15
\* Fault: no lower limit.
ClampedAbove(h) == IF h > Full THEN Full ELSE h
Clamped(h) == IF h < 0 THEN 0 ELSE IF h > Full THEN Full ELSE h

\* Error messages by what isRestrictionError, isReroutableFailure and
\* isAccountRestrictionError make of them.
Errors == {"plain", "transient",
           "challenge",     \* captcha, blocked, rate_limited: restricted, and rerouted
           "restriction"}   \* muted, restricted: never rerouted
Restricting == {"challenge", "restriction"}
Reroutable == {"transient", "challenge"}

VARIABLES status,       \* AccountProfile.status; MISSING: there is no row
          health,       \* AccountProfile.healthScore
          review,       \* AccountProfile.replacementRequestedAt is set
          assigned,     \* PublishJob.accountId
          flow,         \* what each flow is doing and holds in its locals
          barred,       \* history: quarantined and not reinstated by an operator
          runs, edits   \* counters for the bounds

accountRows == <<status, health, review>>
vars == <<status, health, review, assigned, flow, barred, runs, edits>>

Steps == {"new", "queued", "sync", "current", "resync", "read", "pick", "assign",
          "refresh", "post", "charge", "write", "event", "recover", "failed", "ended"}
Purposes == {"schedule", "execute", "reroute", "manual"}
Rows == [status : Statuses, health : 0..Full]
Locals == [pc : Steps,
           purpose : Purposes,
           snap : Accounts \cup {Nobody, Gone},    \* job.accountId as the flow read it
           active : Accounts \cup {Nobody, Gone},  \* the account it uses
           cand : SUBSET (Accounts \cup {Gone}),    \* the candidates it read
           result : Errors \cup {"none", "success"},
           seen : Rows,                            \* the row recordPublishOutcome read
           touched : SUBSET Accounts]  \* history: changed since its last sync

NoRow == [status |-> "MISSING", health |-> 0]
Idle(pc) == [pc |-> pc, purpose |-> "manual", snap |-> Nobody, active |-> Nobody,
             cand |-> {}, result |-> "none", seen |-> NoRow, touched |-> {}]

Init ==
    /\ status = [a \in Accounts |-> IF a \in Configured THEN "ACTIVE" ELSE "MISSING"]
    /\ \E h \in StartHealth :
         health = [a \in Accounts |-> IF a \in Configured THEN h ELSE Full]
    /\ review = [a \in Accounts |-> FALSE]
    /\ assigned = [j \in Jobs |-> Nobody]
    /\ flow = [f \in Flows |-> Idle("new")]
    /\ barred = {} /\ runs = 0 /\ edits = 0

At(f, step) == flow[f].pc = step
Exists(a) == a \in Accounts /\ status[a] # "MISSING"
IsActive(a) == a \in Accounts /\ status[a] = "ACTIVE"

\* From a sync to its last use of the rows a flow relies on what the sync left.
Relying == {"current", "read", "pick", "assign", "refresh", "post", "charge", "write",
            "event"}
Synced(f) == flow[f].pc \in Relying

\* flow with the accounts in S changed under every flow.
Touch(S) ==
    [g \in Flows |-> IF Synced(g) THEN [flow[g] EXCEPT !.touched = @ \cup S] ELSE flow[g]]

\* Only the locals of f change.
Set(f, locals) ==
    /\ flow' = [flow EXCEPT ![f] = locals]
    /\ UNCHANGED <<status, health, review, barred, edits>>

-----------------------------------------------------------------------------
\* scheduleDraftPublishes and createAndQueuePublishJob choose the account of a
\* new job.
Schedule(f) ==
    /\ f \in Jobs /\ At(f, "new")
    /\ Set(f, [flow[f] EXCEPT !.pc = "resync", !.purpose = "schedule"])
    /\ UNCHANGED <<assigned, runs>>

\* executePublishJob reads the job.
Execute(f) ==
    /\ f \in Jobs /\ At(f, "queued")
    /\ runs < MaxRuns /\ runs' = runs + 1
    /\ Set(f, [flow[f] EXCEPT !.pc = "sync", !.purpose = "execute", !.snap = assigned[f]])
    /\ UNCHANGED assigned

\* publishManualPost begins.
Compose(f) ==
    /\ f \in Posters /\ At(f, "new")
    /\ runs < MaxRuns /\ runs' = runs + 1
    /\ Set(f, [flow[f] EXCEPT !.pc = "sync"])
    /\ UNCHANGED assigned

\* Fault: accounts that left the configuration stay as they are.
InLineKeepingOthers ==
    [a \in Accounts |-> IF a \in Configured THEN "ACTIVE" ELSE status[a]]

\* What syncPlatformAccounts makes of the statuses, in one transaction.
InLine ==
    [a \in Accounts |-> IF a \in Configured THEN "ACTIVE"
                        ELSE IF status[a] = "MISSING" THEN "MISSING" ELSE "DISABLED"]

\* Fault: an execution or a manual post trusts the rows as they are.
SyncOnlyOnSelection(f) ==
    /\ flow[f].pc \in {"sync", "resync"}
    /\ status' = IF At(f, "sync") THEN status ELSE InLine
    /\ flow' = [Touch({a \in Accounts : status'[a] # status[a]}) EXCEPT ![f] =
                   [flow[f] EXCEPT !.pc = IF @ = "sync" THEN "current" ELSE "read",
                                   !.touched = {}]]
    /\ UNCHANGED <<health, review, assigned, barred, runs, edits>>

\* syncAccountsFromConfig, first in ensureEligibleAccountForExecution and in
\* publishManualPost, and again in getEligibleAccount.
Sync(f) ==
    /\ flow[f].pc \in {"sync", "resync"}
    /\ status' = InLine
    /\ flow' = [Touch({a \in Accounts : InLine[a] # status[a]}) EXCEPT ![f] =
                   [flow[f] EXCEPT !.pc = IF @ = "sync" THEN "current" ELSE "read",
                                   !.touched = {}]]
    /\ UNCHANGED <<health, review, assigned, barred, runs, edits>>

\* The account at hand: an execution keeps the job's account while it is
\* ACTIVE, a manual post takes the account the operator named, whatever its
\* status; otherwise getEligibleAccount.
Current(f) ==
    /\ At(f, "current")
    /\ \/ /\ f \in Jobs /\ IsActive(flow[f].snap)
          /\ Set(f, [flow[f] EXCEPT !.pc = "post", !.active = flow[f].snap])
       \/ /\ f \in Jobs /\ ~ IsActive(flow[f].snap)
          /\ Set(f, [flow[f] EXCEPT !.pc = "resync"])
       \/ f \in Posters /\ \E a \in Accounts :
            IF Exists(a) THEN Set(f, [flow[f] EXCEPT !.pc = "post", !.active = a])
            ELSE Set(f, Idle("ended"))
       \/ f \in Posters /\ Set(f, [flow[f] EXCEPT !.pc = "resync"])
    /\ UNCHANGED <<assigned, runs>>

\* getEligibleAccount reads the ACTIVE accounts but the excluded one; in quiet
\* hours there are none.
ReadCandidates(f) ==
    LET excluded == IF flow[f].purpose \in {"execute", "reroute"} THEN {flow[f].snap} ELSE {} IN
    /\ At(f, "read")
    /\ \E c \in {{}, {a \in Accounts : IsActive(a)} \ excluded} :
         Set(f, [flow[f] EXCEPT !.pc = "pick", !.cand = c])
    /\ UNCHANGED <<assigned, runs>>

\* A failed await, or a failed post, of an execution: the job's account as it
\* was read is charged, then the job is rerouted or fails.
Failing(f, e) ==
    [flow[f] EXCEPT !.pc = IF flow[f].snap = Nobody THEN "recover" ELSE "charge",
                    !.result = e]

\* What follows when a selection or an update of the job throws.
Thrown(f) ==
    CASE flow[f].purpose = "execute" -> Failing(f, "plain")
      [] flow[f].purpose = "reroute" -> Idle("queued")
      [] OTHER -> Idle("ended")

\* The first candidate within its quota, any or none of them here, has its
\* lastSelectedAt written, which fails when the row is gone.
Pick(f) ==
    /\ At(f, "pick")
    /\ \/ \E a \in flow[f].cand :
            IF ~ Exists(a) THEN Set(f, Thrown(f))
            ELSE Set(f, [flow[f] EXCEPT !.active = a, !.cand = {},
                            !.pc = IF flow[f].purpose = "manual" THEN "post" ELSE "assign"])
       \/ Set(f, IF flow[f].purpose = "execute"
                 THEN [flow[f] EXCEPT !.pc = "refresh", !.cand = {}]
                 ELSE Idle(IF flow[f].purpose = "reroute" THEN "failed" ELSE "ended"))
    /\ UNCHANGED <<assigned, runs>>

\* PublishJob.accountId is written; the foreign key refuses a deleted account.
Assign(f) ==
    /\ At(f, "assign")
    /\ IF Exists(flow[f].active)
       THEN /\ assigned' = [assigned EXCEPT ![f] = flow[f].active]
            /\ Set(f, IF flow[f].purpose = "execute"
                      THEN [flow[f] EXCEPT !.pc = "post"] ELSE Idle("queued"))
       ELSE Set(f, Thrown(f)) /\ UNCHANGED assigned
    /\ UNCHANGED runs

\* ensureEligibleAccountForExecution looks at the job's account once more.
Refresh(f) ==
    /\ At(f, "refresh")
    /\ Set(f, IF IsActive(flow[f].snap)
              THEN [flow[f] EXCEPT !.pc = "post", !.active = flow[f].snap]
              ELSE Failing(f, "plain"))
    /\ UNCHANGED <<assigned, runs>>

\* The gates and the provider answer; the warm-up gate skips the job.  A manual
\* post counts a refusal as a restriction only when it ends the whole request.
Post(f) ==
    /\ At(f, "post")
    /\ \/ Set(f, [flow[f] EXCEPT !.pc = "charge", !.result = "success"])
       \/ \E e \in Errors :
            Set(f, IF f \in Jobs THEN Failing(f, e)
                   ELSE [flow[f] EXCEPT !.pc = "charge", !.result = e])
       \/ f \in Jobs /\ Set(f, Idle("ended"))
    /\ UNCHANGED <<assigned, runs>>

\* recordPublishOutcome is called for the account that posted after a success
\* and in a manual post, else for the job's account.
Target(f) ==
    IF flow[f].result = "success" \/ f \in Posters THEN flow[f].active ELSE flow[f].snap

\* recordPublishOutcome throws: the account is gone.
Unrecorded(f) ==
    Set(f, CASE f \in Posters -> Idle("ended")
             [] f \in Jobs /\ flow[f].result = "success" -> Failing(f, "plain")
             [] OTHER -> Idle("queued"))

\* recordPublishOutcome reads the row ...
ReadRow(f) ==
    LET a == Target(f) IN
    /\ At(f, "charge")
    /\ IF Exists(a)
       THEN Set(f, [flow[f] EXCEPT !.pc = "write",
                                   !.seen = [status |-> status[a], health |-> health[a]]])
       ELSE Unrecorded(f)
    /\ UNCHANGED <<assigned, runs>>

\* Fault: the third copy of the condition forgets the restriction.
OutcomeReviewsOnlyLowHealth(f) ==
    LET restricted == flow[f].result \in Restricting
        next == Clamped(flow[f].seen.health + Delta(flow[f].result = "success", restricted))
        bad == restricted \/ next <= QuarantineAt
    IN  [health |-> next, review |-> next <= QuarantineAt,
         status |-> IF bad THEN "QUARANTINED"
                    ELSE IF flow[f].seen.status = "DISABLED" THEN "DISABLED" ELSE "ACTIVE"]

\* ... and writes what it computes from it.
Outcome(f) ==
    LET restricted == flow[f].result \in Restricting
        next == Clamped(flow[f].seen.health + Delta(flow[f].result = "success", restricted))
        bad == restricted \/ next <= QuarantineAt
    IN  [health |-> next, review |-> bad,
         status |-> IF bad THEN "QUARANTINED"
                    ELSE IF flow[f].seen.status = "DISABLED" THEN "DISABLED" ELSE "ACTIVE"]

WriteOutcome(f) ==
    LET a == Target(f)
        o == Outcome(f)
    IN  /\ At(f, "write")
        /\ IF Exists(a)
           THEN /\ status' = [status EXCEPT ![a] = o.status]
                /\ health' = [health EXCEPT ![a] = o.health]
                /\ review' = [review EXCEPT ![a] = o.review]
                /\ barred' = IF o.status = "QUARANTINED" THEN barred \cup {a} ELSE barred
                /\ flow' = [Touch(IF o.status # status[a] THEN {a} ELSE {})
                              EXCEPT ![f] = [@ EXCEPT !.pc = "event", !.seen = NoRow]]
                /\ UNCHANGED edits
           ELSE Unrecorded(f)
        /\ UNCHANGED <<assigned, runs>>

\* Its last rows, the health event and the audit, refer to the account too.
Settle(f) ==
    /\ At(f, "event")
    /\ IF ~ Exists(Target(f)) THEN Unrecorded(f)
       ELSE Set(f, IF f \in Jobs /\ flow[f].result # "success"
                   THEN [flow[f] EXCEPT !.pc = "recover", !.touched = {}] ELSE Idle("ended"))
    /\ UNCHANGED <<assigned, runs>>

\* Fault: the account to avoid is the one read before the execution chose.
RecoverAvoidingStale(f) ==
    /\ f \in Jobs /\ At(f, "recover")
    /\ Set(f, IF flow[f].result \in Reroutable /\ assigned[f] # Nobody
              THEN [flow[f] EXCEPT !.pc = "resync", !.purpose = "reroute"]
              ELSE Idle("failed"))
    /\ UNCHANGED <<assigned, runs>>

\* tryRerouteFailedJob reads the job again and asks for another account; a job
\* that is not rerouted has failed.
Recover(f) ==
    /\ f \in Jobs /\ At(f, "recover")
    /\ Set(f, IF flow[f].result \in Reroutable /\ assigned[f] # Nobody
              THEN [flow[f] EXCEPT !.pc = "resync", !.purpose = "reroute",
                                   !.snap = assigned[f]]
              ELSE Idle("failed"))
    /\ UNCHANGED <<assigned, runs>>

\* The process dies in the middle of a flow: BullMQ delivers a publish job again.
Crash(f) ==
    /\ flow[f].pc \notin {"new", "queued", "failed", "ended"}
    /\ Set(f, Idle(IF flow[f].purpose \in {"execute", "reroute"} THEN "queued" ELSE "ended"))
    /\ UNCHANGED <<assigned, runs>>

FlowStep(f) ==
    \/ Schedule(f) \/ Execute(f) \/ Compose(f) \/ Sync(f) \/ Current(f)
    \/ ReadCandidates(f) \/ Pick(f) \/ Assign(f) \/ Refresh(f) \/ Post(f)
    \/ ReadRow(f) \/ WriteOutcome(f) \/ Settle(f) \/ Recover(f) \/ Crash(f)

-----------------------------------------------------------------------------
Edit == edits < MaxEdits /\ edits' = edits + 1

\* An operator's change of one row.
Write(a, s, h, r) ==
    /\ Edit
    /\ status' = [status EXCEPT ![a] = s]
    /\ health' = [health EXCEPT ![a] = h]
    /\ review' = [review EXCEPT ![a] = r]
    /\ flow' = Touch(IF s # status[a] THEN {a} ELSE {})
    /\ UNCHANGED <<assigned, runs>>

\* quarantineAccount
Quarantine(a) ==
    /\ Exists(a)
    /\ Write(a, "QUARANTINED", health[a], TRUE)
    /\ barred' = barred \cup {a}

\* requestReplacement
RequestReplacement(a) ==
    /\ Exists(a)
    /\ Write(a, status[a], health[a], TRUE)
    /\ UNCHANGED barred

\* activateReplacement
ActivateReplacement(a) ==
    /\ Write(a, "ACTIVE", Full, FALSE)
    /\ barred' = barred \ {a}

\* upsertDlvritAccount creates a linked account or makes it ACTIVE, as
\* setDlvritAccountStatus does for an existing one ("enable").
Link(a) ==
    /\ Write(a, "ACTIVE", health[a], review[a])
    /\ barred' = barred \ {a}

\* setDlvritAccountStatus ("disable")
Disable(a) ==
    /\ Exists(a)
    /\ Write(a, "DISABLED", health[a], review[a])
    /\ UNCHANGED barred

\* deleteStocktwitsAccounts: the jobs lose their account, an id held in a local
\* variable refers to nothing.  A row created later has another id.
Delete(a) ==
    LET Cleared(x) == IF x = a THEN Gone ELSE x IN
    /\ Exists(a)
    /\ Edit
    /\ status' = [status EXCEPT ![a] = "MISSING"]
    /\ health' = [health EXCEPT ![a] = Full]
    /\ review' = [review EXCEPT ![a] = FALSE]
    /\ assigned' = [j \in Jobs |-> IF assigned[j] = a THEN Nobody ELSE assigned[j]]
    /\ flow' = [g \in Flows |->
                  [Touch({a})[g] EXCEPT !.snap = Cleared(@), !.active = Cleared(@),
                                        !.cand = {Cleared(x) : x \in @}]]
    /\ barred' = barred \ {a}
    /\ UNCHANGED runs

\* retryPublishJob, or a replay, puts a failed job back.
Retry(f) ==
    /\ f \in Jobs /\ At(f, "failed")
    /\ Edit
    /\ flow' = [flow EXCEPT ![f] = Idle("queued")]
    /\ UNCHANGED <<status, health, review, assigned, barred, runs>>

Operator ==
    \/ \E a \in Accounts : \/ Quarantine(a) \/ RequestReplacement(a) \/ ActivateReplacement(a)
                           \/ Link(a) \/ Disable(a) \/ Delete(a)
    \/ \E f \in Jobs : Retry(f)

Next == (\E f \in Flows : FlowStep(f)) \/ Operator
Spec == Init /\ [][Next]_vars

-----------------------------------------------------------------------------
TypeOK ==
    /\ status \in [Accounts -> Statuses]
    /\ health \in [Accounts -> 0..Full]
    /\ review \in [Accounts -> BOOLEAN]
    /\ assigned \in [Jobs -> Accounts \cup {Nobody}]
    /\ flow \in [Flows -> Locals]
    /\ barred \subseteq Accounts
    /\ runs \in Nat /\ edits \in Nat

\* An account in quarantine always waits for review, however outcomes,
\* operators and syncs interleave: recordPublishOutcome writes both or neither.
QuarantinedAwaitReview ==
    \A a \in Accounts : status[a] = "QUARANTINED" => review[a]

\* An account chosen for posting is configured, unless its row was changed
\* after the choosing flow's own sync: selection never trusts an old row
\* (getEligibleAccount, ensureEligibleAccountForExecution).
SelectionFollowsConfiguration ==
    \A f \in Jobs :
        /\ At(f, "pick") => flow[f].cand \subseteq Configured \cup flow[f].touched \cup {Gone}
        /\ flow[f].pc \in {"assign", "post"} =>
              flow[f].active \in Configured \cup flow[f].touched \cup {Gone}

\* A failed job is rerouted away from the account that failed, also when that
\* was a fallback: from the choice on the job carries the account that posts.
RerouteLeavesAccount ==
    \A j \in Jobs :
        /\ At(j, "assign") /\ flow[j].purpose = "reroute" => flow[j].active # assigned[j]
        /\ flow[j].pc \in {"post", "charge", "write", "event", "recover"}
              /\ flow[j].active \in Accounts => assigned[j] = flow[j].active

\* A withdrawn account (quarantined or disabled) becomes ACTIVE again only by a
\* sync, when it is configured, by an operator, or by the outcome of a flow
\* under way when it was withdrawn (recordPublishOutcome writes the status it
\* computed from an earlier read): never by a flow that began afterwards.
WithdrawalEndsKnowingly ==
    [][\A a \in Accounts :
         status[a] \in {"QUARANTINED", "DISABLED"} /\ status'[a] = "ACTIVE" =>
           \/ a \in Configured /\ \E f \in Flows :
                                     flow[f].pc \in {"sync", "resync"} /\ flow'[f].pc # flow[f].pc
           \/ edits' # edits
           \/ \E f \in Flows : At(f, "write") /\ Target(f) = a /\ a \in flow[f].touched]_vars

-----------------------------------------------------------------------------
\* The inductive invariant behind these.

\* What a sync leaves, for the accounts nobody has changed since.
Aligned ==
    \A f \in Flows : Synced(f) => \A a \in Accounts \ flow[f].touched :
        IF a \in Configured THEN status[a] = "ACTIVE" ELSE status[a] \in {"DISABLED", "MISSING"}

\* The status an outcome is computed from is the row's, unless others changed it.
SeenIsCurrent ==
    \A f \in Flows :
        At(f, "write") /\ Target(f) \in Accounts \ flow[f].touched
            => flow[f].seen.status = status[Target(f)]

\* An id held as the account to use refers to a row, or is known to be gone.
ActiveExists == \A f \in Flows : flow[f].active \in Accounts => Exists(flow[f].active)

\* While an execution or a reroute looks for an account, it holds the job's.
SnapIsAssigned ==
    \A j \in Jobs :
        \/ flow[j].purpose = "execute"
              /\ flow[j].pc \in {"sync", "current", "resync", "read", "pick", "refresh"}
        \/ flow[j].purpose = "reroute" /\ flow[j].pc \in {"resync", "read", "pick", "assign"}
        => \/ flow[j].snap = assigned[j]
           \/ flow[j].snap = Gone /\ assigned[j] = Nobody

\* An execution uses no account before it has found one; a selection leaves out
\* the account it was told to, and ends with one.
SelectionState ==
    \A j \in Jobs :
        /\ flow[j].purpose = "execute"
              /\ flow[j].pc \in {"sync", "current", "resync", "read", "pick", "refresh"}
              => flow[j].active = Nobody
        /\ flow[j].purpose = "reroute" /\ At(j, "pick") /\ flow[j].snap \in Accounts
              => flow[j].snap \notin flow[j].cand
        /\ flow[j].purpose = "reroute" /\ At(j, "assign")
              => /\ flow[j].active # Nobody
                 /\ flow[j].snap \in Accounts => flow[j].active # flow[j].snap
        /\ flow[j].pc \in {"new", "queued"} => flow[j].active = Nobody
        /\ flow[j].pc \in {"resync", "read", "pick", "assign"} => flow[j].purpose # "manual"
        /\ flow[j].pc \in {"sync", "current", "refresh", "post", "charge", "write", "event",
                           "recover"} => flow[j].purpose = "execute"

IInv ==
    /\ TypeOK /\ QuarantinedAwaitReview /\ Aligned /\ SeenIsCurrent /\ ActiveExists
    /\ SelectionFollowsConfiguration /\ SnapIsAssigned /\ SelectionState /\ RerouteLeavesAccount

-----------------------------------------------------------------------------
\* phase-2-scale-automation.md: "Quarantined accounts are never selected for
\* posting."  An execution does not take an account that was quarantined and
\* that no operator has reinstated.
QuarantinedNeverSelected ==
    [][\A j \in Jobs :
         At(j, "current") /\ flow'[j].pc = "post" => flow'[j].active \notin barred]_vars

\* publishing.service.ts, comment in executePublishJob: when a restriction is
\* detected, "recordPublishOutcome(restricted:true) was already called ... the
\* account is already being QUARANTINED".  The account charged for a
\* restriction is the one that posted.
RestrictionChargedToPoster ==
    \A j \in Jobs :
        flow[j].pc \in {"charge", "write", "event", "recover"} /\ flow[j].result = "restriction"
            /\ flow[j].active \in Accounts => Target(j) = flow[j].active

=============================================================================
