--------------------------- MODULE PublishWorker ---------------------------
(***************************************************************************)
(* PublishingService.executePublishJob, run by the BullMQ worker of each   *)
(* process, one step per awaited call: take an entry, try the advisory     *)
(* lock, read the row, choose the account, pass the gates, post, record    *)
(* the outcome, reconcile the draft, charge or reward the account, reroute *)
(* or fail, dead-letter, release the lock, acknowledge the entry.          *)
(***************************************************************************)
EXTENDS PublishRows

\* Error messages by what isRestrictionError, isReroutableFailure and
\* PostingPolicyService.isAccountRestrictionError make of them.
Errors == {"plain",         \* nothing matches, or only isRestrictionError
           "transient",     \* reroutable: timeout, 429, 5xx, network, captcha, blocked
           "restriction"}   \* an account restriction: muted, restricted
Outcomes == Errors \cup {"none", "posted", "skipped"}

\* A failed await throws a database or Redis message.
InfraErrors == {"plain", "transient"}

Reroutable(e) == e = "transient"

Busy(w) == pc[w] # "idle"

\* Between a granted pg_try_advisory_lock and the matching unlock.
Executing(w) == pc[w] \notin {"idle", "lock"}

\* The awaits inside the inner try, whose errors the catch block handles.
InInnerTry(w) ==
    \/ pc[w] \in {"route", "gate", "record", "reward"}
    \/ /\ pc[w] \in {"skip", "reconcile", "settle"}
       /\ outcome[w] \notin Errors
       /\ PlatformOf[cur[w]] # "DISCORD"

Goto(w, step) == pc' = [pc EXCEPT ![w] = step]

Local == <<tries, lockConn, snapAttempts, snapAccount>>

\* The execution leaves for its finally block: what it read goes out of scope.
Leave(w, step) ==
    /\ Goto(w, step)
    /\ snapAttempts' = [snapAttempts EXCEPT ![w] = 0]
    /\ snapAccount' = [snapAccount EXCEPT ![w] = NoAccount]
    /\ outcome' = [outcome EXCEPT ![w] = "none"]
    /\ view' = [view EXCEPT ![w] = None]
    /\ UNCHANGED <<tries, lockConn>>

\* The worker forgets the execution.
Reset(w) ==
    /\ pc' = [pc EXCEPT ![w] = "idle"]
    /\ cur' = [cur EXCEPT ![w] = None]
    /\ tries' = [tries EXCEPT ![w] = 0]
    /\ lockConn' = [lockConn EXCEPT ![w] = NoConn]
    /\ snapAttempts' = [snapAttempts EXCEPT ![w] = 0]
    /\ snapAccount' = [snapAccount EXCEPT ![w] = NoAccount]
    /\ outcome' = [outcome EXCEPT ![w] = "none"]
    /\ view' = [view EXCEPT ![w] = None]
    /\ phase' = [phase EXCEPT ![w] = "fresh"]

\* BullMQ's answer to a processor that throws: another attempt while some
\* are left, otherwise the entry fails for good.
Requeued(j, k) ==
    IF k + 1 < BullAttempts THEN [queue EXCEPT ![j][k + 1] = @ + 1] ELSE queue

\* An execution that ends after a post it has not written to the row.
CutOff(w) ==
    cut' = IF phase[w] = "posted" THEN [cut EXCEPT ![cur[w]] = @ + 1] ELSE cut

-----------------------------------------------------------------------------
\* BullMQ hands an entry to the idle worker; PublishProcessor.process calls
\* executePublishJob.
Deliver(w) ==
    /\ pc[w] = "idle"
    /\ \E j \in Jobs : \E k \in Entries(j) :
        /\ queue' = [queue EXCEPT ![j][k] = @ - 1]
        /\ cur' = [cur EXCEPT ![w] = j]
        /\ tries' = [tries EXCEPT ![w] = k]
    /\ Goto(w, "lock")
    /\ UNCHANGED <<rows, locks, posts, live, budget, history, request,
                   lockConn, snapAttempts, snapAccount, outcome, view, phase>>

\* Fault: the answer of pg_try_advisory_lock is ignored.
AcquireLockAnswerIgnored(w) ==
    /\ pc[w] = "lock"
    /\ \E c \in Pool[w] :
        /\ locks' = IF L!Granted(locks, cur[w], c) THEN L!Locked(locks, cur[w], c) ELSE locks
        /\ Goto(w, "load")
        /\ lockConn' = [lockConn EXCEPT ![w] = c]
    /\ UNCHANGED <<rows, queue, posts, live, budget, history, request,
                   cur, tries, snapAttempts, snapAccount, outcome, view, phase>>

\* acquirePublishJobLock on some pooled connection; without the lock the
\* execution returns and BullMQ counts the entry as completed.
AcquireLock(w) ==
    /\ pc[w] = "lock"
    /\ UNCHANGED <<rows, queue, posts, live, budget, history, request>>
    /\ \E c \in Pool[w] :
        \/ /\ L!Granted(locks, cur[w], c)
           /\ locks' = L!Locked(locks, cur[w], c)
           /\ lockConn' = [lockConn EXCEPT ![w] = c]
           /\ Goto(w, "load")
           /\ UNCHANGED <<cur, tries, snapAttempts, snapAccount, outcome, view, phase>>
        \/ /\ ~ L!Granted(locks, cur[w], c)
           /\ Reset(w)
           /\ UNCHANGED locks

\* Fault: a row that is not PENDING is executed all the same.
LoadAnyStatus(w) ==
    /\ pc[w] = "load"
    /\ snapAttempts' = [snapAttempts EXCEPT ![w] = attempts[cur[w]]]
    /\ snapAccount' = [snapAccount EXCEPT ![w] = account[cur[w]]]
    /\ Goto(w, IF PlatformOf[cur[w]] = "DISCORD" THEN "skip" ELSE "route")
    /\ UNCHANGED <<rows, world, budget, history, request,
                   cur, tries, lockConn, outcome, view, phase>>

\* publishJob.findUnique and the PENDING check.
Load(w) ==
    /\ pc[w] = "load"
    /\ IF status[cur[w]] = "PENDING"
       THEN /\ snapAttempts' = [snapAttempts EXCEPT ![w] = attempts[cur[w]]]
            /\ snapAccount' = [snapAccount EXCEPT ![w] = account[cur[w]]]
            /\ Goto(w, IF PlatformOf[cur[w]] = "DISCORD" THEN "skip" ELSE "route")
            /\ UNCHANGED <<tries, lockConn, outcome, view, phase>>
       ELSE /\ phase' = [phase EXCEPT ![w] = "closed"]
            /\ Leave(w, "unlock")
    /\ UNCHANGED <<rows, world, budget, history, request, cur>>

\* The inner try throws error e: the catch block takes over.
Throw(w, e) ==
    /\ outcome' = [outcome EXCEPT ![w] = e]
    /\ Goto(w, "charge")

\* ensureEligibleAccountForExecution keeps the row's account or moves the
\* row to another one; it throws when none is eligible.
Route(w) ==
    /\ pc[w] = "route"
    /\ \/ /\ \E a \in live : account' = [account EXCEPT ![cur[w]] = a]
          /\ Goto(w, IF PlatformOf[cur[w]] = "STOCKTWITS" THEN "gate" ELSE "post")
          /\ UNCHANGED outcome
       \/ Throw(w, "plain") /\ UNCHANGED account
    /\ UNCHANGED <<status, attempts, draft, deadLetter, world, budget, history,
                   request, cur, Local, view, phase>>

\* The StockTwits gates: market hours and warm-up skip the job, the spacing
\* gate throws (its message holds the seconds waited, so /5\d\d/ may match).
Gate(w) ==
    /\ pc[w] = "gate"
    /\ \/ Goto(w, "post") /\ UNCHANGED outcome
       \/ Goto(w, "skip") /\ UNCHANGED outcome
       \/ \E e \in InfraErrors : Throw(w, e)
    /\ UNCHANGED <<rows, world, budget, history, request, cur, Local, view, phase>>

\* Fault: a post without an externalPostId counts as confirmed.
PostTakenAsConfirmed(w) ==
    /\ pc[w] = "post"
    /\ Goto(w, "record") /\ outcome' = [outcome EXCEPT ![w] = "posted"]
    /\ \/ /\ posts' = [posts EXCEPT ![cur[w]] = @ + 1]
          /\ phase' = [phase EXCEPT ![w] = "posted"]
       \/ UNCHANGED <<posts, phase>>
    /\ UNCHANGED <<rows, queue, locks, live, budget, history, request, cur, Local, view>>

\* sendMessage or postToAccount: the provider accepts the post and the
\* answer arrives, or is lost (a timeout, an unconfirmed post), or the
\* provider refuses.
Post(w) ==
    /\ pc[w] = "post"
    /\ \/ /\ posts' = [posts EXCEPT ![cur[w]] = @ + 1]
          /\ phase' = [phase EXCEPT ![w] = "posted"]
          /\ \/ Goto(w, "record") /\ outcome' = [outcome EXCEPT ![w] = "posted"]
             \/ \E e \in InfraErrors : Throw(w, e)
       \/ /\ \E e \in Errors : Throw(w, e)
          /\ UNCHANGED <<posts, phase>>
    /\ UNCHANGED <<rows, queue, locks, live, budget, history, request, cur, Local, view>>

\* A terminal status for the row of the execution, with attempts + 1.
Close(w, s) ==
    /\ status' = [status EXCEPT ![cur[w]] = s]
    /\ attempts' = [attempts EXCEPT ![cur[w]] = @ + 1]
    /\ phase' = [phase EXCEPT ![w] = "closed"]
    /\ Goto(w, "reconcile")
    /\ UNCHANGED <<account, draft, deadLetter, world, budget, history, request,
                   cur, Local, view>>

Skip(w) ==
    /\ pc[w] = "skip"
    /\ Close(w, "SKIPPED")
    /\ outcome' = [outcome EXCEPT ![w] = "skipped"]

\* The confirmed post is written to the row.
Record(w) ==
    /\ pc[w] = "record"
    /\ Close(w, "SUCCESS")
    /\ UNCHANGED outcome

\* The FAILED row of the catch block.
Fail(w) ==
    /\ pc[w] = "fail"
    /\ Close(w, "FAILED")
    /\ UNCHANGED outcome

\* reconcileDraftPublishState reads the draft's rows ...
ReconcileRead(w) ==
    /\ pc[w] = "reconcile"
    /\ view' = [view EXCEPT ![w] = Reconciled(DraftOf[cur[w]])]
    /\ Goto(w, "settle")
    /\ UNCHANGED <<rows, world, budget, history, request, cur, Local, outcome, phase>>

\* ... and writes the draft status it computed from them.
ReconcileWrite(w) ==
    /\ pc[w] = "settle"
    /\ draft' = [draft EXCEPT ![DraftOf[cur[w]]] = view[w]]
    /\ \/ /\ outcome[w] = "skipped"
          /\ Leave(w, "unlock")
       \/ /\ outcome[w] # "skipped"
          /\ view' = [view EXCEPT ![w] = None]
          /\ Goto(w, IF outcome[w] = "posted" THEN "reward" ELSE "deadLetter")
          /\ UNCHANGED <<Local, outcome>>
    /\ UNCHANGED <<status, attempts, account, deadLetter, world, budget, history,
                   request, cur, phase>>

\* recordPublishOutcome of a success, audit and telemetry.  The account is the
\* one Route put on the row; deleting it has cleared the column, and the call
\* throws NotFoundException.
Reward(w) ==
    /\ pc[w] = "reward"
    /\ IF account[cur[w]] = NoAccount THEN Throw(w, "plain") /\ UNCHANGED <<Local, view>>
       ELSE Leave(w, "unlock")
    /\ UNCHANGED <<rows, world, budget, history, request, cur, phase>>

\* The catch block charges the account read with the row.  recordPublishOutcome
\* throws NotFoundException for a deleted account, out of the catch block; an
\* account restriction goes straight to FAILED, anything else may reroute.
Charge(w) ==
    /\ pc[w] = "charge"
    /\ IF snapAccount[w] \notin live \cup {NoAccount}
       THEN Leave(w, "throw")
       ELSE /\ Goto(w, IF outcome[w] = "restriction" THEN "fail" ELSE "reroute")
            /\ UNCHANGED <<Local, outcome, view>>
    /\ UNCHANGED <<rows, world, budget, history, request, cur, phase>>

\* tryRerouteFailedJob: the row, read again, moves to another eligible
\* account and back to PENDING; without one, or for an error that is not
\* reroutable, the job fails.
Reroute(w) ==
    LET j == cur[w] IN
    /\ pc[w] = "reroute"
    /\ \/ /\ Reroutable(outcome[w]) /\ account[j] # NoAccount /\ armed[j] < MaxArmed
          /\ \E a \in live \ {account[j]} : account' = [account EXCEPT ![j] = a]
          /\ Arm(j)
          /\ attempts' = [attempts EXCEPT ![j] = @ + 1]
          /\ phase' = [phase EXCEPT ![w] = "closed"]
          /\ Goto(w, "requeue")
       \/ /\ Goto(w, "fail")
          /\ UNCHANGED <<status, armed, account, attempts, phase>>
    /\ UNCHANGED <<draft, deadLetter, world, budget, cut, breached, request,
                   cur, Local, outcome, view>>

\* Fault: the rerouted job gets no queue entry.
RequeueForgotten(w) ==
    /\ pc[w] = "requeue"
    /\ Leave(w, "unlock")
    /\ UNCHANGED <<rows, world, budget, history, request, cur, phase>>

\* The delayed queue entry of the rerouted job.
Requeue(w) ==
    /\ pc[w] = "requeue"
    /\ queue' = Enqueued(cur[w])
    /\ Leave(w, "unlock")
    /\ UNCHANGED <<rows, locks, posts, live, budget, history, request, cur, phase>>

\* Fault: the last allowed attempt does not count as exhausted.
ExhaustedAfterOneMore(n) == n > MaxRetries

Exhausted(n) == n >= MaxRetries

\* moveToDeadLetterIfExhausted, with the attempts counted from the row as it
\* was read at the start of the execution.
MoveToDeadLetter(w) ==
    /\ pc[w] = "deadLetter"
    /\ deadLetter' = IF DeadLetterEnabled /\ Exhausted(snapAttempts[w] + 1)
                     THEN [deadLetter EXCEPT ![cur[w]] = "OPEN"] ELSE deadLetter
    /\ Leave(w, "unlock")
    /\ UNCHANGED <<status, attempts, account, draft, world, budget, history,
                   request, cur, phase>>

\* releasePublishJobLock on some pooled connection, then the entry is
\* acknowledged, or retried by BullMQ when the execution threw.
ReleaseLock(w) ==
    /\ pc[w] \in {"unlock", "throw"}
    /\ \E c \in Pool[w] : locks' = L!Unlocked(locks, cur[w], c)
    /\ queue' = IF pc[w] = "throw" THEN Requeued(cur[w], tries[w]) ELSE queue
    /\ CutOff(w)
    /\ Reset(w)
    /\ UNCHANGED <<rows, posts, live, budget, armed, breached, request>>

\* An await of the worker fails.  Inside the inner try the catch block
\* handles it; after the lock it unwinds to the finally block; a failing
\* lock or unlock query ends the execution at once.
WorkerFault(w) ==
    /\ Spend("fault")
    /\ \/ /\ InInnerTry(w)
          /\ \E e \in InfraErrors : Throw(w, e)
          /\ view' = [view EXCEPT ![w] = None]
          /\ UNCHANGED <<queue, cut, cur, Local, phase>>
       \/ /\ ~ InInnerTry(w)
          /\ pc[w] \in {"load", "skip", "reconcile", "settle", "charge", "reroute",
                        "requeue", "fail", "deadLetter"}
          /\ Leave(w, "throw")
          /\ UNCHANGED <<queue, cut, cur, phase>>
       \/ /\ pc[w] \in {"lock", "unlock", "throw"}
          /\ queue' = Requeued(cur[w], tries[w])
          /\ CutOff(w)
          /\ Reset(w)
    /\ UNCHANGED <<rows, locks, posts, live, issued, armed, breached, request>>

WorkerStep(w) ==
    \/ Deliver(w) \/ AcquireLock(w) \/ Load(w) \/ Route(w) \/ Gate(w) \/ Post(w)
    \/ Skip(w) \/ Record(w) \/ Fail(w) \/ ReconcileRead(w) \/ ReconcileWrite(w)
    \/ Reward(w) \/ Charge(w) \/ Reroute(w) \/ Requeue(w) \/ MoveToDeadLetter(w)
    \/ ReleaseLock(w)

=============================================================================
