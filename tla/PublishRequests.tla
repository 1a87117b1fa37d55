-------------------------- MODULE PublishRequests --------------------------
(***************************************************************************)
(* The operator's HTTP handlers that change publish jobs and dead letters, *)
(* and the scheduling of a draft, one step per awaited call.  All of them  *)
(* follow one pattern: read and check; make the row PENDING; reconcile the *)
(* draft; add the queue entry; mark an OPEN dead letter REPLAYED.  The     *)
(* window replay is meant to do this for many jobs, but BullMQ refuses the *)
(* id of its first entry (Add), and the replay ends there in an error.     *)
(***************************************************************************)
EXTENDS PublishRows

\* The handlers that arm a row on the strength of an earlier read.
Unguarded == {"retry", "rerun", "replay"}

Step(r, step) == reqPc' = [reqPc EXCEPT ![r] = step]

ResetRequest(r) ==
    /\ reqPc' = [reqPc EXCEPT ![r] = "idle"]
    /\ reqKind' = [reqKind EXCEPT ![r] = "none"]
    /\ reqJob' = [reqJob EXCEPT ![r] = None]
    /\ reqTodo' = [reqTodo EXCEPT ![r] = {}]
    /\ reqDrafts' = [reqDrafts EXCEPT ![r] = {}]
    /\ reqView' = [reqView EXCEPT ![r] = None]

\* What a handler checks in the rows it reads before it acts on job j.
Admissible(kind, j) ==
    CASE kind = "schedule" -> status[j] = None /\ draft[DraftOf[j]] = "AUTO_APPROVED"
      [] kind = "retry"    -> status[j] = "FAILED" /\ attempts[j] < MaxRetries
      [] kind = "rerun"    -> status[j] = "FAILED"
      [] kind = "replay"   -> status[j] = "FAILED" /\ deadLetter[j] = "OPEN"
      [] kind = "window"   -> status[j] = "FAILED"
      [] kind = "dispatch" -> status[j] = "PENDING"
      [] kind = "dismiss"  -> deadLetter[j] # None

FirstStep(kind) ==
    CASE kind = "dispatch" -> "add"
      [] kind = "dismiss"  -> "dismiss"
      [] OTHER             -> "arm"

\* A request arrives: the handler reads and passes its checks.  A schedule
\* takes jobs of one draft, a window any set of failed jobs (the interval, the
\* platform and PUBLISH_REPLAY_BATCH_SIZE choose it); the others take one job.
Begin(r) ==
    /\ reqPc[r] = "idle"
    /\ issued < MaxRequests /\ issued' = issued + 1
    /\ \E kind \in Handlers : \E js \in SUBSET Jobs : \E j \in js :
        /\ \A i \in js : Admissible(kind, i)
        /\ kind \notin {"schedule", "window"} => js = {j}
        /\ kind = "schedule" => \A i \in js : DraftOf[i] = DraftOf[j]
        /\ reqKind' = [reqKind EXCEPT ![r] = kind]
        /\ reqJob' = [reqJob EXCEPT ![r] = j]
        /\ reqTodo' = [reqTodo EXCEPT ![r] = js]
        /\ reqDrafts' = [reqDrafts EXCEPT ![r] =
                           IF kind \in Unguarded THEN {DraftOf[j]} ELSE {}]
        /\ Step(r, FirstStep(kind))
    /\ UNCHANGED <<rows, world, mishaps, history, worker, reqView>>

\* The handler is done with its current job and goes on to the next, if any.
NextJob(r) ==
    LET rest == reqTodo[r] \ {reqJob[r]} IN
    \/ /\ rest # {}
       /\ \E j \in rest : reqJob' = [reqJob EXCEPT ![r] = j]
       /\ reqTodo' = [reqTodo EXCEPT ![r] = rest]
       /\ Step(r, "arm")
       /\ UNCHANGED <<reqKind, reqDrafts, reqView>>
    \/ rest = {} /\ ResetRequest(r)

ArmedRow(r) ==
    LET j == reqJob[r] IN
    /\ Arm(j)
    /\ attempts' = IF reqKind[r] \in {"schedule", "replay", "window"}
                   THEN [attempts EXCEPT ![j] = 0] ELSE attempts
    /\ IF reqKind[r] = "schedule"
       THEN \E a \in live : account' = [account EXCEPT ![j] = a]
       ELSE UNCHANGED account
    /\ Step(r, IF reqKind[r] \in Unguarded THEN "reconcile" ELSE "add")
    /\ UNCHANGED <<draft, deadLetter, world, budget, cut, breached, worker,
                   reqKind, reqJob, reqTodo, reqDrafts, reqView>>

\* Fault: the window replay writes without its status = FAILED condition.
MakePendingUnconditionally(r) == reqPc[r] = "arm" /\ ArmedRow(r)

\* The write that creates the row or makes it PENDING.  Only the window replay
\* (updateMany ... status: FAILED) and the creation (a unique idempotency key)
\* look at the row again; when they find it taken (or, for the creation, no
\* account eligible) they pass on to the next.
MakePending(r) ==
    LET j == reqJob[r]
        taken == \/ reqKind[r] = "window" /\ status[j] # "FAILED"
                 \/ reqKind[r] = "schedule" /\ (status[j] # None \/ live = {})
    IN  /\ reqPc[r] = "arm"
        /\ IF taken
           THEN /\ NextJob(r)
                /\ UNCHANGED <<rows, world, budget, history, worker>>
           ELSE ArmedRow(r)

\* reconcileDraftPublishState reads the rows of a draft ...
DraftRead(r) ==
    /\ reqPc[r] = "reconcile"
    /\ \E d \in reqDrafts[r] :
         reqView' = [reqView EXCEPT ![r] = [draft |-> d, status |-> Reconciled(d)]]
    /\ Step(r, "settle")
    /\ UNCHANGED <<rows, world, budget, history, worker,
                   reqKind, reqJob, reqTodo, reqDrafts>>

\* ... and writes the status.
DraftWrite(r) ==
    LET d == reqView[r].draft IN
    /\ reqPc[r] = "settle"
    /\ draft' = [draft EXCEPT ![d] = reqView[r].status]
    /\ reqDrafts' = [reqDrafts EXCEPT ![r] = @ \ {d}]
    /\ reqView' = [reqView EXCEPT ![r] = None]
    /\ Step(r, "add")
    /\ UNCHANGED <<status, attempts, account, deadLetter, world, budget,
                   history, worker, reqKind, reqJob, reqTodo>>

\* publishQueue.add.  BullMQ takes an id of the caller's with a colon in it only
\* if it has three parts, <job>:<way>:<time>; that of the window replay has four
\* (the candidate's index), so add throws and the replay ends in an HTTP error,
\* its row PENDING.  Schedule and dispatch end here with their job.
Add(r) ==
    /\ reqPc[r] = "add"
    /\ IF reqKind[r] = "window"
       THEN ResetRequest(r) /\ UNCHANGED queue
       ELSE /\ queue' = Enqueued(reqJob[r])
            /\ IF reqKind[r] \in {"schedule", "dispatch"}
               THEN NextJob(r)
               ELSE /\ Step(r, "mark")
                    /\ UNCHANGED <<reqKind, reqJob, reqTodo, reqDrafts, reqView>>
    /\ UNCHANGED <<rows, locks, posts, live, budget, history, worker>>

\* markDeadLetterAsReplayedIfOpen: read and check ...
MarkRead(r) ==
    /\ reqPc[r] = "mark"
    /\ IF deadLetter[reqJob[r]] = "OPEN"
       THEN Step(r, "markWrite") /\ UNCHANGED <<reqKind, reqJob, reqTodo, reqDrafts, reqView>>
       ELSE ResetRequest(r)
    /\ UNCHANGED <<rows, world, budget, history, worker>>

\* ... then write, whatever the dead letter has become.
MarkWrite(r) ==
    /\ reqPc[r] = "markWrite"
    /\ deadLetter' = [deadLetter EXCEPT ![reqJob[r]] = "REPLAYED"]
    /\ ResetRequest(r)
    /\ UNCHANGED <<status, attempts, account, draft, world, budget, history, worker>>

\* dismissDeadLetter writes over any status.
Dismiss(r) ==
    /\ reqPc[r] = "dismiss"
    /\ deadLetter' = [deadLetter EXCEPT ![reqJob[r]] = "DISMISSED"]
    /\ ResetRequest(r)
    /\ UNCHANGED <<status, attempts, account, draft, world, budget, history, worker>>

\* An await of the handler fails: the request ends in an HTTP error where it is.
RequestFault(r) ==
    /\ Spend("fault")
    /\ reqPc[r] # "idle"
    /\ ResetRequest(r)
    /\ UNCHANGED <<rows, world, issued, history, worker>>

RequestStep(r) ==
    \/ MakePending(r) \/ DraftRead(r) \/ DraftWrite(r) \/ Add(r)
    \/ MarkRead(r) \/ MarkWrite(r) \/ Dismiss(r)

=============================================================================
