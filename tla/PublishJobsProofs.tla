------------------------- MODULE PublishJobsProofs -------------------------
(***************************************************************************)
(* Proofs about PublishJobs for every deployment: any number of processes, *)
(* connections, jobs, requests and disturbances.  Type correctness, then   *)
(* the inductive invariant IInv, each of its parts shown to be preserved   *)
(* by a lemma of its own: the lock excludes, and posts are authorised.     *)
(***************************************************************************)
EXTENDS PublishJobs, TLAPS

-----------------------------------------------------------------------------
(* Type correctness.                                                       *)

\* The two ways a worker's local state is cleared keep its types.
LEMMA ResetTypes ==
    ASSUME WorkerTypes, NEW w \in Procs, Reset(w)
    PROVE  WorkerTypes'
BY PublishAssumption DEF WorkerTypes, Reset, WorkerSteps, Outcomes, Errors, Tries

LEMMA LeaveTypes ==
    ASSUME WorkerTypes, NEW w \in Procs, pc[w] # "idle",
           NEW step \in {"unlock", "throw"}, Leave(w, step), UNCHANGED cur,
           phase' \in [Procs -> {"fresh", "posted", "closed"}]
    PROVE  WorkerTypes'
BY PublishAssumption DEF WorkerTypes, Leave, Goto, WorkerSteps, Outcomes, Errors

LEMMA ThrowTypes ==
    ASSUME WorkerTypes, NEW w \in Procs, pc[w] # "idle", NEW e \in Errors, Throw(w, e),
           UNCHANGED <<cur, Local>>,
           view' \in {view, [view EXCEPT ![w] = None]},
           phase' \in [Procs -> {"fresh", "posted", "closed"}]
    PROVE  WorkerTypes'
BY PublishAssumption, ZenonT(40) DEF WorkerTypes, Throw, Goto, Local, WorkerSteps, Outcomes

\* A step of the worker to another point of the execution.
LEMMA GotoTypes ==
    ASSUME WorkerTypes, NEW w \in Procs, pc[w] # "idle",
           NEW step \in WorkerSteps \ {"settle"}, Goto(w, step),
           UNCHANGED <<cur, Local, view>>,
           outcome' \in [Procs -> Outcomes],
           phase' \in [Procs -> {"fresh", "posted", "closed"}]
    PROVE  WorkerTypes'
BY DEF WorkerTypes, Goto, Local, WorkerSteps

LEMMA ReconciledType == \A d : Reconciled(d) \in DraftStatus
BY DEF Reconciled, DraftStatus

LEMMA RequestTypesKept ==
    ASSUME RequestTypes, UNCHANGED request
    PROVE  RequestTypes'
BY DEF RequestTypes, request

LEMMA WorldTypesKept ==
    ASSUME WorldTypes, UNCHANGED <<world, budget, history>>
    PROVE  WorldTypes'
BY DEF WorldTypes, world, budget, history

LEMMA WorkerTypesKept ==
    ASSUME WorkerTypes, UNCHANGED worker
    PROVE  WorkerTypes'
BY DEF WorkerTypes, worker

LEMMA RowTypesKept ==
    ASSUME RowTypes, UNCHANGED rows
    PROVE  RowTypes'
BY DEF RowTypes, rows

\* An entry put back into, or added to, the queue.
LEMMA QueueTypes ==
    ASSUME WorldTypes, NEW j \in Jobs, NEW k \in Tries
    PROVE  /\ [queue EXCEPT ![j][k] = @ + 1] \in [Jobs -> [Tries -> Nat]]
           /\ Requeued(j, k) \in [Jobs -> [Tries -> Nat]]
<1>1. queue \in [Jobs -> [Tries -> Nat]]
  BY DEF WorldTypes
<1>2. ASSUME NEW i \in Tries
      PROVE  [queue EXCEPT ![j][i] = @ + 1] \in [Jobs -> [Tries -> Nat]]
  BY <1>1
<1>3. Requeued(j, k) \in [Jobs -> [Tries -> Nat]]
  <2>1. CASE k + 1 < BullAttempts
    <3> DEFINE i == k + 1
    <3>1. i \in Tries
      BY <2>1, PublishAssumption DEF Tries
    <3>2. Requeued(j, k) = [queue EXCEPT ![j][i] = @ + 1]
      BY <2>1 DEF Requeued
    <3> HIDE DEF i
    <3> QED  BY <1>2, <3>1, <3>2
  <2>2. CASE ~ (k + 1 < BullAttempts)
    BY <1>1, <2>2 DEF Requeued
  <2> QED  BY <2>1, <2>2
<1> QED  BY <1>2, <1>3

LEMMA CutOffTypes ==
    ASSUME WorldTypes, NEW w \in Procs, CutOff(w)
    PROVE  cut' \in [Jobs -> Nat]
<1>1. cut \in [Jobs -> Nat]
  BY DEF WorldTypes
<1>2. CASE phase[w] = "posted"
  <2> DEFINE j == cur[w]
  <2>1. cut' = [cut EXCEPT ![j] = cut[j] + 1]
    BY <1>2 DEF CutOff
  <2> HIDE DEF j
  <2>2. CASE j \in Jobs
    <3>1. cut[j] + 1 \in Nat
      BY <1>1, <2>2
    <3> QED  BY <1>1, <2>1, <3>1
  <2>3. CASE j \notin Jobs
    BY <1>1, <2>1, <2>3
  <2> QED  BY <2>2, <2>3
<1>3. CASE phase[w] # "posted"
  BY <1>1, <1>3 DEF CutOff
<1> QED  BY <1>2, <1>3

LEMMA CloseTypes ==
    ASSUME TypeOK, NEW w \in Procs, pc[w] # "idle", NEW s \in JobStatus, Close(w, s),
           outcome' \in [Procs -> Outcomes]
    PROVE  TypeOK'
<1> USE DEF TypeOK, Close
<1>1. cur[w] \in Jobs
  BY DEF WorkerTypes
<1>2. RowTypes'
  BY <1>1 DEF RowTypes
<1>3. WorldTypes'
  BY WorldTypesKept
<1>4. WorkerTypes'
  <2>1. phase' \in [Procs -> {"fresh", "posted", "closed"}]
    BY DEF WorkerTypes
  <2>2. "reconcile" \in WorkerSteps \ {"settle"}
    BY DEF WorkerSteps
  <2> QED
    BY <2>1, <2>2, GotoTypes
<1>5. RequestTypes'
  BY RequestTypesKept
<1> QED
  BY <1>2, <1>3, <1>4, <1>5

LEMMA WorkerTypeStep ==
    ASSUME TypeOK, NEW w \in Procs, WorkerStep(w)
    PROVE  TypeOK'
<1> USE DEF TypeOK
<1>1. CASE Deliver(w)
  <2>1. RowTypes' /\ RequestTypes'
    BY <1>1, RequestTypesKept DEF Deliver, RowTypes, rows
  <2>2. WorldTypes'
    BY <1>1 DEF Deliver, WorldTypes, Entries, budget, history
  <2>3. WorkerTypes'
    BY <1>1 DEF Deliver, WorkerTypes, Goto, Entries, WorkerSteps
  <2> QED  BY <2>1, <2>2, <2>3
<1>2. CASE AcquireLock(w)
  <2>1. RowTypes' /\ RequestTypes'
    BY <1>2, RequestTypesKept DEF AcquireLock, RowTypes, rows
  <2>2. WorldTypes'
    <3>1. cur[w] \in Jobs
      BY <1>2 DEF AcquireLock, WorkerTypes
    <3>2. locks' \in L!LockTables
      <4>1. CASE UNCHANGED locks
        BY <4>1 DEF WorldTypes, L!LockTables
      <4>2. CASE locks' # locks
        <5>1. PICK c \in Pool[w] : locks' = L!Locked(locks, cur[w], c)
          BY <1>2, <4>2 DEF AcquireLock
        <5>2. c \in Conns
          BY PublishAssumption
        <5>3. locks[cur[w]].depth \in Nat
          BY <3>1 DEF WorldTypes, L!LockTables
        <5> QED  BY <3>1, <5>1, <5>2, <5>3 DEF WorldTypes, L!LockTables, L!Locked
      <4> QED  BY <4>1, <4>2
    <3> QED  BY <1>2, <3>2 DEF AcquireLock, WorldTypes, budget, history
  <2>3. WorkerTypes'
    <3>1. CASE Reset(w)
      BY <3>1, ResetTypes
    <3>2. CASE ~ Reset(w)
      BY <1>2, <3>2, PublishAssumption DEF AcquireLock, WorkerTypes, Goto, WorkerSteps
    <3> QED  BY <3>1, <3>2
  <2> QED  BY <2>1, <2>2, <2>3
<1>3. CASE Load(w)
  <2>1. RowTypes' /\ RequestTypes' /\ WorldTypes'
    BY <1>3, RequestTypesKept, WorldTypesKept DEF Load, RowTypes, rows
  <2>2. WorkerTypes'
    <3>1. CASE status[cur[w]] = "PENDING"
      BY <1>3, <3>1 DEF Load, WorkerTypes, RowTypes, Goto, WorkerSteps
    <3>2. CASE status[cur[w]] # "PENDING"
      <4>1. phase' \in [Procs -> {"fresh", "posted", "closed"}]
        BY <1>3, <3>2 DEF Load, WorkerTypes
      <4> QED  BY <1>3, <3>2, <4>1, LeaveTypes DEF Load
    <3> QED  BY <3>1, <3>2
  <2> QED  BY <2>1, <2>2
<1>4. CASE Route(w)
  <2>1. RequestTypes' /\ WorldTypes'
    BY <1>4, RequestTypesKept, WorldTypesKept DEF Route
  <2>2. RowTypes'
    BY <1>4 DEF Route, RowTypes, WorldTypes
  <2>3. WorkerTypes'
    BY <1>4 DEF Route, Throw, Goto, Local, WorkerTypes, WorkerSteps, Outcomes, Errors
  <2> QED  BY <2>1, <2>2, <2>3
<1>5. CASE Gate(w)
  <2>1. RowTypes' /\ RequestTypes' /\ WorldTypes'
    BY <1>5, RequestTypesKept, WorldTypesKept DEF Gate, RowTypes, rows
  <2>2. WorkerTypes'
    BY <1>5 DEF Gate, Throw, Goto, Local, WorkerTypes, WorkerSteps, Outcomes, Errors, InfraErrors
  <2> QED  BY <2>1, <2>2
<1>6. CASE Post(w)
  <2>1. RowTypes' /\ RequestTypes'
    BY <1>6, RequestTypesKept DEF Post, RowTypes, rows
  <2>2. WorldTypes'
    <3>1. cur[w] \in Jobs
      BY <1>6 DEF Post, WorkerTypes
    <3>2. posts' \in [Jobs -> Nat]
      BY <1>6, <3>1 DEF Post, WorldTypes
    <3> QED  BY <1>6, <3>2 DEF Post, WorldTypes, budget, history
  <2>3. WorkerTypes'
    BY <1>6 DEF Post, Throw, Goto, Local, WorkerTypes, WorkerSteps, Outcomes, Errors, InfraErrors
  <2> QED  BY <2>1, <2>2, <2>3
<1>7. CASE Skip(w)
  <2>1. outcome' \in [Procs -> Outcomes]
    BY <1>7 DEF Skip, WorkerTypes, Outcomes
  <2> QED  BY <1>7, <2>1, CloseTypes DEF Skip, JobStatus
<1>8. CASE Record(w)
  BY <1>8, CloseTypes DEF Record, JobStatus, WorkerTypes
<1>9. CASE Fail(w)
  BY <1>9, CloseTypes DEF Fail, JobStatus, WorkerTypes
<1>10. CASE ReconcileRead(w)
  <2>1. RowTypes' /\ RequestTypes' /\ WorldTypes'
    BY <1>10, RequestTypesKept, WorldTypesKept DEF ReconcileRead, RowTypes, rows
  <2>2. WorkerTypes'
    BY <1>10, ReconciledType DEF ReconcileRead, WorkerTypes, Goto, Local, WorkerSteps
  <2> QED  BY <2>1, <2>2
<1>11. CASE ReconcileWrite(w)
  <2>1. RequestTypes' /\ WorldTypes'
    BY <1>11, RequestTypesKept, WorldTypesKept DEF ReconcileWrite
  <2>2. RowTypes'
    BY <1>11 DEF ReconcileWrite, RowTypes, WorkerTypes
  <2>3. WorkerTypes'
    <3>1. CASE outcome[w] = "skipped"
      <4>1. phase' \in [Procs -> {"fresh", "posted", "closed"}]
        BY <1>11 DEF ReconcileWrite, WorkerTypes
      <4> QED  BY <1>11, <3>1, <4>1, LeaveTypes DEF ReconcileWrite
    <3>2. CASE outcome[w] # "skipped"
      BY <1>11, <3>2 DEF ReconcileWrite, WorkerTypes, Goto, Local, WorkerSteps
    <3> QED  BY <3>1, <3>2
  <2> QED  BY <2>1, <2>2, <2>3
<1>12. CASE Reward(w)
  <2>1. RowTypes' /\ RequestTypes' /\ WorldTypes'
    BY <1>12, RequestTypesKept, WorldTypesKept DEF Reward, RowTypes, rows
  <2>2. pc[w] # "idle" /\ UNCHANGED cur /\ phase' \in [Procs -> {"fresh", "posted", "closed"}]
    BY <1>12 DEF Reward, WorkerTypes
  <2>3. CASE account[cur[w]] = NoAccount
    <3>1. "plain" \in Errors
      BY DEF Errors
    <3> QED  BY <1>12, <2>1, <2>2, <2>3, <3>1, ThrowTypes DEF Reward
  <2>4. CASE account[cur[w]] # NoAccount
    BY <1>12, <2>1, <2>2, <2>4, LeaveTypes DEF Reward
  <2> QED  BY <2>3, <2>4
<1>13. CASE Charge(w)
  <2>1. RowTypes' /\ RequestTypes' /\ WorldTypes'
    BY <1>13, RequestTypesKept, WorldTypesKept DEF Charge, RowTypes, rows
  <2>2. pc[w] # "idle" /\ UNCHANGED cur /\ phase' \in [Procs -> {"fresh", "posted", "closed"}]
    BY <1>13 DEF Charge, WorkerTypes
  <2>3. CASE snapAccount[w] \notin live \cup {NoAccount}
    BY <1>13, <2>1, <2>2, <2>3, LeaveTypes DEF Charge
  <2>4. CASE snapAccount[w] \in live \cup {NoAccount}
    <3>1. PICK step \in {"fail", "reroute"} : Goto(w, step)
      BY <1>13, <2>4 DEF Charge
    <3>2. step \in WorkerSteps \ {"settle"}
      BY DEF WorkerSteps
    <3>3. outcome' \in [Procs -> Outcomes] /\ UNCHANGED <<cur, Local, view>>
      BY <1>13, <2>4 DEF Charge, WorkerTypes
    <3> QED  BY <2>1, <2>2, <3>1, <3>2, <3>3, GotoTypes
  <2> QED  BY <2>3, <2>4
<1>14. CASE Reroute(w)
  <2>1. RequestTypes'
    BY <1>14, RequestTypesKept DEF Reroute
  <2>2. cur[w] \in Jobs
    BY <1>14 DEF Reroute, WorkerTypes
  <2>4. RowTypes'
    <3>1. CASE Goto(w, "fail")
      BY <1>14, <3>1 DEF Reroute, RowTypes, WorkerTypes, Goto
    <3>2. CASE ~ Goto(w, "fail")
      <4>1. PICK a \in live \ {account[cur[w]]} : account' = [account EXCEPT ![cur[w]] = a]
        BY <1>14, <3>2 DEF Reroute
      <4>2. a \in Accounts
        BY DEF WorldTypes
      <4> QED  BY <1>14, <2>2, <3>2, <4>1, <4>2 DEF Reroute, Arm, RowTypes, JobStatus
    <3> QED  BY <3>1, <3>2
  <2>5. WorldTypes'
    BY <1>14, <2>2 DEF Reroute, Arm, WorldTypes, world, budget
  <2>3. WorkerTypes'
    <3>1. PICK step \in {"requeue", "fail"} : Goto(w, step)
      BY <1>14 DEF Reroute
    <3>2. step \in WorkerSteps \ {"settle"}
      BY DEF WorkerSteps
    <3>3. /\ pc[w] # "idle" /\ UNCHANGED <<cur, Local, view>>
          /\ outcome' \in [Procs -> Outcomes]
          /\ phase' \in [Procs -> {"fresh", "posted", "closed"}]
      BY <1>14 DEF Reroute, WorkerTypes
    <3> QED  BY <3>1, <3>2, <3>3, GotoTypes
  <2> QED  BY <2>1, <2>3, <2>4, <2>5
<1>15. CASE Requeue(w)
  <2>1. RowTypes' /\ RequestTypes'
    BY <1>15, RequestTypesKept DEF Requeue, RowTypes, rows
  <2>2. WorldTypes'
    <3>1. cur[w] \in Jobs /\ 0 \in Tries
      BY <1>15, PublishAssumption DEF Requeue, WorkerTypes, Tries
    <3>2. queue' \in [Jobs -> [Tries -> Nat]]
      BY <1>15, <3>1, QueueTypes DEF Requeue, Enqueued
    <3> QED  BY <1>15, <3>2 DEF Requeue, WorldTypes, budget, history
  <2>3. pc[w] # "idle" /\ UNCHANGED cur /\ phase' \in [Procs -> {"fresh", "posted", "closed"}]
    BY <1>15 DEF Requeue, WorkerTypes
  <2> QED  BY <1>15, <2>1, <2>2, <2>3, LeaveTypes DEF Requeue
<1>16. CASE MoveToDeadLetter(w)
  <2>1. RequestTypes' /\ WorldTypes'
    BY <1>16, RequestTypesKept, WorldTypesKept DEF MoveToDeadLetter
  <2>2. RowTypes'
    BY <1>16 DEF MoveToDeadLetter, RowTypes, DeadLetterStatus
  <2>3. pc[w] # "idle" /\ UNCHANGED cur /\ phase' \in [Procs -> {"fresh", "posted", "closed"}]
    BY <1>16 DEF MoveToDeadLetter, WorkerTypes
  <2> QED  BY <1>16, <2>1, <2>2, <2>3, LeaveTypes DEF MoveToDeadLetter
<1>17. CASE ReleaseLock(w)
  <2>1. RowTypes' /\ RequestTypes'
    BY <1>17, RequestTypesKept DEF ReleaseLock, RowTypes, rows
  <2>2. cur[w] \in Jobs /\ tries[w] \in Tries
    BY <1>17 DEF ReleaseLock, WorkerTypes
  <2>3. locks' \in L!LockTables
    BY <1>17, <2>2 DEF ReleaseLock, WorldTypes, L!LockTables, L!Unlocked, L!Free
  <2>4. queue' \in [Jobs -> [Tries -> Nat]] /\ cut' \in [Jobs -> Nat]
    <3>1. Requeued(cur[w], tries[w]) \in [Jobs -> [Tries -> Nat]]
      BY <2>2, QueueTypes
    <3>2. queue \in [Jobs -> [Tries -> Nat]]
      BY DEF WorldTypes
    <3> QED  BY <1>17, <3>1, <3>2, CutOffTypes DEF ReleaseLock
  <2>5. WorldTypes'
    BY <1>17, <2>3, <2>4 DEF ReleaseLock, WorldTypes, budget
  <2>6. WorkerTypes'
    BY <1>17, ResetTypes DEF ReleaseLock
  <2> QED  BY <2>1, <2>5, <2>6
<1> QED
  BY <1>1, <1>2, <1>3, <1>4, <1>5, <1>6, <1>7, <1>8, <1>9, <1>10, <1>11, <1>12,
     <1>13, <1>14, <1>15, <1>16, <1>17 DEF WorkerStep

LEMMA ClosedTypes ==
    ASSUME WorldTypes, NEW C, locks' = L!Closed(locks, C)
    PROVE  locks' \in L!LockTables
BY DEF WorldTypes, L!Closed, L!LockTables, L!Free

LEMMA WorkerFaultTypeStep ==
    ASSUME TypeOK, NEW w \in Procs, WorkerFault(w)
    PROVE  TypeOK'
<1> USE DEF TypeOK
<1>1. RowTypes' /\ RequestTypes'
  BY RowTypesKept, RequestTypesKept DEF WorkerFault
<1>2. mishaps' \in Nat
  BY PublishAssumption DEF WorkerFault, Spend, WorldTypes
<1>3. CASE InInnerTry(w) /\ \E e \in InfraErrors : Throw(w, e)
  <2>1. pc[w] # "idle"
    BY <1>3 DEF InInnerTry
  <2>2. PICK e \in Errors : Throw(w, e)
    BY <1>3 DEF InfraErrors, Errors
  <2>3. ~ Goto(w, "throw") /\ ~ Reset(w)
    BY <2>2 DEF Throw, Goto, Reset, WorkerTypes
  <2>4. UNCHANGED <<queue, cut, cur, Local, phase>> /\ view' = [view EXCEPT ![w] = None]
    BY <2>3 DEF WorkerFault, Leave
  <2>5. phase' \in [Procs -> {"fresh", "posted", "closed"}]
    BY <2>4 DEF WorkerTypes
  <2>6. WorkerTypes'
    BY <2>1, <2>2, <2>4, <2>5, ThrowTypes
  <2>7. WorldTypes'
    BY <1>2, <2>4 DEF WorkerFault, WorldTypes
  <2> QED  BY <1>1, <2>6, <2>7
<1>4. CASE Leave(w, "throw") /\ UNCHANGED <<queue, cut, cur, phase>> /\ pc[w] # "idle"
  <2>1. phase' \in [Procs -> {"fresh", "posted", "closed"}]
    BY <1>4 DEF WorkerTypes
  <2>2. WorkerTypes'
    BY <1>4, <2>1, LeaveTypes
  <2>3. WorldTypes'
    BY <1>2, <1>4 DEF WorkerFault, WorldTypes
  <2> QED  BY <1>1, <2>2, <2>3
<1>5. CASE /\ pc[w] \in {"lock", "unlock", "throw"} /\ queue' = Requeued(cur[w], tries[w])
           /\ CutOff(w) /\ Reset(w)
  <2>1. cur[w] \in Jobs /\ tries[w] \in Tries
    BY <1>5 DEF WorkerTypes
  <2>2. WorldTypes'
    BY <1>2, <1>5, <2>1, QueueTypes, CutOffTypes DEF WorkerFault, WorldTypes
  <2> QED  BY <1>1, <1>5, <2>2, ResetTypes
<1> QED
  BY <1>3, <1>4, <1>5 DEF WorkerFault

LEMMA DisturbanceTypeStep ==
    ASSUME TypeOK,
           \/ \E w \in Procs : Crash(w)
           \/ \E c \in Conns : Recycle(c)
           \/ \E a \in Accounts : DeleteAccount(a)
    PROVE  TypeOK'
<1> USE DEF TypeOK
<1>1. ASSUME NEW w \in Procs, Crash(w)
      PROVE  TypeOK'
  <2>1. RowTypes'
    BY <1>1, RowTypesKept DEF Crash
  <2>2. queue' \in [Jobs -> [Tries -> Nat]]
    <3>1. CASE Busy(w) /\ queue' = [queue EXCEPT ![cur[w]][tries[w]] = @ + 1]
      <4>1. cur[w] \in Jobs /\ tries[w] \in Tries
        BY <3>1 DEF Busy, WorkerTypes
      <4> QED  BY <3>1, <4>1, QueueTypes
    <3>2. CASE UNCHANGED queue
      BY <3>2 DEF WorldTypes
    <3> QED  BY <1>1, <3>1, <3>2 DEF Crash
  <2>3. WorldTypes'
    BY <1>1, <2>2, ClosedTypes, CutOffTypes, PublishAssumption DEF Crash, Spend, WorldTypes
  <2>4. WorkerTypes'
    BY <1>1, ResetTypes DEF Crash
  <2>5. RequestTypes'
    BY <1>1 DEF Crash, RequestTypes, RequestSteps
  <2> QED  BY <2>1, <2>3, <2>4, <2>5
<1>2. ASSUME NEW c \in Conns, Recycle(c)
      PROVE  TypeOK'
  <2>1. RowTypes' /\ WorkerTypes' /\ RequestTypes'
    BY <1>2, RowTypesKept, WorkerTypesKept, RequestTypesKept DEF Recycle
  <2>2. breached' \subseteq Jobs
    BY <1>2 DEF Recycle, WorldTypes, WorkerTypes, Executing
  <2>3. locks' \in L!LockTables
    BY <1>2, ClosedTypes DEF Recycle
  <2>4. mishaps' \in Nat
    BY <1>2, PublishAssumption DEF Recycle, Spend, WorldTypes
  <2>5. WorldTypes'
    BY <1>2, <2>2, <2>3, <2>4 DEF Recycle, WorldTypes
  <2> QED  BY <2>1, <2>5
<1>3. ASSUME NEW a \in Accounts, DeleteAccount(a)
      PROVE  TypeOK'
  <2>1. WorkerTypes' /\ RequestTypes'
    BY <1>3, WorkerTypesKept, RequestTypesKept DEF DeleteAccount
  <2>2. RowTypes'
    BY <1>3 DEF DeleteAccount, RowTypes
  <2>3. WorldTypes'
    BY <1>3, PublishAssumption DEF DeleteAccount, Spend, WorldTypes, history
  <2> QED  BY <2>1, <2>2, <2>3
<1> QED  BY <1>1, <1>2, <1>3

\* A handler's end and its way to the next job keep the types.
LEMMA ResetRequestTypes ==
    ASSUME RequestTypes, NEW r \in Requests, ResetRequest(r)
    PROVE  RequestTypes'
BY DEF RequestTypes, ResetRequest, RequestSteps

LEMMA StepTypes ==
    ASSUME RequestTypes, NEW r \in Requests, reqPc[r] # "idle",
           NEW step \in RequestSteps \ {"settle"}, Step(r, step),
           UNCHANGED <<reqKind, reqJob, reqTodo, reqView>>,
           reqDrafts' \in [Requests -> SUBSET Drafts]
    PROVE  RequestTypes'
BY DEF RequestTypes, Step, RequestSteps

LEMMA NextJobTypes ==
    ASSUME RequestTypes, NEW r \in Requests, reqPc[r] # "idle", NextJob(r)
    PROVE  RequestTypes'
<1> DEFINE rest == reqTodo[r] \ {reqJob[r]}
<1>1. rest \subseteq Jobs
  BY DEF RequestTypes
<1>2. CASE rest # {}
  <2>1. PICK j \in rest : reqJob' = [reqJob EXCEPT ![r] = j]
    BY <1>2 DEF NextJob
  <2>2. j \in Jobs
    BY <1>1, <2>1
  <2>3. /\ reqTodo' = [reqTodo EXCEPT ![r] = rest]
        /\ reqPc' = [reqPc EXCEPT ![r] = "arm"]
        /\ UNCHANGED <<reqKind, reqDrafts, reqView>>
    BY <1>2 DEF NextJob, Step
  <2> HIDE DEF rest
  <2> QED  BY <1>1, <2>1, <2>2, <2>3 DEF RequestTypes, RequestSteps
<1>3. CASE rest = {}
  BY <1>3, ResetRequestTypes DEF NextJob
<1> QED  BY <1>2, <1>3

LEMMA BeginTypeStep ==
    ASSUME TypeOK, NEW r \in Requests, Begin(r)
    PROVE  TypeOK'
<1> USE DEF TypeOK
<1>1. RowTypes' /\ WorkerTypes'
  BY RowTypesKept, WorkerTypesKept DEF Begin
<1>2. WorldTypes'
  BY DEF Begin, WorldTypes, world, history
<1>3. PICK kind \in Handlers, js \in SUBSET Jobs, j \in Jobs :
        /\ reqKind' = [reqKind EXCEPT ![r] = kind]
        /\ reqJob' = [reqJob EXCEPT ![r] = j]
        /\ reqTodo' = [reqTodo EXCEPT ![r] = js]
        /\ reqDrafts' = [reqDrafts EXCEPT ![r] =
                           IF kind \in Unguarded THEN {DraftOf[j]} ELSE {}]
        /\ reqPc' = [reqPc EXCEPT ![r] = FirstStep(kind)]
        /\ UNCHANGED reqView
  BY DEF Begin, Step
<1>4. kind \in RequestKinds /\ DraftOf[j] \in Drafts
  BY PublishAssumption
<1>5. FirstStep(kind) \in RequestSteps \ {"settle"}
  BY <1>4 DEF FirstStep, RequestKinds, RequestSteps
<1>6. RequestTypes'
  BY <1>3, <1>4, <1>5 DEF RequestTypes
<1> QED  BY <1>1, <1>2, <1>6

\* A row made PENDING, and the step of the handler after it.
LEMMA ArmedRowTypes ==
    ASSUME TypeOK, NEW r \in Requests, reqPc[r] # "idle", ArmedRow(r)
    PROVE  TypeOK'
<1> USE DEF TypeOK
<1>1. reqJob[r] \in Jobs
  BY DEF RequestTypes
<1>2. WorkerTypes'
  BY WorkerTypesKept DEF ArmedRow
<1>3. WorldTypes'
  BY <1>1 DEF ArmedRow, Arm, WorldTypes, world, budget
<1>4. RowTypes'
  <2>1. attempts' \in [Jobs -> Nat]
    BY <1>1 DEF ArmedRow, RowTypes
  <2>2. account' \in [Jobs -> Accounts \cup {NoAccount}]
    BY <1>1 DEF ArmedRow, RowTypes, WorldTypes
  <2>3. status' \in [Jobs -> JobStatus \cup {None}]
    BY <1>1 DEF ArmedRow, Arm, RowTypes, JobStatus
  <2> QED  BY <2>1, <2>2, <2>3 DEF ArmedRow, RowTypes
<1>5. RequestTypes'
  <2>1. PICK step \in {"reconcile", "add"} : Step(r, step)
    BY DEF ArmedRow
  <2>2. step \in RequestSteps \ {"settle"}
    BY DEF RequestSteps
  <2>3. UNCHANGED <<reqKind, reqJob, reqTodo, reqView>> /\ reqDrafts' \in [Requests -> SUBSET Drafts]
    BY DEF ArmedRow, RequestTypes
  <2> QED  BY <2>1, <2>2, <2>3, StepTypes
<1> QED  BY <1>2, <1>3, <1>4, <1>5

LEMMA RequestTypeStep ==
    ASSUME TypeOK, NEW r \in Requests, RequestStep(r)
    PROVE  TypeOK'
<1> USE DEF TypeOK
<1>1. /\ reqPc[r] # "idle" => reqJob[r] \in Jobs /\ DraftOf[reqJob[r]] \in Drafts
      /\ reqDrafts[r] \in SUBSET Drafts
  BY PublishAssumption DEF RequestTypes
<1>2. CASE MakePending(r)
  <2>1. CASE ArmedRow(r)
    BY <1>2, <2>1, ArmedRowTypes DEF MakePending
  <2>2. CASE NextJob(r) /\ UNCHANGED <<rows, world, budget, history, worker>>
    <3>1. RequestTypes'
      BY <1>1, <1>2, <2>2, NextJobTypes DEF MakePending
    <3> QED  BY <2>2, <3>1, RowTypesKept, WorldTypesKept, WorkerTypesKept
  <2> QED  BY <1>2, <2>1, <2>2 DEF MakePending
<1>3. CASE DraftRead(r)
  <2>1. RowTypes' /\ WorldTypes' /\ WorkerTypes'
    BY <1>3, RowTypesKept, WorldTypesKept, WorkerTypesKept DEF DraftRead
  <2>2. PICK d \in reqDrafts[r] :
          reqView' = [reqView EXCEPT ![r] = [draft |-> d, status |-> Reconciled(d)]]
    BY <1>3 DEF DraftRead
  <2> DEFINE v == [draft |-> d, status |-> Reconciled(d)]
  <2>3. v \in PendingWrites
    BY <1>1, ReconciledType DEF PendingWrites
  <2>4. /\ reqView' = [reqView EXCEPT ![r] = v]
        /\ reqPc' = [reqPc EXCEPT ![r] = "settle"]
        /\ reqPc[r] # "idle"
        /\ UNCHANGED <<reqKind, reqJob, reqTodo, reqDrafts>>
    BY <1>3, <2>2 DEF DraftRead, Step
  <2>5. RequestTypes'
    <3> HIDE DEF v
    <3> QED  BY <2>3, <2>4 DEF RequestTypes, RequestSteps
  <2> QED  BY <2>1, <2>5
<1>4. CASE DraftWrite(r)
  <2>1. WorldTypes' /\ WorkerTypes'
    BY <1>4, WorldTypesKept, WorkerTypesKept DEF DraftWrite
  <2>2. reqView[r].draft \in Drafts /\ reqView[r].status \in DraftStatus
    BY <1>4 DEF DraftWrite, RequestTypes, PendingWrites
  <2>3. RowTypes'
    BY <1>4, <2>2 DEF DraftWrite, RowTypes
  <2>4. /\ reqDrafts' = [reqDrafts EXCEPT ![r] = reqDrafts[r] \ {reqView[r].draft}]
        /\ reqView' = [reqView EXCEPT ![r] = None]
        /\ reqPc' = [reqPc EXCEPT ![r] = "add"]
        /\ UNCHANGED <<reqKind, reqJob, reqTodo>>
        /\ reqPc[r] # "idle"
    BY <1>4 DEF DraftWrite, Step
  <2>5. reqDrafts[r] \ {reqView[r].draft} \in SUBSET Drafts
    BY <1>1
  <2>6. RequestTypes'
    BY <2>4, <2>5 DEF RequestTypes, RequestSteps
  <2> QED  BY <2>1, <2>3, <2>6
<1>5. CASE Add(r)
  <2>1. RowTypes' /\ WorkerTypes'
    BY <1>5, RowTypesKept, WorkerTypesKept DEF Add
  <2>2. 0 \in Tries
    BY PublishAssumption DEF Tries
  <2>3. queue' \in [Jobs -> [Tries -> Nat]]
    <3>1. CASE UNCHANGED queue
      BY <3>1 DEF WorldTypes
    <3>2. CASE queue' = Enqueued(reqJob[r])
      BY <1>1, <1>5, <2>2, <3>2, QueueTypes DEF Add, Enqueued
    <3> QED  BY <1>5, <3>1, <3>2 DEF Add
  <2>4. WorldTypes'
    BY <1>5, <2>3 DEF Add, WorldTypes, budget, history
  <2>5. RequestTypes'
    <3>1. CASE NextJob(r)
      BY <1>5, <3>1, NextJobTypes DEF Add
    <3>2. CASE Step(r, "mark") /\ UNCHANGED <<reqKind, reqJob, reqTodo, reqDrafts, reqView>>
      BY <1>5, <3>2, StepTypes DEF Add, RequestSteps, RequestTypes
    <3>3. CASE ResetRequest(r)
      BY <3>3, ResetRequestTypes
    <3> QED  BY <1>5, <3>1, <3>2, <3>3 DEF Add
  <2> QED  BY <2>1, <2>4, <2>5
<1>7. CASE MarkRead(r)
  <2>1. RowTypes' /\ WorldTypes' /\ WorkerTypes'
    BY <1>7, RowTypesKept, WorldTypesKept, WorkerTypesKept DEF MarkRead
  <2>2. CASE Step(r, "markWrite") /\ UNCHANGED <<reqKind, reqJob, reqTodo, reqDrafts, reqView>>
    BY <1>7, <2>1, <2>2, StepTypes DEF MarkRead, RequestSteps, RequestTypes
  <2>3. CASE ResetRequest(r)
    BY <2>1, <2>3, ResetRequestTypes
  <2> QED  BY <1>7, <2>2, <2>3 DEF MarkRead
<1>8. CASE MarkWrite(r)
  <2>1. WorldTypes' /\ WorkerTypes'
    BY <1>8, WorldTypesKept, WorkerTypesKept DEF MarkWrite
  <2>2. RowTypes'
    BY <1>8 DEF MarkWrite, RowTypes, DeadLetterStatus
  <2> QED  BY <1>8, <2>1, <2>2, ResetRequestTypes DEF MarkWrite
<1>9. CASE Dismiss(r)
  <2>1. WorldTypes' /\ WorkerTypes'
    BY <1>9, WorldTypesKept, WorkerTypesKept DEF Dismiss
  <2>2. RowTypes'
    BY <1>9 DEF Dismiss, RowTypes, DeadLetterStatus
  <2> QED  BY <1>9, <2>1, <2>2, ResetRequestTypes DEF Dismiss
<1> QED
  BY <1>2, <1>3, <1>4, <1>5, <1>7, <1>8, <1>9 DEF RequestStep

LEMMA RequestFaultTypeStep ==
    ASSUME TypeOK, NEW r \in Requests, RequestFault(r)
    PROVE  TypeOK'
<1> USE DEF TypeOK
<1>1. RowTypes' /\ WorkerTypes'
  BY RowTypesKept, WorkerTypesKept DEF RequestFault
<1>2. mishaps' \in Nat
  BY PublishAssumption DEF RequestFault, Spend, WorldTypes
<1>3. WorldTypes'
  BY <1>2 DEF RequestFault, WorldTypes, world, history
<1> QED  BY <1>1, <1>3, ResetRequestTypes DEF RequestFault

LEMMA TypeInit == Init => TypeOK
<1> SUFFICES ASSUME Init  PROVE TypeOK
  OBVIOUS
<1> USE DEF Init, InitRest
<1>1. RowTypes
  BY DEF RowTypes, DraftStatus
<1>2. WorldTypes
  BY DEF WorldTypes, L!LockTables, L!Free
<1>3. WorkerTypes
  BY PublishAssumption DEF WorkerTypes, WorkerSteps, Outcomes, Tries
<1>4. RequestTypes
  BY DEF RequestTypes, RequestSteps
<1> QED  BY <1>1, <1>2, <1>3, <1>4 DEF TypeOK

LEMMA TypeStep == TypeOK /\ [Next]_vars => TypeOK'
<1> SUFFICES ASSUME TypeOK, [Next]_vars  PROVE TypeOK'
  OBVIOUS
<1>1. CASE Next
  <2>1. ASSUME NEW r \in Requests, Begin(r) \/ RequestStep(r) \/ RequestFault(r)
        PROVE  TypeOK'
    BY <2>1, BeginTypeStep, RequestTypeStep, RequestFaultTypeStep
  <2>2. ASSUME NEW w \in Procs, WorkerStep(w) \/ WorkerFault(w)
        PROVE  TypeOK'
    BY <2>2, WorkerTypeStep, WorkerFaultTypeStep
  <2> QED  BY <1>1, <2>1, <2>2, DisturbanceTypeStep DEF Next
<1>2. CASE UNCHANGED vars
  BY <1>2, RowTypesKept, WorldTypesKept, WorkerTypesKept, RequestTypesKept DEF vars, TypeOK
<1> QED  BY <1>1, <1>2

\* Every variable keeps its type, whatever the deployment.
THEOREM TypeCorrect == Spec => []TypeOK
<1> QED  BY TypeInit, TypeStep, PTL DEF Spec

-----------------------------------------------------------------------------
(* The lock.                                                               *)

LEMMA LockInit == Init => LockHeld
BY DEF Init, InitRest, LockHeld, Executing

\* The steps that touch neither a lock nor the place of the execution's.
LEMMA LockFrame ==
    ASSUME TypeOK, LockHeld,
           UNCHANGED <<locks, breached, cur, lockConn>>,
           \A v \in Procs : Executing(v)' => Executing(v)
    PROVE  LockHeld'
BY DEF LockHeld

\* The process w lets go of its execution and the locks of the others stay.
LEMMA LockLeft ==
    ASSUME TypeOK, LockHeld, NEW w \in Procs, Reset(w), UNCHANGED breached,
           \A v \in Procs \ {w} : Executing(v) /\ cur[v] \notin breached =>
               locks'[cur[v]].conn = locks[cur[v]].conn
    PROVE  LockHeld'
<1> SUFFICES ASSUME NEW v \in Procs, Executing(v)'
             PROVE  /\ lockConn'[v] \in Pool[v]
                    /\ cur'[v] \notin breached' => locks'[cur'[v]].conn = lockConn'[v]
  BY DEF LockHeld
<1>1. v # w
  BY DEF Reset, Executing, TypeOK, WorkerTypes
<1>2. Executing(v) /\ cur'[v] = cur[v] /\ lockConn'[v] = lockConn[v]
  BY <1>1 DEF Reset, Executing, TypeOK, WorkerTypes
<1> QED  BY <1>1, <1>2 DEF LockHeld

\* The lock of an execution of v is on none of the connections of w.
LEMMA LockElsewhere ==
    ASSUME TypeOK, LockHeld, NEW v \in Procs, NEW w \in Procs, v # w,
           Executing(v), cur[v] \notin breached
    PROVE  /\ cur[v] \in Jobs
           /\ locks[cur[v]].conn \notin Pool[w]
           /\ locks[cur[v]].conn \in Conns
           /\ NoConn \notin Conns
BY PublishAssumption DEF LockHeld, TypeOK, WorkerTypes, Executing

LEMMA LockWorkerStep ==
    ASSUME TypeOK, LockHeld, NEW w \in Procs, WorkerStep(w)
    PROVE  LockHeld'
<1>1. CASE AcquireLock(w)
  <2>1. PICK c \in Pool[w] :
          \/ /\ L!Granted(locks, cur[w], c)
             /\ locks' = L!Locked(locks, cur[w], c)
             /\ lockConn' = [lockConn EXCEPT ![w] = c]
             /\ Goto(w, "load")
             /\ UNCHANGED cur
          \/ Reset(w) /\ UNCHANGED locks
    BY <1>1 DEF AcquireLock
  <2>2. UNCHANGED breached
    BY <1>1 DEF AcquireLock, history
  <2>3. CASE Reset(w) /\ UNCHANGED locks
    BY <2>2, <2>3, LockLeft
  <2>4. CASE /\ L!Granted(locks, cur[w], c)
             /\ locks' = L!Locked(locks, cur[w], c)
             /\ lockConn' = [lockConn EXCEPT ![w] = c]
             /\ Goto(w, "load")
             /\ UNCHANGED cur
    <3>1. cur[w] \in Jobs /\ locks \in L!LockTables
      BY <1>1 DEF AcquireLock, TypeOK, WorkerTypes, WorldTypes
    <3>2. /\ locks'[cur[w]].conn = c
          /\ \A j \in Jobs : j # cur[w] => locks'[j] = locks[j]
      BY <2>4, <3>1 DEF L!Locked, L!LockTables
    <3>3. ASSUME NEW v \in Procs, Executing(v)', v # w
          PROVE  /\ lockConn'[v] \in Pool[v]
                 /\ cur'[v] \notin breached' => locks'[cur'[v]].conn = lockConn'[v]
      <4>1. Executing(v) /\ lockConn'[v] = lockConn[v] /\ cur'[v] = cur[v]
        BY <2>4, <3>3 DEF Goto, Executing, TypeOK, WorkerTypes
      <4>2. lockConn[v] \in Pool[v]
        BY <4>1 DEF LockHeld
      <4>3. ASSUME cur[v] \notin breached
            PROVE  locks'[cur[v]].conn = lockConn[v]
        <5>1. /\ cur[v] \in Jobs
              /\ locks[cur[v]].conn \notin Pool[w]
              /\ locks[cur[v]].conn # NoConn
          BY <3>3, <4>1, <4>3, LockElsewhere
        <5>2. cur[v] # cur[w]
          BY <2>1, <2>4, <5>1 DEF L!Granted
        <5> QED  BY <3>2, <4>1, <4>3, <5>1, <5>2 DEF LockHeld
      <4> QED  BY <2>2, <4>1, <4>2, <4>3
    <3>4. ASSUME Executing(w)'
          PROVE  /\ lockConn'[w] \in Pool[w]
                 /\ cur'[w] \notin breached' => locks'[cur'[w]].conn = lockConn'[w]
      BY <2>1, <2>4, <3>2 DEF TypeOK, WorkerTypes
    <3> QED  BY <3>3, <3>4 DEF LockHeld
  <2> QED  BY <2>1, <2>3, <2>4
<1>2. CASE ReleaseLock(w)
  <2>1. PICK c \in Pool[w] : locks' = L!Unlocked(locks, cur[w], c)
    BY <1>2 DEF ReleaseLock
  <2>2. Reset(w) /\ UNCHANGED breached /\ cur[w] \in Jobs /\ locks \in L!LockTables
    BY <1>2 DEF ReleaseLock, TypeOK, WorkerTypes, WorldTypes
  <2>3. ASSUME NEW j \in Jobs, locks[j].conn \notin Pool[w]
        PROVE  locks'[j] = locks[j]
    BY <2>1, <2>2, <2>3 DEF L!Unlocked, L!LockTables
  <2> QED  BY <2>2, <2>3, LockElsewhere, LockLeft
<1>3. CASE Deliver(w)
  <2>1. ASSUME NEW v \in Procs, Executing(v)'
        PROVE  Executing(v) /\ cur'[v] = cur[v] /\ UNCHANGED <<lockConn, locks, breached>>
    BY <1>3, <2>1 DEF Deliver, Goto, Executing, TypeOK, WorkerTypes, history
  <2> QED  BY <2>1 DEF LockHeld
<1>4. CASE Load(w) \/ Route(w) \/ Gate(w) \/ Post(w) \/ Skip(w) \/ Record(w) \/ Fail(w)
  <2>1. UNCHANGED <<locks, breached, cur, lockConn>> /\ Executing(w)
    BY <1>4 DEF Load, Route, Gate, Post, Skip, Record, Fail, Close, Leave, Throw, Local,
                world, history, Executing
  <2>2. \A v \in Procs \ {w} : pc'[v] = pc[v]
    BY <1>4 DEF Load, Route, Gate, Post, Skip, Record, Fail, Close, Leave, Throw, Goto,
                TypeOK, WorkerTypes
  <2> QED  BY <2>1, <2>2, LockFrame DEF Executing
<1>5. CASE \/ ReconcileRead(w) \/ ReconcileWrite(w) \/ Reward(w) \/ Charge(w) \/ Reroute(w)
           \/ Requeue(w) \/ MoveToDeadLetter(w)
  <2>1. UNCHANGED <<locks, breached, cur, lockConn>> /\ Executing(w)
    BY <1>5 DEF ReconcileRead, ReconcileWrite, Reward, Charge, Reroute, Requeue,
                MoveToDeadLetter, Leave, Throw, Local, world, history, Executing
  <2>2. \A v \in Procs \ {w} : pc'[v] = pc[v]
    BY <1>5 DEF ReconcileRead, ReconcileWrite, Reward, Charge, Reroute, Requeue,
                MoveToDeadLetter, Leave, Throw, Goto, TypeOK, WorkerTypes
  <2> QED  BY <2>1, <2>2, LockFrame DEF Executing
<1> QED
  BY <1>1, <1>2, <1>3, <1>4, <1>5 DEF WorkerStep

LEMMA LockFaultStep ==
    ASSUME TypeOK, LockHeld, NEW w \in Procs, WorkerFault(w)
    PROVE  LockHeld'
<1>1. UNCHANGED <<locks, breached>>
  BY DEF WorkerFault
<1>2. CASE Reset(w)
  BY <1>1, <1>2, LockLeft
<1>3. CASE ~ Reset(w)
  <2>1. UNCHANGED <<cur, lockConn>> /\ Executing(w)
    BY <1>3 DEF WorkerFault, Leave, Local, Executing, InInnerTry
  <2>2. \A v \in Procs \ {w} : pc'[v] = pc[v]
    BY <1>3 DEF WorkerFault, Leave, Throw, Goto, TypeOK, WorkerTypes
  <2> QED  BY <1>1, <2>1, <2>2, LockFrame DEF Executing
<1> QED  BY <1>2, <1>3

\* Only the worker and the disturbances touch what LockHeld is about.
LEMMA LockStep == TypeOK /\ LockHeld /\ [Next]_vars => LockHeld'
<1> SUFFICES ASSUME TypeOK, LockHeld, [Next]_vars  PROVE LockHeld'
  OBVIOUS
<1>1. ASSUME NEW w \in Procs, Crash(w)
      PROVE  LockHeld'
  <2>1. Reset(w) /\ UNCHANGED breached /\ locks' = L!Closed(locks, Pool[w])
    BY <1>1 DEF Crash
  <2>2. ASSUME NEW j \in Jobs, locks[j].conn \notin Pool[w]
        PROVE  locks'[j] = locks[j]
    BY <2>1, <2>2 DEF L!Closed
  <2> QED  BY <2>1, <2>2, LockElsewhere, LockLeft
<1>2. ASSUME NEW c \in Conns, Recycle(c)
      PROVE  LockHeld'
  <2> SUFFICES ASSUME NEW v \in Procs, Executing(v)'
               PROVE  /\ lockConn'[v] \in Pool[v]
                      /\ cur'[v] \notin breached' => locks'[cur'[v]].conn = lockConn'[v]
    BY DEF LockHeld
  <2>1. Executing(v) /\ cur'[v] = cur[v] /\ lockConn'[v] = lockConn[v]
    BY <1>2 DEF Recycle, worker, Executing
  <2>2. ASSUME cur[v] \notin breached'
        PROVE  locks'[cur[v]].conn = lockConn[v]
    <3>1. cur[v] \notin breached /\ lockConn[v] # c
      BY <1>2, <2>1, <2>2 DEF Recycle
    <3>2. cur[v] \in Jobs
      BY <2>1 DEF Executing, TypeOK, WorkerTypes
    <3>3. locks[cur[v]].conn = lockConn[v]
      BY <2>1, <3>1 DEF LockHeld
    <3> QED  BY <1>2, <3>1, <3>2, <3>3 DEF Recycle, L!Closed
  <2> QED  BY <2>1, <2>2 DEF LockHeld
<1>3. ASSUME NEW r \in Requests, Begin(r) \/ RequestStep(r) \/ RequestFault(r)
      PROVE  LockHeld'
  <2>1. UNCHANGED <<worker, locks, breached>>
    BY <1>3 DEF Begin, RequestStep, MakePending, ArmedRow, DraftRead, DraftWrite, Add, MarkRead,
                MarkWrite, Dismiss, RequestFault, world, history
  <2> QED  BY <2>1, LockFrame DEF worker, Executing
<1>4. ASSUME NEW a \in Accounts, DeleteAccount(a)
      PROVE  LockHeld'
  BY <1>4, LockFrame DEF DeleteAccount, worker, history, Executing
<1>5. CASE UNCHANGED vars
  BY <1>5, LockFrame DEF vars, worker, world, history, Executing
<1> QED
  BY <1>1, <1>2, <1>3, <1>4, <1>5, LockWorkerStep, LockFaultStep DEF Next

LEMMA LockExcludes == TypeOK /\ LockHeld => ExclusiveExecution
BY PublishAssumption DEF LockHeld, ExclusiveExecution, Executing

\* Two processes never execute the same job while the connection that took its
\* lock lives, whatever connections the lock and unlock queries run on.
THEOREM LockExclusion == Spec => []ExclusiveExecution
<1>1. Init => TypeOK /\ LockHeld
  BY TypeInit, LockInit
<1>2. TypeOK /\ LockHeld /\ [Next]_vars => (TypeOK /\ LockHeld)'
  BY TypeStep, LockStep
<1> QED  BY <1>1, <1>2, LockExcludes, PTL DEF Spec

-----------------------------------------------------------------------------
(* The progress of an execution.                                           *)

LEMMA PhaseWorkerStep ==
    ASSUME TypeOK, PhaseOfStep, NEW w \in Procs, WorkerStep(w) \/ WorkerFault(w)
    PROVE  PhaseOfStep'
<1> USE DEF TypeOK, WorkerTypes, PhaseOfStep
<1>1. CASE Reset(w)
  BY <1>1 DEF Reset
<1>2. CASE WorkerFault(w) /\ ~ Reset(w)
  BY <1>2 DEF WorkerFault, InInnerTry, Leave, Throw, Goto
<1>3. CASE Deliver(w) \/ Load(w) \/ Route(w) \/ Gate(w) \/ Post(w) \/ (AcquireLock(w) /\ ~ Reset(w))
  BY <1>3 DEF Deliver, Load, Route, Gate, Post, AcquireLock, Leave, Throw, Goto
<1>4. CASE Skip(w) \/ Record(w) \/ Fail(w) \/ ReconcileRead(w) \/ ReconcileWrite(w)
  BY <1>4 DEF Skip, Record, Fail, ReconcileRead, ReconcileWrite, Close, Leave, Goto
<1>5. CASE Reward(w) \/ Charge(w) \/ Reroute(w) \/ Requeue(w) \/ MoveToDeadLetter(w)
  BY <1>5 DEF Reward, Charge, Reroute, Requeue, MoveToDeadLetter, Leave, Throw, Goto
<1>6. CASE ReleaseLock(w)
  BY <1>1, <1>6 DEF ReleaseLock
<1> QED
  BY <1>1, <1>2, <1>3, <1>4, <1>5, <1>6 DEF WorkerStep

\* No step of a request changes the worker, and none but the connection pool
\* breaches a lock.
LEMMA RequestsLeaveWorkers ==
    ASSUME NEW r \in Requests, Begin(r) \/ RequestStep(r) \/ RequestFault(r)
    PROVE  UNCHANGED <<worker, locks, posts, live, cut, breached>>
BY DEF Begin, RequestStep, MakePending, ArmedRow, DraftRead, DraftWrite, Add, MarkRead,
       MarkWrite, Dismiss, RequestFault, world, history

LEMMA PhaseStep == TypeOK /\ PhaseOfStep /\ [Next]_vars => PhaseOfStep'
<1> SUFFICES ASSUME TypeOK, PhaseOfStep, [Next]_vars  PROVE PhaseOfStep'
  OBVIOUS
<1>1. CASE UNCHANGED worker
  BY <1>1 DEF worker, PhaseOfStep
<1>2. ASSUME NEW w \in Procs, Crash(w)
      PROVE  PhaseOfStep'
  BY <1>2 DEF Crash, Reset, PhaseOfStep, TypeOK, WorkerTypes
<1>3. (\E c \in Conns : Recycle(c)) \/ (\E a \in Accounts : DeleteAccount(a)) => UNCHANGED worker
  BY DEF Recycle, DeleteAccount
<1> QED
  BY <1>1, <1>2, <1>3, PhaseWorkerStep, RequestsLeaveWorkers DEF Next, vars

\* A job with an execution that has its row in hand has no other execution.
LEMMA RowInHandExclusive ==
    ASSUME TypeOK, LockHeld, PhaseOfStep, NEW v \in Procs, NEW w \in Procs, v # w,
           RowInHand(v), Executing(w), cur[v] = cur[w]
    PROVE  cur[w] \in breached
<1>1. Executing(v)
  BY DEF RowInHand, PhaseOfStep, Executing
<1> QED  BY <1>1, LockExcludes DEF ExclusiveExecution

\* The steps that take no row in hand and end no PENDING one.
LEMMA RowFrame ==
    ASSUME RowHeld,
           \A v \in Procs : RowInHand(v)' => RowInHand(v) /\ cur'[v] = cur[v],
           \A v \in Procs : status[cur[v]] = "PENDING" => status'[cur[v]] = "PENDING",
           breached \subseteq breached'
    PROVE  RowHeld'
BY DEF RowHeld

LEMMA RowCloseStep ==
    ASSUME TypeOK, LockHeld, PhaseOfStep, RowHeld, NEW w \in Procs,
           Executing(w), NEW s \in JobStatus, Close(w, s)
    PROVE  RowHeld'
<1> SUFFICES ASSUME NEW v \in Procs, RowInHand(v)', cur'[v] \notin breached'
             PROVE  status'[cur'[v]] = "PENDING"
  BY DEF RowHeld
<1>1. cur' = cur /\ breached' = breached
  BY DEF Close, history
<1>2. v # w
  BY DEF Close, Goto, RowInHand, TypeOK, WorkerTypes
<1>3. RowInHand(v)
  BY <1>2 DEF Close, Goto, RowInHand, TypeOK, WorkerTypes
<1>4. cur[v] # cur[w]
  BY <1>1, <1>2, <1>3, RowInHandExclusive
<1> QED  BY <1>1, <1>3, <1>4 DEF RowHeld, Close

LEMMA RowWorkerStep ==
    ASSUME TypeOK, LockHeld, PhaseOfStep, RowHeld, NEW w \in Procs,
           WorkerStep(w) \/ WorkerFault(w)
    PROVE  RowHeld'
<1> USE DEF TypeOK, WorkerTypes
<1>1. ASSUME Reset(w), UNCHANGED <<status, breached>>
      PROVE  RowHeld'
  BY <1>1, RowFrame DEF Reset, RowInHand
<1>2. CASE WorkerFault(w)
  <2>1. UNCHANGED <<status, breached>>
    BY <1>2 DEF WorkerFault, rows
  <2>2. CASE ~ Reset(w)
    <3>1. cur' = cur /\ phase' = phase
      BY <1>2, <2>2 DEF WorkerFault, Leave
    <3>2. \A v \in Procs : RowInHand(v)' => RowInHand(v)
      BY <1>2, <2>2, <3>1 DEF WorkerFault, InInnerTry, Leave, Throw, Goto, RowInHand, PhaseOfStep
    <3> QED  BY <2>1, <3>1, <3>2, RowFrame
  <2> QED  BY <1>1, <2>1, <2>2
<1>3. CASE Load(w)
  <2>1. UNCHANGED <<status, breached, cur>>
    BY <1>3 DEF Load, rows, history
  <2>2. \A v \in Procs \ {w} : RowInHand(v)' => RowInHand(v)
    BY <1>3 DEF Load, Leave, Goto, RowInHand
  <2>3. RowInHand(w)' => status[cur[w]] = "PENDING"
    BY <1>3 DEF Load, Leave, Goto, RowInHand
  <2> QED  BY <2>1, <2>2, <2>3 DEF RowHeld
<1>4. CASE Route(w) \/ Gate(w) \/ Post(w)
  <2>1. UNCHANGED <<status, breached, cur>> /\ RowInHand(w)
    BY <1>4 DEF Route, Gate, Post, rows, history, RowInHand, PhaseOfStep
  <2>2. \A v \in Procs \ {w} : RowInHand(v)' => RowInHand(v)
    BY <1>4 DEF Route, Gate, Post, Throw, Goto, RowInHand
  <2> QED  BY <2>1, <2>2, RowFrame
<1>5. CASE Skip(w) \/ Record(w) \/ Fail(w)
  BY <1>5, RowCloseStep DEF Skip, Record, Fail, JobStatus, Executing
<1>6. CASE Deliver(w)
  <2>1. UNCHANGED <<status, breached, phase>> /\ \A v \in Procs \ {w} : cur'[v] = cur[v]
    BY <1>6 DEF Deliver, rows, history
  <2>2. \A v \in Procs : RowInHand(v)' => v # w /\ RowInHand(v)
    BY <1>6, <2>1 DEF Deliver, Goto, RowInHand, PhaseOfStep
  <2> QED  BY <2>1, <2>2, RowFrame
<1>7. CASE AcquireLock(w) \/ ReleaseLock(w)
  <2>1. UNCHANGED <<status, breached>>
    BY <1>7 DEF AcquireLock, ReleaseLock, rows, history
  <2>2. CASE ~ Reset(w)
    <3>1. cur' = cur /\ phase' = phase /\ Goto(w, "load")
      BY <1>7, <2>2 DEF AcquireLock, ReleaseLock
    <3> QED  BY <2>1, <3>1, RowFrame DEF RowInHand, Goto
  <2> QED  BY <1>1, <2>1, <2>2
<1>8. CASE Reroute(w)
  <2>1. cur' = cur /\ breached' = breached
    BY <1>8 DEF Reroute
  <2>2. \A v \in Procs : RowInHand(v)' => RowInHand(v)
    BY <1>8 DEF Reroute, Goto, RowInHand
  <2>3. cur[w] \in Jobs
    BY <1>8 DEF Reroute
  <2>4. \A j \in Jobs : status[j] = "PENDING" => status'[j] = "PENDING"
    BY <1>8, <2>3 DEF Reroute, Arm, RowTypes
  <2>5. \A v \in Procs : RowInHand(v) => cur[v] \in Jobs
    BY DEF RowInHand, PhaseOfStep
  <2> QED  BY <2>1, <2>2, <2>4, <2>5 DEF RowHeld
<1>9. CASE \/ ReconcileRead(w) \/ ReconcileWrite(w) \/ Reward(w) \/ Charge(w)
           \/ Requeue(w) \/ MoveToDeadLetter(w)
  <2>1. UNCHANGED <<status, breached, cur, phase>>
    BY <1>9 DEF ReconcileRead, ReconcileWrite, Reward, Charge, Requeue, MoveToDeadLetter,
                rows, history
  <2>2. \A v \in Procs : RowInHand(v)' => RowInHand(v)
    BY <1>9, <2>1 DEF ReconcileRead, ReconcileWrite, Reward, Charge, Requeue, MoveToDeadLetter,
                Leave, Throw, Goto, RowInHand, PhaseOfStep
  <2> QED  BY <2>1, <2>2, RowFrame
<1> QED
  BY <1>2, <1>3, <1>4, <1>5, <1>6, <1>7, <1>8, <1>9 DEF WorkerStep

\* A request touches a row only to make it PENDING.
LEMMA RequestEffect ==
    ASSUME TypeOK, NEW r \in Requests, Begin(r) \/ RequestStep(r) \/ RequestFault(r)
    PROVE  \/ UNCHANGED <<status, armed>>
           \/ reqPc[r] = "arm" /\ reqJob[r] \in Jobs /\ Arm(reqJob[r])
BY DEF Begin, RequestStep, MakePending, ArmedRow, DraftRead, DraftWrite, Add, MarkRead,
       MarkWrite, Dismiss, RequestFault, rows, history, TypeOK, RequestTypes

LEMMA RowStep ==
    TypeOK /\ LockHeld /\ PhaseOfStep /\ RowHeld /\ [Next]_vars => RowHeld'
<1> SUFFICES ASSUME TypeOK, LockHeld, PhaseOfStep, RowHeld, [Next]_vars  PROVE RowHeld'
  OBVIOUS
<1>1. ASSUME NEW w \in Procs, Crash(w)
      PROVE  RowHeld'
  <2>1. UNCHANGED <<status, breached>> /\ Reset(w)
    BY <1>1 DEF Crash, rows
  <2> QED  BY <2>1, RowFrame DEF Reset, RowInHand, TypeOK, WorkerTypes
<1>2. ASSUME NEW r \in Requests, Begin(r) \/ RequestStep(r) \/ RequestFault(r)
      PROVE  RowHeld'
  <2>1. UNCHANGED <<worker, breached>>
    BY <1>2, RequestsLeaveWorkers
  <2>2. \A j \in Jobs : status[j] = "PENDING" => status'[j] = "PENDING"
    BY <1>2, RequestEffect DEF Arm, TypeOK, RowTypes
  <2>3. \A v \in Procs : RowInHand(v) => cur[v] \in Jobs
    BY DEF RowInHand, PhaseOfStep, TypeOK, WorkerTypes
  <2> QED  BY <2>1, <2>2, <2>3 DEF RowHeld, RowInHand, worker
<1>3. ASSUME UNCHANGED <<worker, status>>, breached \subseteq breached'
      PROVE  RowHeld'
  BY <1>3, RowFrame DEF RowInHand, worker
<1>4. (\E c \in Conns : Recycle(c)) \/ (\E a \in Accounts : DeleteAccount(a)) \/ UNCHANGED vars
        => UNCHANGED <<worker, status>> /\ breached \subseteq breached'
  BY DEF Recycle, DeleteAccount, vars, rows, history
<1> QED
  BY <1>1, <1>2, <1>3, <1>4, RowWorkerStep DEF Next

-----------------------------------------------------------------------------
(* Posts.                                                                  *)

\* Only Post touches posts, and it only adds.
LEMMA PostsGrow ==
    ASSUME TypeOK, [Next]_vars
    PROVE  /\ \A j \in Jobs : posts[j] \in Nat /\ posts'[j] \in Nat /\ posts'[j] >= posts[j]
           /\ (\A w \in Procs : ~ Post(w)) => UNCHANGED posts
<1>1. \A j \in Jobs : posts[j] \in Nat
  BY DEF TypeOK, WorldTypes
<1>2. ASSUME NEW w \in Procs, WorkerStep(w), ~ Post(w)
      PROVE  UNCHANGED posts
  <2>1. CASE Deliver(w) \/ AcquireLock(w) \/ Load(w) \/ Route(w) \/ Gate(w) \/ Skip(w)
             \/ Record(w) \/ Fail(w)
    BY <2>1 DEF Deliver, AcquireLock, Load, Route, Gate, Skip, Record, Fail, Close, world
  <2>2. CASE ReconcileRead(w) \/ ReconcileWrite(w) \/ Reward(w) \/ Charge(w) \/ Reroute(w)
             \/ Requeue(w) \/ MoveToDeadLetter(w) \/ ReleaseLock(w)
    BY <2>2 DEF ReconcileRead, ReconcileWrite, Reward, Charge, Reroute, Requeue,
                MoveToDeadLetter, ReleaseLock, world
  <2> QED  BY <1>2, <2>1, <2>2 DEF WorkerStep
<1>3. ASSUME NEW w \in Procs, WorkerFault(w) \/ Crash(w)
      PROVE  UNCHANGED posts
  BY <1>3 DEF WorkerFault, Crash
<1>4. (\E c \in Conns : Recycle(c)) \/ (\E a \in Accounts : DeleteAccount(a)) => UNCHANGED posts
  BY DEF Recycle, DeleteAccount
<1>5. UNCHANGED vars => UNCHANGED posts
  BY DEF vars, world
<1>6. (\A w \in Procs : ~ Post(w)) => UNCHANGED posts
  BY <1>2, <1>3, <1>4, <1>5, RequestsLeaveWorkers DEF Next
<1>7. ASSUME NEW w \in Procs, Post(w), NEW j \in Jobs
      PROVE  posts'[j] \in Nat /\ posts'[j] >= posts[j]
  BY <1>1, <1>7 DEF Post, TypeOK, WorldTypes
<1> QED  BY <1>1, <1>6, <1>7

\* Only Post gives an execution a post, and it gives it to the provider too.
LEMMA PostedStep == TypeOK /\ PhaseOfStep /\ PostedAccepted /\ [Next]_vars => PostedAccepted'
<1> SUFFICES ASSUME TypeOK, PhaseOfStep, PostedAccepted, [Next]_vars,
                    NEW w \in Procs, phase'[w] = "posted"
             PROVE  posts'[cur'[w]] > 0
  BY DEF PostedAccepted
<1> USE DEF TypeOK, WorkerTypes
<1>1. ASSUME phase[w] = "posted", cur'[w] = cur[w]
      PROVE  posts'[cur'[w]] > 0
  <2>1. cur[w] \in Jobs /\ posts[cur[w]] > 0
    BY <1>1 DEF PostedAccepted, PhaseOfStep
  <2> QED  BY <1>1, <2>1, PostsGrow
<1>2. CASE UNCHANGED worker
  BY <1>1, <1>2 DEF worker
<1>3. ASSUME NEW v \in Procs, Crash(v) \/ WorkerFault(v)
      PROVE  phase[w] = "posted" /\ cur'[w] = cur[w]
  BY <1>3 DEF Crash, WorkerFault, Reset, Leave
<1>4. ASSUME NEW v \in Procs, WorkerStep(v)
      PROVE  posts'[cur'[w]] > 0
  <2>1. CASE Post(v)
    <3>1. CASE v = w /\ phase[w] # "posted"
      BY <2>1, <3>1 DEF Post, WorldTypes
    <3>2. CASE v # w \/ phase[w] = "posted"
      BY <1>1, <2>1, <3>2 DEF Post
    <3> QED  BY <3>1, <3>2
  <2>2. CASE Deliver(v)
    <3>1. phase' = phase /\ v # w /\ cur'[w] = cur[w]
      BY <2>2 DEF Deliver, PhaseOfStep
    <3> QED  BY <1>1, <3>1
  <2>3. CASE \/ AcquireLock(v) \/ Load(v) \/ Route(v) \/ Gate(v) \/ Skip(v)
             \/ Record(v) \/ Fail(v)
    BY <1>1, <2>3 DEF AcquireLock, Load, Route, Gate, Skip, Record, Fail, Close, Reset
  <2>4. CASE ReconcileRead(v) \/ ReconcileWrite(v) \/ Reward(v) \/ Charge(v) \/ Reroute(v)
             \/ Requeue(v) \/ MoveToDeadLetter(v) \/ ReleaseLock(v)
    BY <1>1, <2>4 DEF ReconcileRead, ReconcileWrite, Reward, Charge, Reroute, Requeue,
                      MoveToDeadLetter, ReleaseLock, Reset
  <2> QED  BY <1>4, <2>1, <2>2, <2>3, <2>4 DEF WorkerStep
<1>5. (\E c \in Conns : Recycle(c)) \/ (\E a \in Accounts : DeleteAccount(a)) => UNCHANGED worker
  BY DEF Recycle, DeleteAccount
<1> QED
  BY <1>1, <1>2, <1>3, <1>4, <1>5, RequestsLeaveWorkers DEF Next, vars

\* Only Record makes a row SUCCESS.
LEMMA SuccessOnlyRecorded ==
    ASSUME TypeOK, [Next]_vars, NEW j \in Jobs, status'[j] = "SUCCESS"
    PROVE  \/ status[j] = "SUCCESS"
           \/ \E w \in Procs : pc[w] = "record" /\ cur[w] = j
<1> USE DEF TypeOK, RowTypes
<1>1. ASSUME NEW w \in Procs, WorkerStep(w)
      PROVE  \/ status[j] = "SUCCESS"
             \/ pc[w] = "record" /\ cur[w] = j
  <2>1. CASE Skip(w) \/ Record(w) \/ Fail(w)
    BY <2>1 DEF Skip, Record, Fail, Close
  <2>2. CASE Reroute(w)
    BY <2>2 DEF Reroute, Arm
  <2>3. CASE Deliver(w) \/ AcquireLock(w) \/ Load(w) \/ Route(w) \/ Gate(w) \/ Post(w)
             \/ ReconcileRead(w) \/ ReconcileWrite(w)
    BY <2>3 DEF Deliver, AcquireLock, Load, Route, Gate, Post, ReconcileRead, ReconcileWrite, rows
  <2>4. CASE Reward(w) \/ Charge(w) \/ Requeue(w) \/ MoveToDeadLetter(w) \/ ReleaseLock(w)
    BY <2>4 DEF Reward, Charge, Requeue, MoveToDeadLetter, ReleaseLock, rows
  <2> QED  BY <1>1, <2>1, <2>2, <2>3, <2>4 DEF WorkerStep
<1>2. ASSUME NEW w \in Procs, WorkerFault(w) \/ Crash(w)
      PROVE  status[j] = "SUCCESS"
  BY <1>2 DEF WorkerFault, Crash, rows
<1>3. ASSUME NEW r \in Requests, Begin(r) \/ RequestStep(r) \/ RequestFault(r)
      PROVE  status[j] = "SUCCESS"
  BY <1>3, RequestEffect DEF Arm
<1>4. (\E c \in Conns : Recycle(c)) \/ (\E a \in Accounts : DeleteAccount(a)) \/ UNCHANGED vars
        => status[j] = "SUCCESS"
  BY DEF Recycle, DeleteAccount, vars, rows
<1> QED  BY <1>1, <1>2, <1>3, <1>4 DEF Next

LEMMA SuccessStep ==
    TypeOK /\ PhaseOfStep /\ PostedAccepted /\ SuccessWasPosted /\ [Next]_vars
        => SuccessWasPosted'
<1> SUFFICES ASSUME TypeOK, PhaseOfStep, PostedAccepted, SuccessWasPosted, [Next]_vars,
                    NEW j \in Jobs, status'[j] = "SUCCESS"
             PROVE  posts'[j] > 0
  BY DEF SuccessWasPosted
<1>1. posts[j] > 0
  BY SuccessOnlyRecorded DEF SuccessWasPosted, PostedAccepted, PhaseOfStep
<1> QED  BY <1>1, PostsGrow

\* A row says SUCCESS only after the provider has accepted the job's post,
\* through every retry, replay, crash and lost lock.
THEOREM SuccessesWerePosted == Spec => []SuccessWasPosted
<1>1. Init => TypeOK /\ PhaseOfStep /\ PostedAccepted /\ SuccessWasPosted
  <2>1. None # "SUCCESS"
    BY PublishAssumption DEF JobStatus
  <2> QED  BY <2>1, TypeInit DEF Init, InitRest, PhaseOfStep, PostedAccepted, SuccessWasPosted
<1>2. TypeOK /\ PhaseOfStep /\ PostedAccepted /\ SuccessWasPosted /\ [Next]_vars
        => (TypeOK /\ PhaseOfStep /\ PostedAccepted /\ SuccessWasPosted)'
  BY TypeStep, PhaseStep, PostedStep, SuccessStep
<1> QED  BY <1>1, <1>2, PTL DEF Spec

-----------------------------------------------------------------------------
(* Every post is authorised: posts + Credit <= armed + cut.                *)

LEMMA CreditBound == \A j : Credit(j) \in {0, 1}
BY DEF Credit

\* The credit of a job does not grow while its row stays and no execution
\* forgets a post of it.
LEMMA CreditKept ==
    ASSUME NEW j \in Jobs, status'[j] = status[j],
           \A w \in Procs : cur[w] = j /\ phase[w] = "posted" => cur'[w] = j /\ phase'[w] = "posted"
    PROVE  Credit(j)' <= Credit(j)
BY DEF Credit

\* The ledger of a job over a step.
LEMMA Ledger ==
    ASSUME TypeOK, TypeOK', PostsAuthorised, NEW j \in Jobs \ breached,
           \/ posts'[j] = posts[j] /\ Credit(j)' <= Credit(j)
           \/ posts'[j] = posts[j] /\ armed'[j] + cut'[j] > armed[j] + cut[j]
           \/ posts'[j] = posts[j] + 1 /\ Credit(j) = 1 /\ Credit(j)' = 0,
           armed'[j] >= armed[j], cut'[j] >= cut[j]
    PROVE  posts'[j] + Credit(j)' <= armed'[j] + cut'[j]
<1>1. posts[j] + Credit(j) <= armed[j] + cut[j]
  BY DEF PostsAuthorised
<1>2. /\ posts[j] \in Nat /\ armed[j] \in Nat /\ cut[j] \in Nat
      /\ posts'[j] \in Nat /\ armed'[j] \in Nat /\ cut'[j] \in Nat
  BY DEF TypeOK, WorldTypes
<1>3. Credit(j) \in {0, 1} /\ Credit(j)' \in {0, 1}
  BY DEF Credit
<1> QED  BY <1>1, <1>2, <1>3

\* The worker ends its execution: a post it has not written is cut off.
LEMMA LedgerLeft ==
    ASSUME TypeOK, TypeOK', PhaseOfStep, PostsAuthorised, NEW w \in Procs, Reset(w), CutOff(w),
           UNCHANGED <<status, posts, armed>>, NEW j \in Jobs \ breached
    PROVE  posts'[j] + Credit(j)' <= armed'[j] + cut'[j]
<1>1. armed'[j] >= armed[j]
  BY DEF TypeOK, WorldTypes
<1>2. CASE phase[w] = "posted" /\ cur[w] = j
  <2>1. cut'[j] = cut[j] + 1 /\ cut[j] \in Nat /\ armed[j] \in Nat
    BY <1>2 DEF CutOff, TypeOK, WorldTypes
  <2> QED  BY <1>1, <2>1, Ledger
<1>3. CASE ~ (phase[w] = "posted" /\ cur[w] = j)
  <2>1. cut'[j] = cut[j] /\ cut[j] \in Nat
    BY <1>3 DEF CutOff, TypeOK, WorldTypes
  <2>2. Credit(j)' <= Credit(j)
    BY <1>3, CreditKept DEF Reset, TypeOK, WorkerTypes
  <2> QED  BY <1>1, <2>1, <2>2, Ledger
<1> QED  BY <1>2, <1>3

LEMMA LedgerWorkerStep ==
    ASSUME TypeOK, TypeOK', LockHeld, PhaseOfStep, RowHeld, PostsAuthorised,
           NEW w \in Procs, WorkerStep(w) \/ WorkerFault(w), NEW j \in Jobs \ breached
    PROVE  posts'[j] + Credit(j)' <= armed'[j] + cut'[j]
<1>0. armed[j] \in Nat /\ cut[j] \in Nat
  BY DEF TypeOK, WorldTypes
<1>1. ASSUME UNCHANGED <<posts, armed, cut>>, status'[j] = status[j],
             \A v \in Procs : cur[v] = j /\ phase[v] = "posted" => cur'[v] = j /\ phase'[v] = "posted"
      PROVE  posts'[j] + Credit(j)' <= armed'[j] + cut'[j]
  BY <1>0, <1>1, CreditKept, Ledger
<1>2. CASE Reset(w) /\ WorkerFault(w)
  <2>1. UNCHANGED <<status, posts, armed>>
    BY <1>2 DEF WorkerFault, rows
  <2>2. CASE CutOff(w)
    BY <1>2, <2>1, <2>2, LedgerLeft
  <2>3. CASE ~ CutOff(w)
    <3>1. UNCHANGED <<cut, cur, phase>>
      BY <1>2, <2>3 DEF WorkerFault
    <3> QED  BY <1>1, <2>1, <3>1
  <2> QED  BY <2>2, <2>3
<1>3. CASE ~ Reset(w) /\ WorkerFault(w)
  BY <1>1, <1>3 DEF WorkerFault, rows, Leave
<1>4. CASE Deliver(w) \/ AcquireLock(w)
  <2>1. phase[w] # "posted" /\ \A v \in Procs \ {w} : cur'[v] = cur[v] /\ phase'[v] = phase[v]
    BY <1>4 DEF Deliver, AcquireLock, PhaseOfStep, Reset, TypeOK, WorkerTypes
  <2>2. UNCHANGED <<posts, armed, cut, status>>
    BY <1>4 DEF Deliver, AcquireLock, history, rows
  <2> QED  BY <1>1, <2>1, <2>2
<1>5. CASE Load(w) \/ Route(w) \/ Gate(w)
  <2>1. phase[w] # "posted" /\ cur' = cur /\ \A v \in Procs \ {w} : phase'[v] = phase[v]
    BY <1>5 DEF Load, Route, Gate, PhaseOfStep, TypeOK, WorkerTypes, Leave
  <2>2. UNCHANGED <<posts, armed, cut, status>>
    BY <1>5 DEF Load, Route, Gate, history, rows, world
  <2> QED  BY <1>1, <2>1, <2>2
<1>6. CASE Post(w)
  <2>1. UNCHANGED <<armed, cut, status, cur>>
    BY <1>6 DEF Post, history, rows
  <2>2. CASE UNCHANGED <<posts, phase>>
    BY <1>1, <2>1, <2>2
  <2>3. CASE /\ posts' = [posts EXCEPT ![cur[w]] = @ + 1]
             /\ phase' = [phase EXCEPT ![w] = "posted"]
    <3>1. CASE cur[w] # j
      <4>1. posts'[j] = posts[j]
        BY <2>3, <3>1 DEF TypeOK, WorldTypes
      <4>2. Credit(j)' <= Credit(j)
        <5>1. \A v \in Procs \ {w} : phase'[v] = phase[v]
          BY <2>3
        <5> QED  BY <2>1, <3>1, <5>1, CreditKept
      <4> QED  BY <1>0, <2>1, <4>1, <4>2, Ledger
    <3>2. CASE cur[w] = j
      <4>1. posts'[j] = posts[j] + 1
        BY <2>3, <3>2 DEF TypeOK, WorldTypes
      <4>2. Credit(j)' = 0
        BY <2>1, <2>3, <3>2 DEF Credit, TypeOK, WorkerTypes
      <4>3. status[j] = "PENDING" /\ Executing(w) /\ phase[w] = "fresh"
        BY <1>6, <3>2 DEF Post, RowHeld, RowInHand, Executing, PhaseOfStep
      <4>4. \A v \in Procs : ~ (cur[v] = j /\ phase[v] = "posted")
        BY <3>2, <4>3, RowInHandExclusive DEF RowInHand
      <4>5. Credit(j) = 1
        BY <4>3, <4>4 DEF Credit
      <4> QED  BY <1>0, <2>1, <4>1, <4>2, <4>5, Ledger
    <3> QED  BY <3>1, <3>2
  <2> QED  BY <1>6, <2>2, <2>3 DEF Post
<1>7. CASE Skip(w) \/ Record(w) \/ Fail(w)
  <2>1. UNCHANGED <<posts, armed, cut, cur>> /\ \A v \in Procs \ {w} : phase'[v] = phase[v]
    BY <1>7 DEF Skip, Record, Fail, Close, history, world, TypeOK, WorkerTypes
  <2>2. CASE cur[w] # j
    <3>1. status'[j] = status[j]
      BY <1>7, <2>2 DEF Skip, Record, Fail, Close, TypeOK, RowTypes
    <3>2. Credit(j)' <= Credit(j)
      BY <2>1, <2>2, <3>1, CreditKept
    <3> QED  BY <1>0, <2>1, <3>2, Ledger
  <2>3. CASE cur[w] = j
    <3>1. status'[j] # "PENDING"
      BY <1>7, <2>3 DEF Skip, Record, Fail, Close, TypeOK, RowTypes
    <3>2. Credit(j)' <= Credit(j)
      BY <3>1 DEF Credit
    <3> QED  BY <1>0, <2>1, <3>2, Ledger
  <2> QED  BY <2>2, <2>3
<1>8. CASE Reroute(w)
  <2>1. UNCHANGED <<posts, cut, cur>> /\ \A v \in Procs \ {w} : phase'[v] = phase[v]
    BY <1>8 DEF Reroute, world, TypeOK, WorkerTypes
  <2>2. CASE UNCHANGED <<status, armed, phase>>
    BY <1>1, <2>1, <2>2
  <2>3. CASE Arm(cur[w])
    <3>1. CASE cur[w] # j
      <4>1. armed'[j] = armed[j] /\ status'[j] = status[j]
        BY <2>3, <3>1 DEF Arm, TypeOK, WorldTypes, RowTypes
      <4>2. Credit(j)' <= Credit(j)
        BY <2>1, <3>1, <4>1, CreditKept
      <4> QED  BY <1>0, <2>1, <4>1, <4>2, Ledger
    <3>2. CASE cur[w] = j
      <4>1. armed'[j] = armed[j] + 1
        BY <2>3, <3>2 DEF Arm, TypeOK, WorldTypes
      <4> QED  BY <1>0, <2>1, <4>1, Ledger
    <3> QED  BY <3>1, <3>2
  <2> QED  BY <1>8, <2>2, <2>3 DEF Reroute
<1>9. CASE \/ ReconcileRead(w) \/ ReconcileWrite(w) \/ Reward(w) \/ Charge(w)
           \/ Requeue(w) \/ MoveToDeadLetter(w)
  <2>1. UNCHANGED <<posts, armed, cut, status, cur, phase>>
    BY <1>9 DEF ReconcileRead, ReconcileWrite, Reward, Charge, Requeue, MoveToDeadLetter,
                rows, history, world
  <2> QED  BY <1>1, <2>1
<1>10. CASE ReleaseLock(w)
  <2>1. UNCHANGED <<status, posts, armed>> /\ Reset(w) /\ CutOff(w)
    BY <1>10 DEF ReleaseLock, rows
  <2> QED  BY <2>1, LedgerLeft
<1> QED
  BY <1>2, <1>3, <1>4, <1>5, <1>6, <1>7, <1>8, <1>9, <1>10 DEF WorkerStep

LEMMA LedgerStep ==
    ASSUME TypeOK, TypeOK', LockHeld, PhaseOfStep, RowHeld, PostsAuthorised, [Next]_vars
    PROVE  PostsAuthorised'
<1> SUFFICES ASSUME NEW j \in Jobs \ breached'
             PROVE  posts'[j] + Credit(j)' <= armed'[j] + cut'[j]
  BY DEF PostsAuthorised
<1>0. armed[j] \in Nat /\ cut[j] \in Nat
  BY DEF TypeOK, WorldTypes
<1>1. ASSUME NEW w \in Procs, WorkerStep(w) \/ WorkerFault(w)
      PROVE  posts'[j] + Credit(j)' <= armed'[j] + cut'[j]
  <2>1. CASE breached' = breached
    BY <1>1, <2>1, LedgerWorkerStep
  <2>2. breached' = breached
    BY <1>1 DEF WorkerStep, WorkerFault, Deliver, AcquireLock, Load, Route, Gate, Post, Skip,
                Record, Fail, Close, ReconcileRead, ReconcileWrite, Reward, Charge, Reroute,
                Requeue, MoveToDeadLetter, ReleaseLock, history
  <2> QED  BY <2>1, <2>2
<1>2. ASSUME NEW w \in Procs, Crash(w)
      PROVE  posts'[j] + Credit(j)' <= armed'[j] + cut'[j]
  <2>1. UNCHANGED <<status, posts, armed, breached>> /\ Reset(w) /\ CutOff(w)
    BY <1>2 DEF Crash, rows
  <2> QED  BY <2>1, LedgerLeft
<1>3. ASSUME UNCHANGED <<worker, status, posts, armed, cut>>, j \notin breached
      PROVE  posts'[j] + Credit(j)' <= armed'[j] + cut'[j]
  BY <1>0, <1>3, CreditKept, Ledger DEF worker
<1>4. ASSUME NEW r \in Requests, Begin(r) \/ RequestStep(r) \/ RequestFault(r)
      PROVE  posts'[j] + Credit(j)' <= armed'[j] + cut'[j]
  <2>1. UNCHANGED <<worker, posts, cut, breached>>
    BY <1>4, RequestsLeaveWorkers
  <2>2. CASE UNCHANGED <<status, armed>>
    BY <1>3, <2>1, <2>2
  <2>3. CASE Arm(reqJob[r]) /\ reqJob[r] # j
    <3>1. armed'[j] = armed[j] /\ status'[j] = status[j]
      BY <2>3 DEF Arm, TypeOK, WorldTypes, RowTypes
    <3>2. Credit(j)' <= Credit(j)
      BY <2>1, <3>1, CreditKept DEF worker
    <3> QED  BY <1>0, <2>1, <3>1, <3>2, Ledger
  <2>4. CASE Arm(reqJob[r]) /\ reqJob[r] = j
    <3>1. armed'[j] = armed[j] + 1
      BY <2>4 DEF Arm, TypeOK, WorldTypes
    <3> QED  BY <1>0, <2>1, <3>1, Ledger
  <2> QED  BY <1>4, <2>2, <2>3, <2>4, RequestEffect
<1>5. (\E c \in Conns : Recycle(c)) \/ (\E a \in Accounts : DeleteAccount(a)) \/ UNCHANGED vars
        => UNCHANGED <<worker, status, posts, armed, cut>> /\ breached \subseteq breached'
  BY DEF Recycle, DeleteAccount, vars, rows, world, history
<1> QED
  BY <1>1, <1>2, <1>3, <1>4, <1>5 DEF Next

-----------------------------------------------------------------------------
(* The inductive invariant.                                                *)

LEMMA InvInit == Init => IInv
<1> SUFFICES ASSUME Init  PROVE IInv
  OBVIOUS
<1>1. None # "SUCCESS" /\ None # "PENDING"
  BY PublishAssumption DEF JobStatus
<1>2. PostsAuthorised
  <2> SUFFICES ASSUME NEW j \in Jobs  PROVE posts[j] + Credit(j) <= armed[j] + cut[j]
    BY DEF PostsAuthorised
  <2>1. Credit(j) = 0
    BY <1>1 DEF Init, Credit
  <2> QED  BY <2>1 DEF Init, InitRest
<1> QED
  BY <1>1, <1>2, TypeInit, LockInit
     DEF IInv, Init, InitRest, PhaseOfStep, RowHeld, RowInHand, PostedAccepted, SuccessWasPosted

LEMMA InvStep == IInv /\ [Next]_vars => IInv'
BY TypeStep, LockStep, PhaseStep, RowStep, PostedStep, SuccessStep, LedgerStep DEF IInv

\* The invariant the safety properties rest on holds in every deployment.
THEOREM Invariant == Spec => []IInv
BY InvInit, InvStep, PTL DEF Spec

\* A job is posted at most once per time its row was made PENDING, plus once
\* per execution cut off between its post and the write that records it.
THEOREM NoUnauthorisedPost == Spec => []PostsAuthorised
<1>1. IInv => PostsAuthorised
  BY DEF IInv
<1> QED  BY <1>1, Invariant, PTL

=============================================================================
