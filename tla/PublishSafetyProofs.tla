------------------------- MODULE PublishSafetyProofs -------------------------
(***************************************************************************)
(* What follows from the invariant of PublishJobsProofs: a recorded        *)
(* success is undone by a stale write only; a job goes through the         *)
(* lifecycle of JobLifecycle; and, until the first disturbance, failures   *)
(* get their dead letters.                                                 *)
(***************************************************************************)
EXTENDS PublishJobsProofs

-----------------------------------------------------------------------------
(* The requests, and what they may do to a recorded success.               *)

LEMMA NextJobShaped ==
    ASSUME TypeOK, RequestsShaped, NEW r \in Requests, reqPc[r] # "idle", NextJob(r)
    PROVE  RequestsShaped'
<1> SUFFICES ASSUME NEW q \in Requests, reqPc'[q] # "idle"
             PROVE  /\ reqKind'[q] \in RequestKinds
                    /\ reqKind'[q] \notin {"schedule", "window"} => reqTodo'[q] \subseteq {reqJob'[q]}
                    /\ reqKind'[q] \in {"dispatch", "dismiss"} => reqPc'[q] # "arm"
  BY DEF RequestsShaped
<1> USE DEF TypeOK, RequestTypes, NextJob, Step, ResetRequest
<1>1. CASE q # r
  BY <1>1 DEF RequestsShaped
<1>2. CASE q = r
  <2>1. reqKind'[r] = reqKind[r]
    BY <1>2
  <2>2. CASE reqTodo[r] \ {reqJob[r]} # {}
    BY <1>2, <2>1, <2>2 DEF RequestsShaped
  <2>3. CASE reqTodo[r] \ {reqJob[r]} = {}
    BY <1>2, <2>1, <2>3 DEF RequestsShaped
  <2> QED  BY <2>2, <2>3
<1> QED  BY <1>1, <1>2

LEMMA ShapedStep == TypeOK /\ RequestsShaped /\ [Next]_vars => RequestsShaped'
<1> SUFFICES ASSUME TypeOK, RequestsShaped, [Next]_vars  PROVE RequestsShaped'
  OBVIOUS
<1> USE DEF TypeOK, RequestTypes
<1>1. CASE UNCHANGED request
  BY <1>1 DEF request, RequestsShaped
<1>2. ASSUME NEW w \in Procs, WorkerStep(w) \/ WorkerFault(w)
      PROVE  UNCHANGED request
  BY <1>2 DEF WorkerStep, WorkerFault, Deliver, AcquireLock, Load, Route, Gate, Post, Skip,
              Record, Fail, Close, ReconcileRead, ReconcileWrite, Reward, Charge, Reroute,
              Requeue, MoveToDeadLetter, ReleaseLock
<1>3. ASSUME NEW w \in Procs, Crash(w)
      PROVE  RequestsShaped'
  BY <1>3 DEF Crash, RequestsShaped
<1>4. (\E c \in Conns : Recycle(c)) \/ (\E a \in Accounts : DeleteAccount(a)) \/ UNCHANGED vars
        => UNCHANGED request
  BY DEF Recycle, DeleteAccount, vars
<1>5. ASSUME NEW r \in Requests, Begin(r)
      PROVE  RequestsShaped'
  <2>1. PICK kind \in Handlers, js \in SUBSET Jobs, j \in Jobs :
          /\ kind \notin {"schedule", "window"} => js = {j}
          /\ reqKind' = [reqKind EXCEPT ![r] = kind]
          /\ reqJob' = [reqJob EXCEPT ![r] = j]
          /\ reqTodo' = [reqTodo EXCEPT ![r] = js]
          /\ reqPc' = [reqPc EXCEPT ![r] = FirstStep(kind)]
    BY <1>5 DEF Begin, Step
  <2>2. kind \in RequestKinds
    BY PublishAssumption
  <2>3. kind \in {"dispatch", "dismiss"} => FirstStep(kind) # "arm"
    BY DEF FirstStep
  <2> QED  BY <2>1, <2>2, <2>3 DEF RequestsShaped
<1>6. ASSUME NEW r \in Requests, ResetRequest(r)
      PROVE  RequestsShaped'
  BY <1>6 DEF ResetRequest, RequestsShaped
<1>7. ASSUME NEW r \in Requests, reqPc[r] # "idle", NEW step \in RequestSteps \ {"arm"},
             Step(r, step), UNCHANGED <<reqKind, reqJob, reqTodo>>
      PROVE  RequestsShaped'
  BY <1>7 DEF Step, RequestsShaped
<1>8. ASSUME NEW r \in Requests, RequestStep(r) \/ RequestFault(r)
      PROVE  RequestsShaped'
  <2>1. CASE RequestFault(r) \/ Dismiss(r)
    BY <1>6, <2>1 DEF RequestFault, Dismiss
  <2>2. CASE MakePending(r) \/ DraftRead(r) \/ DraftWrite(r)
    <3>1. \/ NextJob(r)
          \/ \E step \in {"reconcile", "settle", "add"} :
                Step(r, step) /\ UNCHANGED <<reqKind, reqJob, reqTodo>>
      BY <2>2 DEF MakePending, ArmedRow, DraftRead, DraftWrite
    <3>2. reqPc[r] # "idle"
      BY <2>2 DEF MakePending, DraftRead, DraftWrite
    <3> QED  BY <1>7, <3>1, <3>2, NextJobShaped DEF RequestSteps
  <2>3. CASE Add(r) \/ MarkRead(r) \/ MarkWrite(r)
    <3>1. \/ NextJob(r) \/ ResetRequest(r)
          \/ \E step \in {"mark", "markWrite"} :
                Step(r, step) /\ UNCHANGED <<reqKind, reqJob, reqTodo>>
      BY <2>3 DEF Add, MarkRead, MarkWrite
    <3>2. reqPc[r] # "idle"
      BY <2>3 DEF Add, MarkRead, MarkWrite
    <3> QED  BY <1>6, <1>7, <3>1, <3>2, NextJobShaped DEF RequestSteps
  <2> QED  BY <1>8, <2>1, <2>2, <2>3 DEF RequestStep
<1> QED  BY <1>1, <1>2, <1>3, <1>4, <1>5, <1>8 DEF Next

\* The steps that change the status of a job.
LEMMA StatusChange ==
    ASSUME TypeOK, [Next]_vars, NEW j \in Jobs, status'[j] # status[j]
    PROVE  \/ \E w \in Procs : cur[w] = j /\ (Skip(w) \/ Record(w) \/ Fail(w) \/ Reroute(w))
           \/ \E r \in Requests : reqJob[r] = j /\ reqPc[r] = "arm" /\ MakePending(r) /\ Arm(j)
<1> USE DEF TypeOK, RowTypes
<1>1. ASSUME NEW w \in Procs, WorkerStep(w)
      PROVE  cur[w] = j /\ (Skip(w) \/ Record(w) \/ Fail(w) \/ Reroute(w))
  <2>1. CASE Skip(w) \/ Record(w) \/ Fail(w)
    BY <2>1 DEF Skip, Record, Fail, Close
  <2>2. CASE Reroute(w)
    BY <2>2 DEF Reroute, Arm
  <2>3. CASE Deliver(w) \/ AcquireLock(w) \/ Load(w) \/ Route(w) \/ Gate(w) \/ Post(w)
             \/ ReconcileRead(w) \/ ReconcileWrite(w)
    BY <2>3 DEF Deliver, AcquireLock, Load, Route, Gate, Post, ReconcileRead, ReconcileWrite, rows
  <2>4. CASE Reward(w) \/ Charge(w) \/ Requeue(w) \/ MoveToDeadLetter(w) \/ ReleaseLock(w)
    BY <2>4 DEF Reward, Charge, Requeue, MoveToDeadLetter, ReleaseLock, rows
  <2> QED  BY <1>1, <2>1, <2>2, <2>3, <2>4 DEF WorkerStep
<1>2. ASSUME NEW w \in Procs, WorkerFault(w) \/ Crash(w)
      PROVE  FALSE
  BY <1>2 DEF WorkerFault, Crash, rows
<1>3. ASSUME NEW r \in Requests, Begin(r) \/ RequestStep(r) \/ RequestFault(r)
      PROVE  reqJob[r] = j /\ reqPc[r] = "arm" /\ MakePending(r) /\ Arm(j)
  <2>1. MakePending(r) /\ ArmedRow(r)
    BY <1>3 DEF Begin, RequestStep, MakePending, DraftRead, DraftWrite, Add, MarkRead, MarkWrite,
                Dismiss, RequestFault, rows
  <2> QED  BY <2>1 DEF MakePending, ArmedRow, Arm
<1>4. (\E c \in Conns : Recycle(c)) \/ (\E a \in Accounts : DeleteAccount(a)) \/ UNCHANGED vars
        => FALSE
  BY DEF Recycle, DeleteAccount, vars, rows
<1> QED  BY <1>1, <1>2, <1>3, <1>4 DEF Next

LEMMA UndoneStep ==
    ASSUME TypeOK, RowHeld, PhaseOfStep, RequestsShaped, [Next]_vars,
           NEW j \in Jobs, status[j] = "SUCCESS", status'[j] # "SUCCESS"
    PROVE  \/ \E r \in Requests : reqPc[r] = "arm" /\ reqJob[r] = j /\ reqKind[r] \in Unguarded
           \/ \E w \in Procs : /\ cur[w] = j /\ phase[w] = "closed"
                               /\ pc[w] \in {"fail", "reroute"}
           \/ j \in breached
<1>1. ASSUME NEW w \in Procs, cur[w] = j, Skip(w) \/ Record(w) \/ Fail(w) \/ Reroute(w)
      PROVE  (phase[w] = "closed" /\ pc[w] \in {"fail", "reroute"}) \/ j \in breached
  <2>1. CASE RowInHand(w)
    BY <1>1, <2>1 DEF RowHeld
  <2>2. CASE ~ RowInHand(w) /\ (Skip(w) \/ Record(w))
    <3>1. FALSE
      BY <2>2 DEF Skip, Record, RowInHand, PhaseOfStep
    <3> QED  BY <3>1
  <2>3. CASE ~ RowInHand(w) /\ (Fail(w) \/ Reroute(w))
    BY <2>3 DEF Fail, Reroute, RowInHand, TypeOK, WorkerTypes
  <2> QED  BY <1>1, <2>1, <2>2, <2>3
<1>2. ASSUME NEW r \in Requests, reqJob[r] = j, reqPc[r] = "arm", MakePending(r), Arm(j)
      PROVE  reqKind[r] \in Unguarded
  <2>1. reqKind[r] \notin {"schedule", "window"}
    <3>1. status[j] # "FAILED" /\ status[j] # None
      BY PublishAssumption DEF JobStatus
    <3> QED  BY <1>2, <3>1 DEF MakePending, rows
  <2> QED  BY <1>2, <2>1 DEF RequestsShaped, RequestKinds, Unguarded
<1> QED  BY <1>1, <1>2, StatusChange

\* A recorded success is undone only by a handler that arms the row on an older
\* read, or by the execution that recorded it, once an await after that fails;
\* no other worker and no window replay does it while the lock is held.
THEOREM SuccessesUndone == Spec => SuccessUndoneOnlyByStaleWrite
<1>1. Init => RequestsShaped
  BY DEF Init, InitRest, RequestsShaped
<1>2. IInv /\ RequestsShaped /\ [Next]_vars =>
        [\A j \in Jobs :
           status[j] = "SUCCESS" /\ status'[j] # "SUCCESS" =>
             \/ \E r \in Requests : reqPc[r] = "arm" /\ reqJob[r] = j /\ reqKind[r] \in Unguarded
             \/ \E w \in Procs : /\ cur[w] = j /\ phase[w] = "closed"
                                 /\ pc[w] \in {"fail", "reroute"}
             \/ j \in breached]_vars
  BY UndoneStep DEF IInv
<1>3. IInv => TypeOK
  BY DEF IInv
<1> QED  BY <1>1, <1>2, <1>3, Invariant, ShapedStep, PTL DEF Spec, SuccessUndoneOnlyByStaleWrite

-----------------------------------------------------------------------------
(* The lifecycle of a job: PublishJobs implements JobLifecycle.            *)

\* Every lifecycle variable but the permits is a variable of PublishJobs; the
\* permits of a job follow its two histories.
Permits == [j \in Jobs |-> armed[j] + cut[j]]

LEMMA PermitsKept ==
    ASSUME UNCHANGED <<armed, cut>>
    PROVE  Permits' = Permits
BY DEF Permits

LEMMA OnePermitMore ==
    ASSUME TypeOK, NEW j \in Jobs,
           \/ armed' = [armed EXCEPT ![j] = @ + 1] /\ UNCHANGED cut
           \/ cut' = [cut EXCEPT ![j] = @ + 1] /\ UNCHANGED armed
    PROVE  Permits' = [Permits EXCEPT ![j] = @ + 1]
<1> DEFINE more == [Permits EXCEPT ![j] = @ + 1]
<1>1. \A i \in Jobs : armed[i] \in Nat /\ cut[i] \in Nat
  BY DEF TypeOK, WorldTypes
<1>2. ASSUME NEW i \in Jobs
      PROVE  Permits'[i] = more[i]
  <2>1. more[i] = IF i = j THEN armed[i] + cut[i] + 1 ELSE armed[i] + cut[i]
    BY DEF Permits
  <2>2. armed \in [Jobs -> Nat] /\ cut \in [Jobs -> Nat]
    BY DEF TypeOK, WorldTypes
  <2>3. armed'[i] + cut'[i] = IF i = j THEN armed[i] + cut[i] + 1 ELSE armed[i] + cut[i]
    BY <1>1, <2>2
  <2>4. Permits'[i] = armed'[i] + cut'[i]
    BY DEF Permits
  <2> QED  BY <2>1, <2>3, <2>4
<1>3. DOMAIN Permits' = Jobs /\ DOMAIN more = Jobs
  BY DEF Permits
<1>4. Permits' = [i \in Jobs |-> Permits'[i]] /\ more = [i \in Jobs |-> more[i]]
  BY DEF Permits
<1> HIDE DEF more
<1>5. Permits' = more
  BY <1>2, <1>4
<1> QED  BY <1>5 DEF more

\* An execution that ends: its post, if it has not written it, is forgotten.
LEMMA LifeCutOff ==
    ASSUME IInv, NEW w \in Procs, CutOff(w), UNCHANGED <<status, posts, armed, breached>>
    PROVE  [Life!Next]_(Life!lifecycle)
<1> USE DEF IInv
<1>1. CASE phase[w] = "posted"
  <2>1. PICK j \in Jobs : j = cur[w]
    BY <1>1 DEF PhaseOfStep, TypeOK, WorkerTypes
  <2>2. cut' = [cut EXCEPT ![j] = @ + 1]
    BY <1>1, <2>1 DEF CutOff
  <2>3. Permits' = [Permits EXCEPT ![j] = @ + 1]
    BY <2>2, OnePermitMore
  <2>4. Life!Forget(j)
    BY <1>1, <2>1, <2>3 DEF Life!Forget, Permits, PostedAccepted
  <2> QED  BY <2>4 DEF Life!Next
<1>2. CASE phase[w] # "posted"
  <2>1. Permits' = Permits
    BY <1>2, PermitsKept DEF CutOff
  <2> QED  BY <2>1 DEF Life!lifecycle, Permits
<1> QED  BY <1>1, <1>2

LEMMA LifeKept ==
    ASSUME UNCHANGED <<status, posts, armed, cut, breached>>
    PROVE  [Life!Next]_(Life!lifecycle)
BY PermitsKept DEF Life!lifecycle, Permits

LEMMA LifeArm ==
    ASSUME TypeOK, NEW j \in Jobs, Arm(j), UNCHANGED <<posts, cut, breached>>
    PROVE  [Life!Next]_(Life!lifecycle)
<1>1. Permits' = [Permits EXCEPT ![j] = @ + 1]
  BY OnePermitMore DEF Arm
<1>2. Life!Authorise(j)
  BY <1>1 DEF Life!Authorise, Arm, Permits
<1> QED  BY <1>2 DEF Life!Next

LEMMA LifePost ==
    ASSUME IInv, NEW w \in Procs, Post(w)
    PROVE  [Life!Next]_(Life!lifecycle)
<1> DEFINE j == cur[w]
<1>1. UNCHANGED <<status, armed, cut, breached>> /\ pc[w] = "post" /\ j \in Jobs
  BY DEF Post, rows, history, IInv, TypeOK, WorkerTypes
<1>2. CASE UNCHANGED posts
  BY <1>1, <1>2, LifeKept
<1>3. CASE posts' = [posts EXCEPT ![j] = @ + 1]
  <2>1. j \notin breached => status[j] = "PENDING" /\ posts[j] < armed[j] + cut[j]
    <3> SUFFICES ASSUME j \notin breached
                 PROVE  status[j] = "PENDING" /\ posts[j] < armed[j] + cut[j]
      OBVIOUS
    <3>1. RowInHand(w) /\ Executing(w) /\ phase[w] # "posted"
      BY <1>1 DEF IInv, PhaseOfStep, RowInHand, Executing
    <3>2. status[j] = "PENDING"
      BY <3>1 DEF IInv, RowHeld
    <3>3. \A v \in Procs : ~ (cur[v] = j /\ phase[v] = "posted")
      BY <3>1, RowInHandExclusive DEF IInv, RowInHand
    <3>4. Credit(j) = 1
      BY <3>2, <3>3 DEF Credit
    <3>5. posts[j] \in Nat /\ armed[j] \in Nat /\ cut[j] \in Nat
      BY <1>1 DEF IInv, TypeOK, WorldTypes
    <3> QED  BY <1>1, <3>2, <3>4, <3>5 DEF IInv, PostsAuthorised
  <2>2. Permits' = Permits
    BY <1>1, PermitsKept
  <2>3. Life!Publish(j)
    BY <1>1, <1>3, <2>1, <2>2 DEF Life!Publish, Permits
  <2> QED  BY <1>1, <2>3 DEF Life!Next
<1> QED  BY <1>2, <1>3 DEF Post

LEMMA LifeClose ==
    ASSUME IInv, RowLoaded, NEW w \in Procs, Skip(w) \/ Record(w) \/ Fail(w)
    PROVE  [Life!Next]_(Life!lifecycle)
<1> DEFINE j == cur[w]
<1>1. /\ UNCHANGED <<posts, armed, cut, breached>> /\ pc[w] \in {"skip", "record", "fail"}
      /\ j \in Jobs
  BY DEF Skip, Record, Fail, Close, world, history, IInv, TypeOK, WorkerTypes
<1>2. Permits' = Permits
  BY <1>1, PermitsKept
<1>3. RowInHand(w) => j \in breached \/ status[j] = "PENDING"
  BY DEF IInv, RowHeld
<1>4. CASE Skip(w)
  <2>1. RowInHand(w)
    BY <1>4 DEF Skip, IInv, PhaseOfStep, RowInHand
  <2>2. Life!Skip(j)
    BY <1>1, <1>2, <1>3, <1>4, <2>1 DEF Skip, Close, Life!Skip, Life!Ends, Permits
  <2> QED  BY <1>1, <2>2 DEF Life!Next
<1>5. CASE Record(w)
  <2>1. RowInHand(w) /\ posts[j] > 0
    BY <1>5 DEF Record, IInv, PhaseOfStep, PostedAccepted, RowInHand
  <2>2. Life!Succeed(j)
    BY <1>1, <1>2, <1>3, <1>5, <2>1 DEF Record, Close, Life!Succeed, Life!Ends, Permits
  <2> QED  BY <1>1, <2>2 DEF Life!Next
<1>6. CASE Fail(w)
  <2>1. status[j] # None
    BY <1>6 DEF Fail, RowLoaded
  <2>2. Life!Fail(j)
    BY <1>1, <1>2, <1>6, <2>1 DEF Fail, Close, Life!Fail, Life!Ends, Permits
  <2> QED  BY <1>1, <2>2 DEF Life!Next
<1> QED  BY <1>4, <1>5, <1>6

LEMMA LifeWorkerStep ==
    ASSUME IInv, RowLoaded, NEW w \in Procs, WorkerStep(w)
    PROVE  [Life!Next]_(Life!lifecycle)
<1>1. CASE Post(w)
  BY <1>1, LifePost
<1>2. CASE Skip(w) \/ Record(w) \/ Fail(w)
  BY <1>2, LifeClose
<1>3. CASE Reroute(w)
  <2>1. UNCHANGED <<posts, cut, breached>> /\ cur[w] \in Jobs
    BY <1>3 DEF Reroute, world, IInv, TypeOK, WorkerTypes
  <2>2. Arm(cur[w]) \/ UNCHANGED <<status, armed>>
    BY <1>3 DEF Reroute
  <2> QED  BY <2>1, <2>2, LifeArm, LifeKept DEF IInv
<1>4. CASE ReleaseLock(w)
  BY <1>4, LifeCutOff DEF ReleaseLock, rows
<1>5. CASE \/ Deliver(w) \/ AcquireLock(w) \/ Load(w) \/ Route(w) \/ Gate(w)
           \/ ReconcileRead(w) \/ ReconcileWrite(w)
  BY <1>5, LifeKept DEF Deliver, AcquireLock, Load, Route, Gate, ReconcileRead, ReconcileWrite,
                        rows, world, history
<1>6. CASE Reward(w) \/ Charge(w) \/ Requeue(w) \/ MoveToDeadLetter(w)
  BY <1>6, LifeKept DEF Reward, Charge, Requeue, MoveToDeadLetter, rows, world, history
<1> QED  BY <1>1, <1>2, <1>3, <1>4, <1>5, <1>6 DEF WorkerStep

\* The status of a row that exists never goes back to None.
LEMMA RowsStay ==
    ASSUME TypeOK, [Next]_vars, NEW j \in Jobs, status[j] # None
    PROVE  status'[j] # None
<1>1. None \notin JobStatus /\ "PENDING" \in JobStatus /\ "SUCCESS" \in JobStatus
      /\ "FAILED" \in JobStatus /\ "SKIPPED" \in JobStatus
  BY PublishAssumption DEF JobStatus
<1> QED
  BY <1>1, StatusChange DEF Skip, Record, Fail, Close, Reroute, Arm, TypeOK, RowTypes

LEMMA LoadedStep == TypeOK /\ RowLoaded /\ [Next]_vars => RowLoaded'
<1> SUFFICES ASSUME TypeOK, RowLoaded, [Next]_vars,
                    NEW w \in Procs, pc'[w] \notin {"idle", "lock", "load", "unlock", "throw"}
             PROVE  status'[cur'[w]] # None
  BY DEF RowLoaded
<1> USE DEF TypeOK, WorkerTypes
<1>1. ASSUME pc[w] \notin {"idle", "lock", "load", "unlock", "throw"}, cur'[w] = cur[w]
      PROVE  status'[cur'[w]] # None
  BY <1>1, RowsStay DEF RowLoaded
<1>2. CASE UNCHANGED worker
  BY <1>1, <1>2 DEF worker
<1>3. ASSUME NEW v \in Procs, Crash(v)
      PROVE  pc[w] = pc'[w] /\ cur'[w] = cur[w]
  BY <1>3 DEF Crash, Reset
<1>4. ASSUME NEW v \in Procs, WorkerFault(v)
      PROVE  pc[w] \notin {"idle", "lock", "load", "unlock", "throw"} /\ cur'[w] = cur[w]
  BY <1>4 DEF WorkerFault, InInnerTry, Reset, Leave, Throw, Goto
<1>5. ASSUME NEW v \in Procs, WorkerStep(v)
      PROVE  status'[cur'[w]] # None
  <2>1. CASE Load(v)
    <3>1. CASE v = w
      <4>1. status[cur[w]] = "PENDING" /\ cur'[w] = cur[w] /\ cur[w] \in Jobs
        BY <2>1, <3>1 DEF Load, Leave, Goto
      <4>2. "PENDING" # None
        BY PublishAssumption DEF JobStatus
      <4> QED  BY <4>1, <4>2, RowsStay
    <3>2. CASE v # w
      BY <1>1, <2>1, <3>2 DEF Load, Leave, Goto
    <3> QED  BY <3>1, <3>2
  <2>2. CASE Deliver(v) \/ AcquireLock(v) \/ ReleaseLock(v)
    BY <1>1, <2>2 DEF Deliver, AcquireLock, ReleaseLock, Reset, Goto
  <2>3. CASE Route(v) \/ Gate(v) \/ Post(v) \/ Skip(v) \/ Record(v) \/ Fail(v)
    BY <1>1, <2>3 DEF Route, Gate, Post, Skip, Record, Fail, Close, Throw, Goto
  <2>4. CASE ReconcileRead(v) \/ ReconcileWrite(v) \/ Reward(v) \/ Charge(v) \/ Reroute(v)
             \/ Requeue(v) \/ MoveToDeadLetter(v)
    BY <1>1, <2>4 DEF ReconcileRead, ReconcileWrite, Reward, Charge, Reroute, Requeue,
                      MoveToDeadLetter, Leave, Throw, Goto
  <2> QED  BY <1>5, <2>1, <2>2, <2>3, <2>4 DEF WorkerStep
<1>6. (\E c \in Conns : Recycle(c)) \/ (\E a \in Accounts : DeleteAccount(a)) => UNCHANGED worker
  BY DEF Recycle, DeleteAccount
<1> QED
  BY <1>1, <1>2, <1>3, <1>4, <1>5, <1>6, RequestsLeaveWorkers DEF Next, vars

LEMMA LifeStep == IInv /\ RowLoaded /\ [Next]_vars => [Life!Next]_(Life!lifecycle)
<1> SUFFICES ASSUME IInv, RowLoaded, [Next]_vars  PROVE [Life!Next]_(Life!lifecycle)
  OBVIOUS
<1>1. ASSUME NEW w \in Procs, WorkerFault(w)
      PROVE  [Life!Next]_(Life!lifecycle)
  <2>1. UNCHANGED <<status, posts, armed, breached>>
    BY <1>1 DEF WorkerFault, rows
  <2>2. CutOff(w) \/ UNCHANGED cut
    BY <1>1 DEF WorkerFault
  <2> QED  BY <2>1, <2>2, LifeCutOff, LifeKept
<1>2. ASSUME NEW w \in Procs, Crash(w)
      PROVE  [Life!Next]_(Life!lifecycle)
  BY <1>2, LifeCutOff DEF Crash, rows
<1>3. ASSUME NEW r \in Requests, Begin(r) \/ RequestStep(r) \/ RequestFault(r)
      PROVE  [Life!Next]_(Life!lifecycle)
  BY <1>3, RequestsLeaveWorkers, RequestEffect, LifeArm, LifeKept DEF IInv
<1>4. ASSUME NEW c \in Conns, Recycle(c)
      PROVE  [Life!Next]_(Life!lifecycle)
  <2> DEFINE js == {cur[w] : w \in {w \in Procs : Executing(w) /\ lockConn[w] = c}}
  <2>1. js \in SUBSET Jobs
    BY DEF Executing, IInv, TypeOK, WorkerTypes
  <2>2. UNCHANGED <<status, posts, armed, cut>> /\ breached' = breached \cup js
    BY <1>4 DEF Recycle, rows
  <2>3. Permits' = Permits
    BY <2>2, PermitsKept
  <2>4. Life!Loosen(js)
    BY <2>2, <2>3 DEF Life!Loosen, Permits
  <2> QED  BY <2>1, <2>4 DEF Life!Next
<1>5. ASSUME (\E a \in Accounts : DeleteAccount(a)) \/ UNCHANGED vars
      PROVE  [Life!Next]_(Life!lifecycle)
  BY <1>5, LifeKept DEF DeleteAccount, vars, rows, world, history
<1> QED  BY <1>1, <1>2, <1>3, <1>4, <1>5, LifeWorkerStep DEF Next

\* What the subsystem does to a job is what JobLifecycle allows: posts only
\* while PENDING and within the permits, a SUCCESS only after a post, a terminal
\* status left only by failing after all or by a new permit, in every deployment.
THEOREM LifecycleImplemented == Spec => JobsFollowLifecycle
<1>1. Init => Life!Init
  <2> SUFFICES ASSUME Init  PROVE Life!Init
    OBVIOUS
  <2>1. \A j \in Jobs : status[j] = None /\ armed[j] + cut[j] = 0
    BY DEF Init, InitRest
  <2>2. [j \in Jobs |-> armed[j] + cut[j]] = [j \in Jobs |-> IF status[j] = None THEN 0 ELSE 1]
    BY <2>1
  <2> QED  BY <2>2 DEF Init, InitRest, Life!Init
<1>2. Init => RowLoaded
  BY DEF Init, InitRest, RowLoaded
<1>3. IInv => TypeOK
  BY DEF IInv
<1> QED
  BY <1>1, <1>2, <1>3, Invariant, LoadedStep, LifeStep, PTL
     DEF Spec, JobsFollowLifecycle, Life!Spec

-----------------------------------------------------------------------------
(* Without a disturbance.                                                  *)

LEMMA OutcomeStep == TypeOK /\ OutcomeOfStep /\ [Next]_vars => OutcomeOfStep'
<1> SUFFICES ASSUME TypeOK, OutcomeOfStep, [Next]_vars  PROVE OutcomeOfStep'
  OBVIOUS
<1> USE DEF TypeOK, WorkerTypes, OutcomeOfStep
<1>1. ASSUME NEW w \in Procs, Reset(w)
      PROVE  OutcomeOfStep'
  BY <1>1 DEF Reset
<1>2. ASSUME NEW w \in Procs, WorkerFault(w)
      PROVE  OutcomeOfStep'
  <2>1. CASE Reset(w)
    BY <1>1, <2>1
  <2>2. CASE ~ Reset(w)
    BY <1>2, <2>2 DEF WorkerFault, Leave, Throw, Goto, InfraErrors, Errors
  <2> QED  BY <2>1, <2>2
<1>3. ASSUME NEW w \in Procs, WorkerStep(w)
      PROVE  OutcomeOfStep'
  <2>1. CASE Deliver(w) \/ Load(w) \/ Route(w) \/ Gate(w) \/ Post(w)
             \/ (AcquireLock(w) /\ ~ Reset(w))
    BY <2>1 DEF Deliver, Load, Route, Gate, Post, AcquireLock, Leave, Throw, Goto,
                InfraErrors, Errors
  <2>2. CASE Skip(w) \/ Record(w) \/ Fail(w) \/ ReconcileRead(w) \/ ReconcileWrite(w)
    BY <2>2 DEF Skip, Record, Fail, ReconcileRead, ReconcileWrite, Close, Leave, Goto,
                Outcomes, Errors
  <2>3. CASE Reward(w) \/ Charge(w) \/ Reroute(w) \/ Requeue(w) \/ MoveToDeadLetter(w)
    BY <2>3 DEF Reward, Charge, Reroute, Requeue, MoveToDeadLetter, Leave, Throw, Goto, Errors
  <2>4. CASE ReleaseLock(w)
    BY <1>1, <2>4 DEF ReleaseLock
  <2> QED  BY <1>1, <1>3, <2>1, <2>2, <2>3, <2>4 DEF WorkerStep
<1>4. CASE UNCHANGED worker
  BY <1>4 DEF worker
<1>5. (\E c \in Conns : Recycle(c)) \/ (\E a \in Accounts : DeleteAccount(a)) => UNCHANGED worker
  BY DEF Recycle, DeleteAccount
<1>6. \A w \in Procs : Crash(w) => Reset(w)
  BY DEF Crash
<1> QED
  BY <1>1, <1>2, <1>3, <1>4, <1>5, <1>6, RequestsLeaveWorkers DEF Next, vars

\* Every disturbance is counted, so before the first there are only the steps
\* of the workers and the requests.
LEMMA Undisturbed ==
    ASSUME TypeOK, [Next]_vars, mishaps' = 0
    PROVE  /\ mishaps = 0
           /\ \/ \E w \in Procs : WorkerStep(w)
              \/ \E r \in Requests : Begin(r) \/ RequestStep(r)
              \/ UNCHANGED vars
<1>1. mishaps \in Nat
  BY DEF TypeOK, WorldTypes
<1>2. \A m : ~ Spend(m)
  BY <1>1 DEF Spend
<1>3. /\ \A w \in Procs : ~ WorkerFault(w) /\ ~ Crash(w)
      /\ \A r \in Requests : ~ RequestFault(r)
      /\ \A c \in Conns : ~ Recycle(c)
      /\ \A a \in Accounts : ~ DeleteAccount(a)
  BY <1>2 DEF WorkerFault, Crash, RequestFault, Recycle, DeleteAccount
<1>4. ASSUME NEW w \in Procs, WorkerStep(w)
      PROVE  UNCHANGED mishaps
  <2>1. CASE Skip(w) \/ Record(w) \/ Fail(w)
    BY <2>1 DEF Skip, Record, Fail, Close, budget
  <2>2. CASE \/ Deliver(w) \/ AcquireLock(w) \/ Load(w) \/ Route(w) \/ Gate(w) \/ Post(w)
             \/ ReconcileRead(w) \/ ReconcileWrite(w)
    BY <2>2 DEF Deliver, AcquireLock, Load, Route, Gate, Post, ReconcileRead, ReconcileWrite, budget
  <2>3. CASE \/ Reward(w) \/ Charge(w) \/ Reroute(w) \/ Requeue(w) \/ MoveToDeadLetter(w)
             \/ ReleaseLock(w)
    BY <2>3 DEF Reward, Charge, Reroute, Requeue, MoveToDeadLetter, ReleaseLock, budget
  <2> QED  BY <1>4, <2>1, <2>2, <2>3 DEF WorkerStep
<1>5. ASSUME NEW r \in Requests, Begin(r) \/ RequestStep(r)
      PROVE  UNCHANGED mishaps
  BY <1>5 DEF Begin, RequestStep, MakePending, ArmedRow, DraftRead, DraftWrite, Add, MarkRead,
              MarkWrite, Dismiss, budget
<1> QED  BY <1>3, <1>4, <1>5 DEF Next, vars, budget

\* What a request does is to its own row: made PENDING with its attempts kept or
\* cleared, or nothing that a worker relies on.
LEMMA RequestOnRow ==
    ASSUME TypeOK, NEW r \in Requests, Begin(r) \/ RequestStep(r)
    PROVE  /\ UNCHANGED <<worker, locks, live, breached>>
           /\ \A j \in Jobs :
                /\ account'[j] = account[j] \/ account'[j] \in Accounts
                /\ attempts'[j] \in {attempts[j], 0}
                /\ deadLetter[j] # None => deadLetter'[j] # None
                /\ status'[j] = "PENDING" \/ (status'[j] = status[j] /\ attempts'[j] = attempts[j])
<1> USE DEF TypeOK, RowTypes, WorldTypes
<1>1. UNCHANGED <<worker, locks, live, breached>>
  BY RequestsLeaveWorkers
<1>2. None \notin {"REPLAYED", "DISMISSED"}
  BY PublishAssumption DEF DeadLetterStatus
<1>3. CASE Begin(r) \/ DraftRead(r) \/ DraftWrite(r) \/ Add(r) \/ MarkRead(r)
  BY <1>1, <1>3 DEF Begin, DraftRead, DraftWrite, Add, MarkRead, rows
<1>4. CASE MarkWrite(r) \/ Dismiss(r)
  BY <1>1, <1>2, <1>4 DEF MarkWrite, Dismiss
<1>5. CASE MakePending(r) /\ ~ ArmedRow(r)
  BY <1>1, <1>5 DEF MakePending, rows
<1>6. CASE ArmedRow(r)
  BY <1>1, <1>6 DEF ArmedRow, Arm
<1> QED  BY <1>3, <1>4, <1>5, <1>6 DEF RequestStep

\* A step of w leaves the other workers alone, and counts an attempt only on the
\* row of its own execution.
LEMMA WorkerOnRow ==
    ASSUME TypeOK, NEW w \in Procs, WorkerStep(w)
    PROVE  /\ UNCHANGED <<live, breached>>
           /\ \A v \in Procs \ {w} : /\ pc'[v] = pc[v] /\ cur'[v] = cur[v] /\ phase'[v] = phase[v]
                                     /\ outcome'[v] = outcome[v] /\ snapAttempts'[v] = snapAttempts[v]
           /\ \A j \in Jobs :
                /\ account'[j] = account[j] \/ account'[j] \in Accounts
                /\ deadLetter[j] # None => deadLetter'[j] # None
                /\ \/ attempts'[j] = attempts[j] /\ status'[j] = status[j]
                   \/ /\ j = cur[w] /\ Executing(w) /\ attempts'[j] = attempts[j] + 1
                      /\ status'[j] = "FAILED" => Fail(w)
<1> USE DEF TypeOK, RowTypes, WorldTypes, WorkerTypes
<1>1. CASE Deliver(w) \/ AcquireLock(w) \/ ReleaseLock(w)
  BY <1>1 DEF Deliver, AcquireLock, ReleaseLock, Reset, Goto, rows, history
<1>2. CASE Load(w) \/ Route(w) \/ Gate(w) \/ Post(w)
  BY <1>2 DEF Load, Route, Gate, Post, Leave, Throw, Goto, rows, world, history, Local
<1>3. CASE Skip(w) \/ Record(w) \/ Fail(w)
  <2>1. /\ UNCHANGED <<account, deadLetter, live, breached>> /\ cur[w] \in Jobs /\ Executing(w)
        /\ \A v \in Procs \ {w} : /\ pc'[v] = pc[v] /\ cur'[v] = cur[v] /\ phase'[v] = phase[v]
                                  /\ outcome'[v] = outcome[v] /\ snapAttempts'[v] = snapAttempts[v]
    BY <1>3 DEF Skip, Record, Fail, Close, Goto, Local, world, history, Executing
  <2>2. ASSUME NEW j \in Jobs
        PROVE  \/ attempts'[j] = attempts[j] /\ status'[j] = status[j]
               \/ /\ j = cur[w] /\ attempts'[j] = attempts[j] + 1
                  /\ status'[j] = "FAILED" => Fail(w)
    BY <1>3 DEF Skip, Record, Fail, Close
  <2> QED  BY <2>1, <2>2
<1>4. CASE ReconcileRead(w) \/ ReconcileWrite(w) \/ Reward(w) \/ Charge(w) \/ Requeue(w)
  BY <1>4 DEF ReconcileRead, ReconcileWrite, Reward, Charge, Requeue, Leave, Throw, Goto,
              rows, world, history, Local
<1>5. CASE Reroute(w)
  BY <1>5 DEF Reroute, Arm, Goto, Local, world, Executing
<1>6. CASE MoveToDeadLetter(w)
  <2>1. "OPEN" # None
    BY PublishAssumption DEF DeadLetterStatus
  <2> QED  BY <1>6, <2>1 DEF MoveToDeadLetter, Leave, Goto, world, history
<1> QED  BY <1>1, <1>2, <1>3, <1>4, <1>5, <1>6 DEF WorkerStep

\* The own part of DeadLettersOwed for the worker that steps.
LEMMA OwnAccount ==
    ASSUME IInv, OutcomeOfStep, DeadLettersOwed, NEW w \in Procs, WorkerStep(w), UsesAccount(w)'
    PROVE  account'[cur'[w]] # NoAccount
<1> USE DEF IInv, TypeOK, RowTypes, WorkerTypes
<1>1. NoAccount \notin Accounts /\ live = Accounts
  BY PublishAssumption DEF DeadLettersOwed
<1>2. ASSUME UsesAccount(w), cur'[w] = cur[w], cur[w] \in Jobs
      PROVE  account'[cur'[w]] # NoAccount
  BY <1>1, <1>2, WorkerOnRow DEF DeadLettersOwed
<1>3. CASE Route(w)
  BY <1>1, <1>3 DEF Route, Throw, Goto, UsesAccount
<1>4. CASE Gate(w) \/ Post(w) \/ Record(w)
  BY <1>2, <1>4 DEF Gate, Post, Record, Close, UsesAccount
<1>5. CASE Skip(w) \/ Fail(w)
  <2>1. outcome'[w] # "posted" /\ pc'[w] = "reconcile"
    BY <1>5 DEF Skip, Fail, Close, Goto, OutcomeOfStep, Errors
  <2> QED  BY <2>1 DEF UsesAccount
<1>6. CASE ReconcileRead(w) \/ ReconcileWrite(w)
  BY <1>2, <1>6 DEF ReconcileRead, ReconcileWrite, Goto, Leave, UsesAccount
<1>7. CASE \/ Deliver(w) \/ Load(w) \/ Charge(w) \/ Reroute(w) \/ Requeue(w)
           \/ MoveToDeadLetter(w) \/ AcquireLock(w) \/ ReleaseLock(w) \/ Reward(w)
  <2>1. pc'[w] \notin {"gate", "post", "record", "reconcile", "settle", "reward"}
    BY <1>7 DEF Deliver, Load, Charge, Reroute, Requeue, MoveToDeadLetter, AcquireLock,
                ReleaseLock, Reward, Leave, Throw, Goto, Reset
  <2> QED  BY <2>1 DEF UsesAccount
<1> QED  BY <1>3, <1>4, <1>5, <1>6, <1>7 DEF WorkerStep

LEMMA OwnProgress ==
    ASSUME IInv, OutcomeOfStep, DeadLettersOwed, NEW w \in Procs, WorkerStep(w)
    PROVE  /\ phase'[w] = "closed" => pc'[w] \notin {"charge", "reroute", "fail"}
           /\ pc'[w] # "throw"
<1> USE DEF IInv, TypeOK, RowTypes, WorkerTypes, PhaseOfStep, DeadLettersOwed
<1>1. CASE Deliver(w) \/ AcquireLock(w) \/ Load(w) \/ Route(w) \/ Gate(w) \/ Post(w)
  BY <1>1 DEF Deliver, AcquireLock, Load, Route, Gate, Post, Reset, Leave, Throw, Goto
<1>2. CASE Skip(w) \/ Record(w) \/ Fail(w) \/ ReconcileRead(w) \/ ReconcileWrite(w)
  BY <1>2 DEF Skip, Record, Fail, ReconcileRead, ReconcileWrite, Close, Leave, Goto
<1>3. CASE Reward(w)
  <2>1. account[cur[w]] # NoAccount
    BY <1>3 DEF Reward, UsesAccount, OutcomeOfStep
  <2> QED  BY <1>3, <2>1 DEF Reward, Leave, Goto
<1>4. CASE Charge(w)
  BY <1>4 DEF Charge, Leave, Goto
<1>5. CASE Reroute(w) \/ Requeue(w) \/ MoveToDeadLetter(w) \/ ReleaseLock(w)
  BY <1>5 DEF Reroute, Requeue, MoveToDeadLetter, ReleaseLock, Leave, Goto, Reset
<1> QED  BY <1>1, <1>2, <1>3, <1>4, <1>5 DEF WorkerStep

\* Nobody but the execution counts attempts on the row it has in hand.
LEMMA OwnAttempts ==
    ASSUME IInv, DeadLettersOwed, NEW w \in Procs, WorkerStep(w), RowInHand(w)', pc'[w] # "unlock"
    PROVE  attempts'[cur'[w]] <= snapAttempts'[w]
<1> USE DEF IInv, TypeOK, RowTypes, WorkerTypes, PhaseOfStep
<1>1. ASSUME RowInHand(w), pc[w] # "unlock", UNCHANGED <<cur, attempts, snapAttempts>>
      PROVE  attempts'[cur'[w]] <= snapAttempts'[w]
  BY <1>1 DEF DeadLettersOwed
<1>2. CASE Load(w)
  <2>1. cur[w] \in Jobs /\ UNCHANGED <<cur, attempts>> /\ attempts[cur[w]] \in Nat
    BY <1>2 DEF Load, rows
  <2>2. status[cur[w]] = "PENDING"
    BY <1>2 DEF Load, Leave, RowInHand
  <2>3. snapAttempts'[w] = attempts[cur[w]]
    BY <1>2, <2>2 DEF Load
  <2> QED  BY <2>1, <2>3
<1>3. CASE Route(w) \/ Gate(w) \/ Post(w)
  BY <1>1, <1>3 DEF Route, Gate, Post, rows, Local, RowInHand
<1>4. CASE Charge(w)
  <2>1. UNCHANGED <<cur, attempts, phase>> /\ RowInHand(w)
    BY <1>4 DEF Charge, rows, DeadLettersOwed, RowInHand
  <2>2. UNCHANGED snapAttempts
    BY <1>4 DEF Charge, Local, DeadLettersOwed
  <2> QED  BY <1>1, <1>4, <2>1, <2>2 DEF Charge
<1>5. CASE Reroute(w)
  <2>1. RowInHand(w) /\ Goto(w, "fail") /\ UNCHANGED <<cur, attempts, snapAttempts>>
    BY <1>5 DEF Reroute, RowInHand, Local, DeadLettersOwed
  <2> QED  BY <1>1, <1>5, <2>1 DEF Reroute
<1>6. CASE Skip(w) \/ Record(w) \/ Fail(w)
  <2>1. FALSE
    BY <1>6 DEF Skip, Record, Fail, Close, RowInHand
  <2> QED  BY <2>1
<1>7. CASE ReconcileRead(w) \/ ReconcileWrite(w) \/ Reward(w) \/ Requeue(w) \/ MoveToDeadLetter(w)
  <2>1. FALSE
    <3>1. phase'[w] = "closed"
      BY <1>7 DEF ReconcileRead, ReconcileWrite, Reward, Requeue, MoveToDeadLetter
    <3> QED  BY <3>1 DEF RowInHand
  <2> QED  BY <2>1
<1>8. CASE Deliver(w) \/ AcquireLock(w) \/ ReleaseLock(w)
  <2>1. FALSE
    BY <1>8 DEF Deliver, AcquireLock, ReleaseLock, Reset, Goto, RowInHand
  <2> QED  BY <2>1
<1> QED  BY <1>2, <1>3, <1>4, <1>5, <1>6, <1>7, <1>8 DEF WorkerStep

\* What w owes a job, it owes until the dead letter is there.
LEMMA OwesStep ==
    ASSUME IInv, OutcomeOfStep, DeadLettersOwed, NEW w \in Procs, WorkerStep(w), DeadLetterEnabled,
           NEW j \in Jobs, status'[j] = "FAILED", attempts'[j] >= MaxRetries
    PROVE  deadLetter'[j] # None \/ \E v \in Procs : Owes(v, j)'
<1> USE DEF IInv, TypeOK, RowTypes, WorkerTypes
<1>1. CASE Fail(w) /\ j = cur[w]
  <2>1. attempts[j] <= snapAttempts[w]
    BY <1>1 DEF Fail, DeadLettersOwed, RowInHand
  <2>2. /\ attempts'[j] = attempts[j] + 1 /\ attempts[j] \in Nat /\ snapAttempts[w] \in Nat
        /\ MaxRetries \in Nat
    BY <1>1, PublishAssumption DEF Fail, Close
  <2>3. Exhausted(snapAttempts[w] + 1)
    BY <2>1, <2>2 DEF Exhausted
  <2>4. /\ pc'[w] = "reconcile" /\ cur'[w] = j
        /\ outcome'[w] \in Errors /\ snapAttempts'[w] = snapAttempts[w]
    BY <1>1 DEF Fail, Close, Goto, Local, OutcomeOfStep
  <2> QED  BY <2>3, <2>4 DEF Owes, Exhausted
<1>2. CASE status[j] = "FAILED" /\ attempts[j] >= MaxRetries
  <2>1. CASE deadLetter[j] # None
    BY <2>1, WorkerOnRow
  <2>2. ASSUME NEW v \in Procs, Owes(v, j), v # w
        PROVE  Owes(v, j)'
    BY <2>2, WorkerOnRow DEF Owes, Exhausted
  <2>3. CASE Owes(w, j)
    <3>1. CASE ReconcileRead(w) \/ ReconcileWrite(w)
      <4>1. /\ cur'[w] = j /\ outcome'[w] = outcome[w] /\ snapAttempts'[w] = snapAttempts[w]
            /\ pc'[w] \in {"settle", "deadLetter"}
        BY <2>3, <3>1 DEF ReconcileRead, ReconcileWrite, Owes, Errors, Goto, Local
      <4> QED  BY <2>3, <4>1 DEF Owes, Exhausted
    <3>2. CASE MoveToDeadLetter(w)
      <4>1. "OPEN" # None
        BY PublishAssumption DEF DeadLetterStatus
      <4> QED  BY <2>3, <3>2, <4>1 DEF MoveToDeadLetter, Owes
    <3> QED
      BY <2>3, <3>1, <3>2 DEF Owes, WorkerStep, Deliver, AcquireLock, Load, Route, Gate, Post, Skip,
                              Record, Fail, Reward, Charge, Reroute, Requeue, ReleaseLock
  <2> QED  BY <1>2, <2>1, <2>2, <2>3 DEF DeadLettersOwed
<1> QED  BY <1>1, <1>2, WorkerOnRow

LEMMA OwedWorkerStep ==
    ASSUME IInv, OutcomeOfStep, DeadLettersOwed, NEW w \in Procs, WorkerStep(w)
    PROVE  DeadLettersOwed'
<1> USE DEF IInv, TypeOK, RowTypes, WorkerTypes
<1>1. breached' = {} /\ live' = Accounts
  BY WorkerOnRow DEF DeadLettersOwed
<1>2. ASSUME NEW v \in Procs, v # w
      PROVE  /\ UsesAccount(v)' => account'[cur'[v]] # NoAccount
             /\ phase'[v] = "closed" => pc'[v] \notin {"charge", "reroute", "fail"}
             /\ pc'[v] # "throw"
             /\ RowInHand(v)' /\ pc'[v] # "unlock" => attempts'[cur'[v]] <= snapAttempts'[v]
  <2>1. /\ pc'[v] = pc[v] /\ cur'[v] = cur[v] /\ phase'[v] = phase[v]
        /\ outcome'[v] = outcome[v] /\ snapAttempts'[v] = snapAttempts[v]
    BY <1>2, WorkerOnRow
  <2>2. ASSUME UsesAccount(v)
        PROVE  account'[cur[v]] # NoAccount
    <3>1. cur[v] \in Jobs /\ NoAccount \notin Accounts
      BY <2>2, PublishAssumption DEF UsesAccount
    <3> QED  BY <2>2, <3>1, WorkerOnRow DEF DeadLettersOwed
  <2>3. ASSUME RowInHand(v), pc[v] # "unlock"
        PROVE  attempts'[cur[v]] <= snapAttempts[v]
    <3>1. cur[v] \in Jobs /\ attempts[cur[v]] <= snapAttempts[v]
      BY <2>3 DEF RowInHand, PhaseOfStep, DeadLettersOwed
    <3>2. ~ (Executing(w) /\ cur[w] = cur[v])
      BY <1>2, <2>3, RowInHandExclusive DEF DeadLettersOwed
    <3> QED  BY <3>1, <3>2, WorkerOnRow
  <2> QED  BY <2>1, <2>2, <2>3 DEF UsesAccount, RowInHand, DeadLettersOwed
<1> QED
  BY <1>1, <1>2, OwnAccount, OwnProgress, OwnAttempts, OwesStep DEF DeadLettersOwed

LEMMA OwedRequestStep ==
    ASSUME IInv, DeadLettersOwed, NEW r \in Requests, Begin(r) \/ RequestStep(r)
    PROVE  DeadLettersOwed'
<1> USE DEF IInv, TypeOK, RowTypes, WorkerTypes, WorldTypes
<1>1. UNCHANGED <<worker, live, breached>>
  BY RequestOnRow
<1>2. ASSUME NEW v \in Procs, UsesAccount(v)
      PROVE  account'[cur[v]] # NoAccount
  <2>1. cur[v] \in Jobs /\ NoAccount \notin Accounts
    BY <1>2, PublishAssumption DEF UsesAccount
  <2> QED  BY <1>2, <2>1, RequestOnRow DEF DeadLettersOwed
<1>3. ASSUME NEW v \in Procs, RowInHand(v), pc[v] # "unlock"
      PROVE  attempts'[cur[v]] <= snapAttempts[v]
  <2>1. /\ cur[v] \in Jobs /\ attempts[cur[v]] <= snapAttempts[v]
        /\ snapAttempts[v] \in Nat
    BY <1>3 DEF RowInHand, PhaseOfStep, DeadLettersOwed
  <2>2. attempts'[cur[v]] \in {attempts[cur[v]], 0}
    BY <2>1, RequestOnRow
  <2> QED  BY <2>1, <2>2
<1>4. ASSUME DeadLetterEnabled, NEW j \in Jobs, status'[j] = "FAILED", attempts'[j] >= MaxRetries
      PROVE  deadLetter'[j] # None \/ \E v \in Procs : Owes(v, j)'
  <2>1. /\ status[j] = "FAILED" /\ attempts[j] >= MaxRetries
        /\ deadLetter[j] # None => deadLetter'[j] # None
    BY <1>4, RequestOnRow
  <2>2. \A v \in Procs : Owes(v, j) => Owes(v, j)'
    BY <1>1 DEF worker, Owes, Exhausted
  <2> QED  BY <1>4, <2>1, <2>2 DEF DeadLettersOwed
<1> QED
  BY <1>1, <1>2, <1>3, <1>4 DEF DeadLettersOwed, worker, UsesAccount, RowInHand

LEMMA OwedStep ==
    IInv /\ OutcomeOfStep /\ (mishaps = 0 => DeadLettersOwed) /\ [Next]_vars
        => (mishaps = 0 => DeadLettersOwed)'
<1> SUFFICES ASSUME IInv, OutcomeOfStep, mishaps = 0 => DeadLettersOwed, [Next]_vars,
                    mishaps' = 0
             PROVE  DeadLettersOwed'
  OBVIOUS
<1>1. DeadLettersOwed
  BY Undisturbed DEF IInv
<1>2. UNCHANGED vars => DeadLettersOwed'
  BY <1>1 DEF vars, rows, world, history, worker, DeadLettersOwed, UsesAccount, RowInHand, Owes,
              Exhausted
<1> QED  BY <1>1, <1>2, OwedWorkerStep, OwedRequestStep, Undisturbed DEF IInv

LEMMA CalmInvariant == Spec => [](IInv /\ OutcomeOfStep /\ (mishaps = 0 => DeadLettersOwed))
<1>1. Init => OutcomeOfStep /\ DeadLettersOwed
  <2>1. Init => OutcomeOfStep
    BY DEF Init, InitRest, OutcomeOfStep
  <2>2. None # "FAILED"
    BY PublishAssumption DEF JobStatus
  <2>3. Init => DeadLettersOwed
    BY <2>2 DEF Init, InitRest, DeadLettersOwed, UsesAccount, RowInHand
  <2> QED  BY <2>1, <2>3
<1>2. IInv => TypeOK
  BY DEF IInv
<1> QED  BY <1>1, <1>2, Invariant, OutcomeStep, OwedStep, PTL DEF Spec

\* As long as no process crashed, no call failed and no account was deleted, a
\* job that failed with its attempts used up has its dead letter once the system
\* is at rest: whatever requests came, with any number of processes.
THEOREM FailuresDeadLettered == Spec => [](mishaps = 0 => DrainedFailuresDeadLettered)
<1>1. DeadLettersOwed => DrainedFailuresDeadLettered
  BY DEF DeadLettersOwed, DrainedFailuresDeadLettered, Drained, Owes
<1> QED  BY <1>1, CalmInvariant, PTL

=============================================================================
