------------------------- MODULE AccountPoolProofs -------------------------
(***************************************************************************)
(* Proofs about AccountPool, for any accounts, jobs, posters and bounds.   *)
(*                                                                         *)
(* A step of the pool either changes the locals of one flow, or changes    *)
(* rows and marks them as touched in every flow that relies on them.  So   *)
(* the invariant is restated for one flow: Sound(f, l, s) says that f may  *)
(* hold the locals l when its job has the account s.                       *)
(***************************************************************************)
EXTENDS AccountPool, TLAPS

\* The account recordPublishOutcome is called for.
TargetOf(f, l) == IF l.result = "success" \/ f \in Posters THEN l.active ELSE l.snap

Choosing == {"sync", "current", "resync", "read", "pick", "refresh"}
Rerouting == {"resync", "read", "pick", "assign"}
Using == {"post", "charge", "write", "event", "recover"}

\* Aligned, SeenIsCurrent and ActiveExists for one flow.
RowsAsHeld(f, l) ==
    /\ l.pc \in Relying =>
         \A a \in Accounts \ l.touched :
             IF a \in Configured THEN status[a] = "ACTIVE"
             ELSE status[a] \in {"DISABLED", "MISSING"}
    /\ l.pc = "write" /\ TargetOf(f, l) \in Accounts \ l.touched
         => l.seen.status = status[TargetOf(f, l)]
    /\ l.active \in Accounts => status[l.active] # "MISSING"

\* SelectionFollowsConfiguration for one job.
Chosen(l) ==
    /\ l.pc = "pick" => l.cand \subseteq Configured \cup l.touched \cup {Gone}
    /\ l.pc \in {"assign", "post"} => l.active \in Configured \cup l.touched \cup {Gone}

\* SnapIsAssigned, SelectionState and RerouteLeavesAccount for one job.
Progress(l, s) ==
    /\ \/ l.purpose = "execute" /\ l.pc \in Choosing
       \/ l.purpose = "reroute" /\ l.pc \in Rerouting
       => l.snap = s \/ (l.snap = Gone /\ s = Nobody)
    /\ l.purpose = "execute" /\ l.pc \in Choosing => l.active = Nobody
    /\ l.purpose = "reroute" /\ l.pc = "pick" /\ l.snap \in Accounts => l.snap \notin l.cand
    /\ l.purpose = "reroute" /\ l.pc = "assign"
         => l.active # Nobody /\ (l.snap \in Accounts => l.active # l.snap)
    /\ l.pc \in {"new", "queued"} => l.active = Nobody
    /\ l.pc \in Rerouting => l.purpose # "manual"
    /\ l.pc \in {"sync", "current", "refresh"} \cup Using => l.purpose = "execute"
    /\ l.pc \in Using /\ l.active \in Accounts => s = l.active

Sound(f, l, s) == RowsAsHeld(f, l) /\ (f \in Jobs => Chosen(l) /\ Progress(l, s))

\* IInv, flow by flow.
AllSound == \A f \in Flows : Sound(f, flow[f], assigned[f])

LEMMA FlowByFlow == TypeOK => (IInv <=> QuarantinedAwaitReview /\ AllSound)
<1> SUFFICES ASSUME TypeOK PROVE IInv <=> QuarantinedAwaitReview /\ AllSound
  OBVIOUS
<1> USE DEF Flows
<1>1. (\A f \in Flows : RowsAsHeld(f, flow[f])) <=> Aligned /\ SeenIsCurrent /\ ActiveExists
  BY DEF RowsAsHeld, Aligned, SeenIsCurrent, ActiveExists, Synced, TargetOf, Target, At, Exists
<1>2. (\A f \in Jobs : Chosen(flow[f])) <=> SelectionFollowsConfiguration
  BY DEF Chosen, SelectionFollowsConfiguration, At
<1>3. (\A f \in Jobs : Progress(flow[f], assigned[f])) =>
         SnapIsAssigned /\ SelectionState /\ RerouteLeavesAccount
  <2>1. (\A f \in Jobs : Progress(flow[f], assigned[f])) => SnapIsAssigned
    BY DEF Progress, SnapIsAssigned, Choosing, Rerouting, At
  <2>2. (\A f \in Jobs : Progress(flow[f], assigned[f])) => SelectionState
    BY DEF Progress, SelectionState, Choosing, Rerouting, Using, At
  <2>3. (\A f \in Jobs : Progress(flow[f], assigned[f])) => RerouteLeavesAccount
    BY PoolAssumption DEF Progress, RerouteLeavesAccount, Choosing, Rerouting, Using, At,
       TypeOK, Locals
  <2> QED BY <2>1, <2>2, <2>3
<1>4. SnapIsAssigned /\ SelectionState /\ RerouteLeavesAccount =>
         \A f \in Jobs : Progress(flow[f], assigned[f])
  BY DEF Progress, SnapIsAssigned, SelectionState, RerouteLeavesAccount, Choosing, Rerouting,
     Using, At
<1> QED BY <1>1, <1>2, <1>3, <1>4 DEF IInv, Sound, AllSound

-----------------------------------------------------------------------------
(* Steps of one flow.                                                      *)

Rest == <<status, health, review, barred, edits>>

\* A step that changes only the locals of f, and perhaps the account of its job.
LEMMA OneFlow ==
    ASSUME IInv, NEW f \in Flows, NEW l \in Locals, Set(f, l),
           runs' \in Nat, assigned' \in [Jobs -> Accounts \cup {Nobody}],
           \A j \in Jobs \ {f} : assigned'[j] = assigned[j],
           Sound(f, l, assigned'[f])
    PROVE  IInv'
<1>1. TypeOK /\ QuarantinedAwaitReview
  BY DEF IInv
<1>2. TypeOK'
  BY <1>1 DEF TypeOK, Set
<1>3. UNCHANGED Rest /\ QuarantinedAwaitReview'
  BY <1>1 DEF Rest, Set, QuarantinedAwaitReview
<1>4. flow'[f] = l /\ \A g \in Flows \ {f} : flow'[g] = flow[g]
  BY <1>1 DEF Set, TypeOK
<1>5. ASSUME NEW g \in Flows
      PROVE  Sound(g, flow'[g], IF g \in Jobs THEN assigned'[g] ELSE assigned[g])
  <2>1. CASE g = f /\ f \in Jobs
    BY <1>4, <2>1
  <2>2. CASE g = f /\ f \notin Jobs
    BY <1>4, <2>2 DEF Sound
  <2>3. CASE g # f
    BY <1>1, <1>4, <2>3, FlowByFlow DEF AllSound
  <2> QED BY <2>1, <2>2, <2>3
<1>6. AllSound'
  BY <1>3, <1>5 DEF AllSound, Sound, RowsAsHeld, Rest
<1> QED BY <1>2, <1>3, <1>6, FlowByFlow, PTL

\* What the invariant says of a flow.
LEMMA FlowFacts ==
    ASSUME IInv, NEW f \in Flows
    PROVE  /\ TypeOK /\ flow[f] \in Locals /\ Sound(f, flow[f], assigned[f])
           /\ f \in Jobs => assigned[f] \in Accounts \cup {Nobody}
BY FlowByFlow DEF IInv, TypeOK, AllSound

\* A step that leaves the jobs' accounts alone, and counts at most one run.
LEMMA OneFlowKept ==
    ASSUME IInv, NEW f \in Flows, NEW l \in Locals, Set(f, l),
           runs' \in Nat, UNCHANGED assigned, Sound(f, l, assigned[f])
    PROVE  IInv'
BY OneFlow, FlowFacts DEF TypeOK

\* A flow that has ended, failed, or waits to be executed holds nothing.
LEMMA IdleSound ==
    ASSUME NEW f, NEW pc \in {"queued", "failed", "ended"}, NEW s
    PROVE  Idle(pc) \in Locals /\ Sound(f, Idle(pc), s)
<1>1. Idle(pc) \in Locals
  BY DEF Idle, Locals, Steps, Purposes, NoRow, Rows, Statuses, Full
<1>2. RowsAsHeld(f, Idle(pc))
  BY PoolAssumption DEF RowsAsHeld, Idle, Relying
<1>3. Chosen(Idle(pc)) /\ Progress(Idle(pc), s)
  BY DEF Chosen, Progress, Idle, Choosing, Rerouting, Using
<1> QED BY <1>1, <1>2, <1>3 DEF Sound

LEMMA ScheduleKeeps ==
    ASSUME IInv, NEW f \in Flows, Schedule(f)
    PROVE  IInv'
<1> DEFINE l == [flow[f] EXCEPT !.pc = "resync", !.purpose = "schedule"]
<1>1. /\ flow[f] \in Locals /\ Sound(f, flow[f], assigned[f]) /\ TypeOK
      /\ f \in Jobs => assigned[f] \in Accounts \cup {Nobody}
  BY FlowFacts
<1>2. l \in Locals
  BY <1>1 DEF Schedule, Locals, Steps, Purposes
<1>3. RowsAsHeld(f, l)
  BY <1>1 DEF Schedule, At, Locals, Sound, RowsAsHeld, Relying
<1>4. f \in Jobs => Chosen(l) /\ Progress(l, assigned[f])
  BY <1>1 DEF Schedule, At, Locals, Sound, Chosen, Progress, Choosing, Rerouting, Using
<1> QED BY <1>1, <1>2, <1>3, <1>4, OneFlowKept DEF Schedule, Sound, TypeOK

LEMMA ExecuteKeeps ==
    ASSUME IInv, NEW f \in Flows, Execute(f)
    PROVE  IInv'
<1> DEFINE l == [flow[f] EXCEPT !.pc = "sync", !.purpose = "execute", !.snap = assigned[f]]
<1>1. /\ flow[f] \in Locals /\ Sound(f, flow[f], assigned[f]) /\ TypeOK
      /\ f \in Jobs => assigned[f] \in Accounts \cup {Nobody}
  BY FlowFacts
<1>2. l \in Locals
  BY <1>1 DEF Execute, Locals, Steps, Purposes
<1>3. RowsAsHeld(f, l)
  BY <1>1 DEF Execute, At, Locals, Sound, RowsAsHeld, Relying
<1>4. f \in Jobs => Chosen(l) /\ Progress(l, assigned[f])
  BY <1>1 DEF Execute, At, Locals, Sound, Chosen, Progress, Choosing, Rerouting, Using
<1> QED BY <1>1, <1>2, <1>3, <1>4, OneFlowKept DEF Execute, Sound, TypeOK

LEMMA ComposeKeeps ==
    ASSUME IInv, NEW f \in Flows, Compose(f)
    PROVE  IInv'
<1> DEFINE l == [flow[f] EXCEPT !.pc = "sync"]
<1>1. /\ flow[f] \in Locals /\ Sound(f, flow[f], assigned[f]) /\ TypeOK
      /\ f \in Jobs => assigned[f] \in Accounts \cup {Nobody}
  BY FlowFacts
<1>2. l \in Locals
  BY <1>1 DEF Compose, Locals, Steps, Purposes
<1>3. RowsAsHeld(f, l)
  BY <1>1 DEF Compose, At, Locals, Sound, RowsAsHeld, Relying
<1>4. f \in Jobs => Chosen(l) /\ Progress(l, assigned[f])
  BY <1>1, PoolAssumption DEF Compose, At, Locals, Sound, Chosen, Progress, Choosing,
     Rerouting, Using
<1> QED BY <1>1, <1>2, <1>3, <1>4, OneFlowKept DEF Compose, Sound, TypeOK

\* An execution that fails where it holds no account, or one its job has.
LEMMA FailingSound ==
    ASSUME IInv, NEW f \in Flows, NEW e \in Errors, flow[f].pc \in Relying,
           f \in Jobs => flow[f].purpose = "execute",
           f \in Jobs /\ flow[f].active \in Accounts => flow[f].pc \in Using
    PROVE  Failing(f, e) \in Locals /\ Sound(f, Failing(f, e), assigned[f])
<1> DEFINE l == Failing(f, e)
<1>1. /\ flow[f] \in Locals /\ Sound(f, flow[f], assigned[f]) /\ TypeOK
      /\ f \in Jobs => assigned[f] \in Accounts \cup {Nobody}
  BY FlowFacts
<1>2. l \in Locals
  BY <1>1 DEF Failing, Locals, Steps
<1>3. RowsAsHeld(f, l)
  BY <1>1 DEF Failing, Locals, Sound, RowsAsHeld, Relying
<1>4. f \in Jobs => Chosen(l) /\ Progress(l, assigned[f])
  <2>1. /\ l.pc \in {"recover", "charge"}
        /\ l.purpose = flow[f].purpose /\ l.active = flow[f].active
    BY <1>1 DEF Failing, Locals
  <2>2. f \in Jobs /\ flow[f].active \in Accounts => assigned[f] = flow[f].active
    BY <1>1 DEF Sound, Progress
  <2> HIDE DEF l
  <2> QED BY <2>1, <2>2 DEF Chosen, Progress, Choosing, Rerouting, Using
<1> QED BY <1>2, <1>3, <1>4 DEF Sound

LEMMA ThrownSound ==
    ASSUME IInv, NEW f \in Flows, flow[f].pc \in {"pick", "assign"},
           flow[f].pc = "assign" => ~ Exists(flow[f].active)
    PROVE  Thrown(f) \in Locals /\ Sound(f, Thrown(f), assigned[f])
<1>1. /\ flow[f] \in Locals /\ Sound(f, flow[f], assigned[f])
  BY FlowFacts
<1>2. CASE flow[f].purpose = "execute"
  <2>1. f \in Jobs => flow[f].active \notin Accounts
    BY <1>1, <1>2, PoolAssumption DEF Sound, RowsAsHeld, Progress, Choosing, Exists
  <2> QED BY <1>2, <2>1, FailingSound DEF Thrown, Relying, Errors
<1>3. CASE flow[f].purpose # "execute"
  BY <1>3, IdleSound DEF Thrown
<1> QED BY <1>2, <1>3

LEMMA UnrecordedSound ==
    ASSUME IInv, NEW f \in Flows, flow[f].pc \in {"charge", "write", "event"}, Unrecorded(f)
    PROVE  \E l \in Locals : Set(f, l) /\ Sound(f, l, assigned[f])
<1>1. CASE f \in Posters
  <2>1. f \notin Jobs
    BY <1>1, PoolAssumption
  <2> QED BY <1>1, <2>1, IdleSound DEF Unrecorded
<1>2. CASE f \in Jobs /\ flow[f].result = "success"
  <2>1. flow[f].purpose = "execute"
    BY <1>2, FlowFacts DEF Sound, Progress, Using
  <2>2. f \notin Posters
    BY <1>2, PoolAssumption
  <2> QED BY <1>2, <2>1, <2>2, FailingSound DEF Unrecorded, Relying, Using, Errors
<1>3. CASE f \in Jobs /\ flow[f].result # "success"
  <2>1. f \notin Posters
    BY <1>3, PoolAssumption
  <2> QED BY <1>3, <2>1, IdleSound DEF Unrecorded
<1> QED BY <1>1, <1>2, <1>3 DEF Flows

LEMMA CurrentKeeps ==
    ASSUME IInv, NEW f \in Flows, Current(f)
    PROVE  IInv'
<1>1. /\ flow[f] \in Locals /\ Sound(f, flow[f], assigned[f]) /\ TypeOK
      /\ f \in Jobs => assigned[f] \in Accounts \cup {Nobody}
  BY FlowFacts
<1>2. CASE f \in Jobs /\ IsActive(flow[f].snap)
  <2> DEFINE l == [flow[f] EXCEPT !.pc = "post", !.active = flow[f].snap]
  <2>1. l \in Locals
    BY <1>1, <1>2 DEF Current, Locals, Steps, Purposes, IsActive
  <2>2. RowsAsHeld(f, l)
    BY <1>1, <1>2 DEF Current, At, Locals, Sound, RowsAsHeld, Relying, IsActive
  <2>3. f \in Jobs => Chosen(l) /\ Progress(l, assigned[f])
    BY <1>1, <1>2, PoolAssumption DEF Current, At, Locals, Sound, RowsAsHeld, Relying, Chosen,
       Progress, Choosing, Rerouting, Using, IsActive
  <2>4. Set(f, l) /\ UNCHANGED <<assigned, runs>>
    BY <1>2, PoolAssumption DEF Current
  <2> QED BY <1>1, <2>1, <2>2, <2>3, <2>4, OneFlowKept DEF Sound, TypeOK
<1>3. CASE \/ f \in Jobs /\ ~ IsActive(flow[f].snap)
           \/ f \in Posters /\ Set(f, [flow[f] EXCEPT !.pc = "resync"])
  <2> DEFINE l == [flow[f] EXCEPT !.pc = "resync"]
  <2>1. l \in Locals
    BY <1>1, <1>3 DEF Current, Locals, Steps, Purposes
  <2>2. RowsAsHeld(f, l)
    BY <1>1, <1>3 DEF Current, At, Locals, Sound, RowsAsHeld, Relying
  <2>3. f \in Jobs => Chosen(l) /\ Progress(l, assigned[f])
    BY <1>1, <1>3, PoolAssumption DEF Current, At, Locals, Sound, RowsAsHeld, Relying, Chosen,
       Progress, Choosing, Rerouting, Using
  <2>4. Set(f, l) /\ UNCHANGED <<assigned, runs>>
    BY <1>3, PoolAssumption DEF Current
  <2> QED BY <1>1, <2>1, <2>2, <2>3, <2>4, OneFlowKept DEF Sound, TypeOK
<1>4. CASE f \in Posters /\ \E a \in Accounts :
               IF Exists(a) THEN Set(f, [flow[f] EXCEPT !.pc = "post", !.active = a])
               ELSE Set(f, Idle("ended"))
  <2>1. PICK a \in Accounts :
           IF Exists(a) THEN Set(f, [flow[f] EXCEPT !.pc = "post", !.active = a])
           ELSE Set(f, Idle("ended"))
    BY <1>4
  <2>2. CASE ~ Exists(a)
    BY <1>1, <2>1, <2>2, IdleSound, OneFlowKept DEF Current, TypeOK
  <2>3. CASE Exists(a)
    <3> DEFINE l == [flow[f] EXCEPT !.pc = "post", !.active = a]
    <3>1. l \in Locals
      BY <1>1 DEF Locals, Steps
    <3>2. RowsAsHeld(f, l)
      BY <1>1, <2>3 DEF Current, At, Locals, Sound, RowsAsHeld, Relying, Exists
    <3>3. f \notin Jobs
      BY <1>4, PoolAssumption
    <3> QED BY <1>1, <2>1, <2>3, <3>1, <3>2, <3>3, OneFlowKept DEF Current, Sound, TypeOK
  <2> QED BY <2>2, <2>3
<1> QED BY <1>2, <1>3, <1>4 DEF Current

LEMMA ReadCandidatesKeeps ==
    ASSUME IInv, NEW f \in Flows, ReadCandidates(f)
    PROVE  IInv'
<1>1. /\ flow[f] \in Locals /\ Sound(f, flow[f], assigned[f]) /\ TypeOK
      /\ f \in Jobs => assigned[f] \in Accounts \cup {Nobody}
  BY FlowFacts
<1> DEFINE others == IF flow[f].purpose \in {"execute", "reroute"} THEN {flow[f].snap} ELSE {}
<1>2. PICK c \in {{}, {a \in Accounts : IsActive(a)} \ others} :
         Set(f, [flow[f] EXCEPT !.pc = "pick", !.cand = c])
  BY DEF ReadCandidates
<1> DEFINE l == [flow[f] EXCEPT !.pc = "pick", !.cand = c]
<1>3. c \subseteq {a \in Accounts : IsActive(a)} \ others
  BY <1>2
<1> HIDE DEF others
<1>4. l \in Locals
  BY <1>1, <1>3 DEF Locals, Steps
<1>5. RowsAsHeld(f, l)
  BY <1>1 DEF ReadCandidates, At, Locals, Sound, RowsAsHeld, Relying
<1>6. Chosen(l)
  BY <1>1, <1>3 DEF ReadCandidates, At, Locals, Sound, RowsAsHeld, Relying, Chosen, IsActive
<1>7. f \in Jobs => Progress(l, assigned[f])
  BY <1>1, <1>3 DEF ReadCandidates, At, Locals, Sound, Progress, Choosing, Rerouting, Using, others
<1> QED BY <1>1, <1>2, <1>4, <1>5, <1>6, <1>7, OneFlowKept DEF ReadCandidates, Sound, TypeOK

LEMMA PickKeeps ==
    ASSUME IInv, NEW f \in Flows, Pick(f)
    PROVE  IInv'
<1>1. /\ flow[f] \in Locals /\ Sound(f, flow[f], assigned[f]) /\ TypeOK
      /\ f \in Jobs => assigned[f] \in Accounts \cup {Nobody}
  BY FlowFacts
<1>2. UNCHANGED assigned /\ runs' \in Nat /\ flow[f].pc = "pick"
  BY <1>1 DEF Pick, At, TypeOK
<1>3. ASSUME NEW a \in flow[f].cand,
             IF ~ Exists(a) THEN Set(f, Thrown(f))
             ELSE Set(f, [flow[f] EXCEPT !.active = a, !.cand = {},
                             !.pc = IF flow[f].purpose = "manual" THEN "post" ELSE "assign"])
      PROVE  IInv'
  <2>1. CASE ~ Exists(a)
    BY <1>2, <1>3, <2>1, ThrownSound, OneFlowKept
  <2>2. CASE Exists(a)
    <3> DEFINE l == [flow[f] EXCEPT !.active = a, !.cand = {},
                        !.pc = IF flow[f].purpose = "manual" THEN "post" ELSE "assign"]
    <3>1. a \in Accounts /\ status[a] # "MISSING"
      BY <2>2 DEF Exists
    <3>2. l \in Locals
      BY <1>1, <3>1, ZenonT(40) DEF Locals, Steps
    <3>3. RowsAsHeld(f, l)
      BY <1>1, <1>2, <3>1 DEF Locals, Sound, RowsAsHeld, Relying
    <3>4. f \in Jobs => Chosen(l)
      BY <1>1, <1>2 DEF Locals, Sound, Chosen
    <3>5. f \in Jobs => Progress(l, assigned[f])
      BY <1>1, <1>2, <3>1, PoolAssumption DEF Locals, Sound, Progress, Choosing, Rerouting, Using
    <3> QED BY <1>2, <1>3, <2>2, <3>2, <3>3, <3>4, <3>5, OneFlowKept DEF Sound
  <2> QED BY <2>1, <2>2
<1>4. ASSUME Set(f, IF flow[f].purpose = "execute"
                    THEN [flow[f] EXCEPT !.pc = "refresh", !.cand = {}]
                    ELSE Idle(IF flow[f].purpose = "reroute" THEN "failed" ELSE "ended"))
      PROVE  IInv'
  <2>1. CASE flow[f].purpose # "execute"
    <3>1. PICK pc \in {"queued", "failed", "ended"} : Set(f, Idle(pc))
      BY <1>4, <2>1
    <3> QED BY <1>2, <3>1, IdleSound, OneFlowKept
  <2>2. CASE flow[f].purpose = "execute"
    <3> DEFINE l == [flow[f] EXCEPT !.pc = "refresh", !.cand = {}]
    <3>1. l \in Locals
      BY <1>1 DEF Locals, Steps
    <3>2. RowsAsHeld(f, l)
      BY <1>1, <1>2 DEF Locals, Sound, RowsAsHeld, Relying
    <3>3. f \in Jobs => Chosen(l) /\ Progress(l, assigned[f])
      BY <1>1, <1>2, <2>2 DEF Locals, Sound, Chosen, Progress, Choosing, Rerouting, Using
    <3> QED BY <1>2, <1>4, <2>2, <3>1, <3>2, <3>3, OneFlowKept DEF Sound
  <2> QED BY <2>1, <2>2
<1> QED BY <1>3, <1>4 DEF Pick

LEMMA AssignKeeps ==
    ASSUME IInv, NEW f \in Flows, Assign(f)
    PROVE  IInv'
<1>1. /\ flow[f] \in Locals /\ Sound(f, flow[f], assigned[f]) /\ TypeOK
      /\ f \in Jobs => assigned[f] \in Accounts \cup {Nobody}
  BY FlowFacts
<1>2. runs' \in Nat /\ flow[f].pc = "assign"
  BY <1>1 DEF Assign, At, TypeOK
<1>3. CASE ~ Exists(flow[f].active)
  BY <1>2, <1>3, ThrownSound, OneFlowKept DEF Assign
<1>4. CASE Exists(flow[f].active) /\ f \notin Jobs
  <2>1. UNCHANGED assigned
    BY <1>1, <1>4, ZenonT(40) DEF Assign, TypeOK
  <2> DEFINE l == IF flow[f].purpose = "execute"
                  THEN [flow[f] EXCEPT !.pc = "post"] ELSE Idle("queued")
  <2>2. l \in Locals
    BY <1>1, IdleSound DEF Locals, Steps
  <2>3. Sound(f, l, assigned[f])
    <3>1. CASE flow[f].purpose = "execute"
      BY <1>1, <1>2, <1>4, <3>1 DEF Locals, Sound, RowsAsHeld, Relying
    <3>2. CASE flow[f].purpose # "execute"
      BY <3>2, IdleSound
    <3> QED BY <3>1, <3>2
  <2> QED BY <1>2, <1>4, <2>1, <2>2, <2>3, OneFlowKept DEF Assign
<1>5. CASE Exists(flow[f].active) /\ f \in Jobs
  <2>1. /\ flow[f].active \in Accounts
        /\ assigned' = [assigned EXCEPT ![f] = flow[f].active]
    BY <1>5 DEF Assign, Exists
  <2>2. /\ assigned' \in [Jobs -> Accounts \cup {Nobody}]
        /\ assigned'[f] = flow[f].active
        /\ \A j \in Jobs \ {f} : assigned'[j] = assigned[j]
    BY <1>1, <1>5, <2>1 DEF TypeOK
  <2>3. CASE flow[f].purpose # "execute"
    BY <1>2, <1>5, <2>2, <2>3, IdleSound, OneFlow DEF Assign
  <2>4. CASE flow[f].purpose = "execute"
    <3> DEFINE l == [flow[f] EXCEPT !.pc = "post"]
    <3>1. l \in Locals
      BY <1>1 DEF Locals, Steps
    <3>2. RowsAsHeld(f, l)
      BY <1>1, <1>2 DEF Locals, Sound, RowsAsHeld, Relying
    <3>3. Chosen(l) /\ Progress(l, flow[f].active)
      BY <1>1, <1>2, <1>5, <2>4 DEF Locals, Sound, Chosen, Progress, Choosing, Rerouting, Using
    <3>4. Set(f, l)
      BY <1>5, <2>4 DEF Assign
    <3> HIDE DEF l
    <3> QED BY <1>2, <2>2, <3>1, <3>2, <3>3, <3>4, OneFlow DEF Sound
  <2> QED BY <2>3, <2>4
<1> QED BY <1>3, <1>4, <1>5

LEMMA RefreshKeeps ==
    ASSUME IInv, NEW f \in Flows, Refresh(f)
    PROVE  IInv'
<1>1. /\ flow[f] \in Locals /\ Sound(f, flow[f], assigned[f]) /\ TypeOK
      /\ f \in Jobs => assigned[f] \in Accounts \cup {Nobody}
  BY FlowFacts
<1>2. UNCHANGED assigned /\ runs' \in Nat /\ flow[f].pc = "refresh"
  BY <1>1 DEF Refresh, At, TypeOK
<1>3. CASE ~ IsActive(flow[f].snap)
  <2>1. f \in Jobs => flow[f].purpose = "execute" /\ flow[f].active \notin Accounts
    BY <1>1, <1>2, PoolAssumption DEF Sound, Progress, Choosing
  <2> QED BY <1>2, <1>3, <2>1, FailingSound, OneFlowKept DEF Refresh, Relying, Errors
<1>4. CASE IsActive(flow[f].snap)
  <2> DEFINE l == [flow[f] EXCEPT !.pc = "post", !.active = flow[f].snap]
  <2>1. flow[f].snap \in Accounts /\ status[flow[f].snap] = "ACTIVE"
    BY <1>4 DEF IsActive
  <2>2. l \in Locals
    BY <1>1 DEF Locals, Steps
  <2>3. RowsAsHeld(f, l)
    BY <1>1, <1>2, <2>1 DEF Locals, Sound, RowsAsHeld, Relying
  <2>4. Chosen(l)
    BY <1>1, <1>2, <2>1 DEF Locals, Sound, RowsAsHeld, Relying, Chosen
  <2>5. f \in Jobs => Progress(l, assigned[f])
    BY <1>1, <1>2, <2>1, PoolAssumption DEF Locals, Sound, Progress, Choosing, Rerouting, Using
  <2> QED BY <1>2, <1>4, <2>2, <2>3, <2>4, <2>5, OneFlowKept DEF Refresh, Sound
<1> QED BY <1>3, <1>4

LEMMA PostKeeps ==
    ASSUME IInv, NEW f \in Flows, Post(f)
    PROVE  IInv'
<1>1. /\ flow[f] \in Locals /\ Sound(f, flow[f], assigned[f]) /\ TypeOK
      /\ f \in Jobs => assigned[f] \in Accounts \cup {Nobody}
  BY FlowFacts
<1>2. UNCHANGED assigned /\ runs' \in Nat /\ flow[f].pc = "post"
  BY <1>1 DEF Post, At, TypeOK
<1>3. ASSUME NEW r \in Errors \cup {"success"},
             Set(f, [flow[f] EXCEPT !.pc = "charge", !.result = r])
      PROVE  IInv'
  <2> DEFINE l == [flow[f] EXCEPT !.pc = "charge", !.result = r]
  <2>1. l \in Locals
    BY <1>1 DEF Locals, Steps
  <2>2. RowsAsHeld(f, l)
    BY <1>1, <1>2 DEF Locals, Sound, RowsAsHeld, Relying
  <2>3. f \in Jobs => Chosen(l) /\ Progress(l, assigned[f])
    BY <1>1, <1>2 DEF Locals, Sound, Chosen, Progress, Choosing, Rerouting, Using
  <2> QED BY <1>2, <1>3, <2>1, <2>2, <2>3, OneFlowKept DEF Sound
<1>4. ASSUME NEW e \in Errors, f \in Jobs, Set(f, Failing(f, e))
      PROVE  IInv'
  <2>1. flow[f].purpose = "execute"
    BY <1>1, <1>2, <1>4 DEF Sound, Progress, Using
  <2> QED BY <1>2, <1>4, <2>1, FailingSound, OneFlowKept DEF Relying, Using
<1>5. ASSUME Set(f, Idle("ended"))
      PROVE  IInv'
  BY <1>2, <1>5, IdleSound, OneFlowKept
<1>6. "success" \in Errors \cup {"success"} /\ \A e \in Errors : e \in Errors \cup {"success"}
  OBVIOUS
<1> QED BY <1>3, <1>4, <1>5, <1>6 DEF Post

LEMMA ReadRowKeeps ==
    ASSUME IInv, NEW f \in Flows, ReadRow(f)
    PROVE  IInv'
<1>1. /\ flow[f] \in Locals /\ Sound(f, flow[f], assigned[f]) /\ TypeOK
      /\ f \in Jobs => assigned[f] \in Accounts \cup {Nobody}
  BY FlowFacts
<1>2. UNCHANGED assigned /\ runs' \in Nat /\ flow[f].pc = "charge"
  BY <1>1 DEF ReadRow, At, TypeOK
<1>3. CASE ~ Exists(Target(f))
  BY <1>2, <1>3, UnrecordedSound, OneFlowKept DEF ReadRow
<1>4. CASE Exists(Target(f))
  <2> DEFINE row == [status |-> status[Target(f)], health |-> health[Target(f)]]
             l == [flow[f] EXCEPT !.pc = "write", !.seen = row]
  <2>1. Target(f) \in Accounts
    BY <1>4 DEF Exists
  <2>2. row \in Rows
    BY <1>1, <2>1 DEF Rows, TypeOK
  <2>3. l \in Locals
    BY <1>1, <2>2 DEF Locals, Steps
  <2>4. TargetOf(f, l) = Target(f) /\ l.seen.status = status[Target(f)]
    BY <1>1, <2>2 DEF TargetOf, Target, Locals
  <2>5. RowsAsHeld(f, l)
    BY <1>1, <1>2, <2>4 DEF Locals, Sound, RowsAsHeld, Relying
  <2>6. f \in Jobs => Chosen(l) /\ Progress(l, assigned[f])
    BY <1>1, <1>2 DEF Locals, Sound, Chosen, Progress, Choosing, Rerouting, Using
  <2> QED BY <1>2, <1>4, <2>3, <2>5, <2>6, OneFlowKept DEF ReadRow, Sound
<1> QED BY <1>3, <1>4

LEMMA SettleKeeps ==
    ASSUME IInv, NEW f \in Flows, Settle(f)
    PROVE  IInv'
<1>1. /\ flow[f] \in Locals /\ Sound(f, flow[f], assigned[f]) /\ TypeOK
      /\ f \in Jobs => assigned[f] \in Accounts \cup {Nobody}
  BY FlowFacts
<1>2. UNCHANGED assigned /\ runs' \in Nat /\ flow[f].pc = "event"
  BY <1>1 DEF Settle, At, TypeOK
<1>3. CASE ~ Exists(Target(f))
  BY <1>2, <1>3, UnrecordedSound, OneFlowKept DEF Settle
<1>4. CASE Exists(Target(f)) /\ ~ (f \in Jobs /\ flow[f].result # "success")
  BY <1>2, <1>4, IdleSound, OneFlowKept DEF Settle
<1>5. CASE Exists(Target(f)) /\ f \in Jobs /\ flow[f].result # "success"
  <2> DEFINE l == [flow[f] EXCEPT !.pc = "recover", !.touched = {}]
  <2>1. l \in Locals
    BY <1>1 DEF Locals, Steps
  <2>2. RowsAsHeld(f, l)
    BY <1>1, <1>2 DEF Locals, Sound, RowsAsHeld, Relying
  <2>3. f \in Jobs => Chosen(l) /\ Progress(l, assigned[f])
    BY <1>1, <1>2 DEF Locals, Sound, Chosen, Progress, Choosing, Rerouting, Using
  <2> QED BY <1>2, <1>5, <2>1, <2>2, <2>3, OneFlowKept DEF Settle, Sound
<1> QED BY <1>3, <1>4, <1>5

LEMMA RecoverKeeps ==
    ASSUME IInv, NEW f \in Flows, Recover(f)
    PROVE  IInv'
<1>1. /\ flow[f] \in Locals /\ Sound(f, flow[f], assigned[f]) /\ TypeOK
      /\ f \in Jobs => assigned[f] \in Accounts \cup {Nobody}
  BY FlowFacts
<1>2. UNCHANGED assigned /\ runs' \in Nat /\ flow[f].pc = "recover"
  BY <1>1 DEF Recover, At, TypeOK
<1>3. CASE ~ (flow[f].result \in Reroutable /\ assigned[f] # Nobody)
  BY <1>2, <1>3, IdleSound, OneFlowKept DEF Recover
<1>4. CASE flow[f].result \in Reroutable /\ assigned[f] # Nobody
  <2> DEFINE l == [flow[f] EXCEPT !.pc = "resync", !.purpose = "reroute", !.snap = assigned[f]]
  <2>1. l \in Locals
    BY <1>1, <1>4 DEF Locals, Steps, Purposes, Recover
  <2>2. RowsAsHeld(f, l)
    BY <1>1, <1>2 DEF Locals, Sound, RowsAsHeld, Relying
  <2>3. f \in Jobs => Chosen(l) /\ Progress(l, assigned[f])
    BY <1>1, <1>2 DEF Locals, Sound, Chosen, Progress, Choosing, Rerouting, Using
  <2> QED BY <1>2, <1>4, <2>1, <2>2, <2>3, OneFlowKept DEF Recover, Sound
<1> QED BY <1>3, <1>4

LEMMA CrashKeeps ==
    ASSUME IInv, NEW f \in Flows, Crash(f)
    PROVE  IInv'
<1>1. PICK pc \in {"queued", "failed", "ended"} : Set(f, Idle(pc))
  BY DEF Crash
<1> QED BY <1>1, IdleSound, OneFlowKept, FlowFacts DEF Crash, TypeOK

-----------------------------------------------------------------------------
(* Steps that change rows.                                                 *)

\* A flow whose accounts are marked as touched where they change stays sound, as
\* long as no row disappears.
LEMMA TouchedSound ==
    ASSUME IInv, NEW f \in Flows, NEW S \in SUBSET Accounts,
           \A a \in Accounts \ S : status'[a] = status[a],
           \A a \in Accounts : status[a] # "MISSING" => status'[a] # "MISSING",
           UNCHANGED assigned,
           flow'[f] = Touch(S)[f]
    PROVE  flow'[f] \in Locals /\ Sound(f, flow[f], assigned[f])'
<1>1. /\ flow[f] \in Locals /\ Sound(f, flow[f], assigned[f])
  BY FlowFacts
<1>2. \/ Synced(f) /\ flow'[f] = [flow[f] EXCEPT !.touched = @ \cup S]
      \/ ~ Synced(f) /\ flow'[f] = flow[f]
  BY DEF Touch
<1>3. flow'[f] \in Locals
  BY <1>1, <1>2 DEF Locals
<1>4. RowsAsHeld(f, flow[f])'
  <2>1. CASE Synced(f)
    <3>1. /\ flow'[f] = [flow[f] EXCEPT !.touched = @ \cup S]
          /\ Accounts \ flow'[f].touched \subseteq Accounts \ S
          /\ Accounts \ flow'[f].touched \subseteq Accounts \ flow[f].touched
      BY <1>1, <1>2, <2>1 DEF Locals
    <3> QED BY <1>1, <2>1, <3>1 DEF Locals, Sound, RowsAsHeld, TargetOf, Synced
  <2>2. CASE ~ Synced(f)
    BY <1>1, <1>2, <2>2 DEF Sound, RowsAsHeld, Synced, Relying
  <2> QED BY <2>1, <2>2
<1>5. f \in Jobs => Chosen(flow[f])' /\ Progress(flow[f], assigned[f])'
  BY <1>1, <1>2 DEF Locals, Sound, Chosen, Progress, Synced
<1> QED BY <1>3, <1>4, <1>5 DEF Sound

LEMMA InLineRows ==
    ASSUME TypeOK
    PROVE  /\ InLine \in [Accounts -> Statuses]
           /\ \A a \in Accounts : status[a] # "MISSING" => InLine[a] # "MISSING"
           /\ \A a \in Accounts : InLine[a] # "QUARANTINED"
           /\ \A a \in Accounts : IF a \in Configured THEN InLine[a] = "ACTIVE"
                                   ELSE InLine[a] \in {"DISABLED", "MISSING"}
BY DEF InLine, Statuses, TypeOK

LEMMA SyncKeeps ==
    ASSUME IInv, NEW f \in Flows, Sync(f)
    PROVE  IInv'
<1>1. /\ flow[f] \in Locals /\ Sound(f, flow[f], assigned[f]) /\ TypeOK
      /\ f \in Jobs => assigned[f] \in Accounts \cup {Nobody}
  BY FlowFacts
<1> DEFINE S == {a \in Accounts : InLine[a] # status[a]}
           l == [flow[f] EXCEPT !.pc = IF @ = "sync" THEN "current" ELSE "read",
                                !.touched = {}]
<1>2. /\ status' = InLine /\ flow[f].pc \in {"sync", "resync"}
      /\ UNCHANGED <<health, review, assigned, barred, runs, edits>>
      /\ flow' = [Touch(S) EXCEPT ![f] = l]
  BY DEF Sync
<1>3. flow'[f] = l /\ \A g \in Flows \ {f} : flow'[g] = Touch(S)[g]
  BY <1>2 DEF Touch
<1>4. l \in Locals
  BY <1>1 DEF Locals, Steps
<1>5. Sound(f, flow[f], assigned[f])'
  <2>1. RowsAsHeld(f, flow[f])'
    <3>1. l.pc \in {"current", "read"} /\ l.touched = {} /\ l.active = flow[f].active
      BY <1>1 DEF Locals
    <3> HIDE DEF l
    <3>2. l.active \in Accounts => status'[l.active] # "MISSING"
      BY <1>1, <1>2, <3>1, InLineRows DEF Sound, RowsAsHeld
    <3> QED BY <1>1, <1>2, <1>3, <3>1, <3>2, InLineRows DEF RowsAsHeld
  <2>2. f \in Jobs => Chosen(l) /\ Progress(l, assigned[f])
    BY <1>1, <1>2 DEF Locals, Sound, Chosen, Progress, Choosing, Rerouting, Using
  <2> QED BY <1>2, <1>3, <2>1, <2>2 DEF Sound, Chosen, Progress
<1>6. ASSUME NEW g \in Flows \ {f}
      PROVE  flow'[g] \in Locals /\ Sound(g, flow[g], assigned[g])'
  BY <1>1, <1>2, <1>3, InLineRows, TouchedSound
<1>7. TypeOK'
  <2>1. flow' \in [Flows -> Locals]
    BY <1>2, <1>3, <1>4, <1>6 DEF Touch
  <2> QED BY <1>1, <1>2, <2>1, InLineRows DEF TypeOK
<1>8. QuarantinedAwaitReview'
  BY <1>1, <1>2, InLineRows DEF QuarantinedAwaitReview
<1>9. AllSound'
  BY <1>5, <1>6 DEF AllSound
<1> QED BY <1>7, <1>8, <1>9, FlowByFlow, PTL

LEMMA OutcomeRow ==
    ASSUME NEW f \in Flows, flow[f] \in Locals
    PROVE  /\ Outcome(f).health \in 0..Full
           /\ Outcome(f).review \in BOOLEAN
           /\ Outcome(f).status \in {"QUARANTINED", "DISABLED", "ACTIVE"}
           /\ Outcome(f).status = "QUARANTINED" => Outcome(f).review
           /\ Outcome(f).status = "ACTIVE" => flow[f].seen.status # "DISABLED"
<1>1. flow[f].seen.health \in 0..Full
  BY DEF Locals, Rows
<1>2. Clamped(flow[f].seen.health + Delta(flow[f].result = "success",
                                          flow[f].result \in Restricting)) \in 0..Full
  BY <1>1 DEF Clamped, Delta, Full
<1> QED BY <1>2 DEF Outcome

LEMMA WriteOutcomeKeeps ==
    ASSUME IInv, NEW f \in Flows, WriteOutcome(f)
    PROVE  IInv'
<1>1. /\ flow[f] \in Locals /\ Sound(f, flow[f], assigned[f]) /\ TypeOK
      /\ f \in Jobs => assigned[f] \in Accounts \cup {Nobody}
  BY FlowFacts
<1>2. UNCHANGED <<assigned, runs>> /\ runs' \in Nat /\ flow[f].pc = "write"
  BY <1>1 DEF WriteOutcome, At, TypeOK
<1>3. CASE ~ Exists(Target(f))
  BY <1>2, <1>3, UnrecordedSound, OneFlowKept DEF WriteOutcome
<1>4. CASE Exists(Target(f))
  <2> DEFINE a == Target(f)
             S == IF Outcome(f).status # status[a] THEN {a} ELSE {}
             held == Touch(S)[f]
             l == [held EXCEPT !.pc = "event", !.seen = NoRow]
  <2>1. /\ status' = [status EXCEPT ![a] = Outcome(f).status]
        /\ health' = [health EXCEPT ![a] = Outcome(f).health]
        /\ review' = [review EXCEPT ![a] = Outcome(f).review]
        /\ barred' = IF Outcome(f).status = "QUARANTINED" THEN barred \cup {a} ELSE barred
        /\ flow' = [Touch(S) EXCEPT ![f] = l]
        /\ UNCHANGED edits
    BY <1>4 DEF WriteOutcome
  <2>2. a \in Accounts /\ S \in SUBSET Accounts
    BY <1>4 DEF Exists
  <2>3. /\ \A b \in Accounts \ S : status'[b] = status[b]
        /\ \A b \in Accounts : status[b] # "MISSING" => status'[b] # "MISSING"
        /\ status' \in [Accounts -> Statuses] /\ health' \in [Accounts -> 0..Full]
        /\ review' \in [Accounts -> BOOLEAN] /\ barred' \subseteq Accounts
    BY <1>1, <2>1, <2>2, OutcomeRow DEF TypeOK, Statuses
  <2>4. flow'[f] = l /\ \A g \in Flows \ {f} : flow'[g] = Touch(S)[g]
    BY <2>1 DEF Touch
  <2>5. ASSUME NEW g \in Flows \ {f}
        PROVE  flow'[g] \in Locals /\ Sound(g, flow[g], assigned[g])'
    BY <1>2, <2>2, <2>3, <2>4, TouchedSound
  <2>6. held = [flow[f] EXCEPT !.touched = @ \cup S]
    BY <1>2 DEF Touch, Synced, Relying
  <2>7. l \in Locals
    <3>1. NoRow \in Rows
      BY DEF NoRow, Rows, Statuses, Full
    <3>2. held \in Locals
      BY <1>1, <2>2, <2>6, SMTT(30) DEF Locals
    <3> HIDE DEF held
    <3> QED BY <3>1, <3>2 DEF Locals, Steps
  <2>8. Sound(f, flow[f], assigned[f])'
    <3>1. /\ l.pc = "event" /\ l.active = flow[f].active /\ l.purpose = flow[f].purpose
          /\ l.touched = flow[f].touched \cup S
      BY <1>1, <2>6 DEF Locals
    <3> HIDE DEF l
    <3>2. RowsAsHeld(f, flow[f])'
      <4>1. \A b \in Accounts \ l.touched : IF b \in Configured THEN status'[b] = "ACTIVE"
                                            ELSE status'[b] \in {"DISABLED", "MISSING"}
        BY <1>1, <1>2, <2>3, <3>1 DEF Sound, RowsAsHeld, Relying
      <4>2. l.active \in Accounts => status'[l.active] # "MISSING"
        BY <1>1, <2>3, <3>1 DEF Sound, RowsAsHeld
      <4> QED BY <2>4, <3>1, <4>1, <4>2 DEF RowsAsHeld
    <3>3. f \in Jobs => Chosen(l) /\ Progress(l, assigned[f])
      BY <1>1, <1>2, <3>1 DEF Sound, Chosen, Progress, Choosing, Rerouting, Using
    <3> QED BY <1>2, <2>4, <3>2, <3>3 DEF Sound, Chosen, Progress
  <2>9. TypeOK'
    <3>1. flow' \in [Flows -> Locals]
      BY <2>1, <2>4, <2>5, <2>7 DEF Touch
    <3> QED BY <1>1, <1>2, <2>1, <2>3, <3>1 DEF TypeOK
  <2>10. QuarantinedAwaitReview'
    BY <1>1, <2>1, <2>2, OutcomeRow DEF QuarantinedAwaitReview, TypeOK, IInv
  <2>11. AllSound'
    BY <2>5, <2>8 DEF AllSound
  <2> QED BY <2>9, <2>10, <2>11, FlowByFlow, PTL
<1> QED BY <1>3, <1>4

\* A change of one row by an operator that does not put it in quarantine
\* unreviewed.
LEMMA WriteKeeps ==
    ASSUME IInv, NEW a \in Accounts, NEW s \in Statuses \ {"MISSING"}, NEW h \in 0..Full,
           NEW r \in BOOLEAN, Write(a, s, h, r),
           barred' \subseteq Accounts, s = "QUARANTINED" => r
    PROVE  IInv'
<1> DEFINE S == IF s # status[a] THEN {a} ELSE {}
<1>1. TypeOK /\ QuarantinedAwaitReview
  BY DEF IInv
<1>2. /\ status' = [status EXCEPT ![a] = s]
      /\ health' = [health EXCEPT ![a] = h]
      /\ review' = [review EXCEPT ![a] = r]
      /\ flow' = Touch(S)
      /\ UNCHANGED <<assigned, runs>>
      /\ edits' = edits + 1
  BY DEF Write, Edit
<1>3. /\ \A b \in Accounts \ S : status'[b] = status[b]
      /\ \A b \in Accounts : status[b] # "MISSING" => status'[b] # "MISSING"
  BY <1>1, <1>2 DEF TypeOK
<1>4. ASSUME NEW g \in Flows
      PROVE  flow'[g] \in Locals /\ Sound(g, flow[g], assigned[g])'
  <2>1. S \in SUBSET Accounts
    OBVIOUS
  <2>2. flow'[g] = Touch(S)[g]
    BY <1>2
  <2> HIDE DEF S
  <2> QED BY <1>2, <1>3, <2>1, <2>2, TouchedSound
<1>5. TypeOK'
  <2>1. flow' \in [Flows -> Locals]
    BY <1>2, <1>4 DEF Touch
  <2> QED BY <1>1, <1>2, <2>1 DEF TypeOK
<1>6. QuarantinedAwaitReview'
  BY <1>1, <1>2 DEF QuarantinedAwaitReview, TypeOK
<1>7. AllSound'
  BY <1>4 DEF AllSound
<1> QED BY <1>5, <1>6, <1>7, FlowByFlow, PTL

LEMMA DeleteKeeps ==
    ASSUME IInv, NEW a \in Accounts, Delete(a)
    PROVE  IInv'
<1> DEFINE Cleared(x) == IF x = a THEN Gone ELSE x
           held(g) == Touch({a})[g]
           l(g) == [held(g) EXCEPT !.snap = Cleared(@), !.active = Cleared(@),
                                   !.cand = {Cleared(x) : x \in @}]
<1>1. TypeOK /\ QuarantinedAwaitReview
  BY DEF IInv
<1>2. /\ status' = [status EXCEPT ![a] = "MISSING"]
      /\ health' = [health EXCEPT ![a] = Full]
      /\ review' = [review EXCEPT ![a] = FALSE]
      /\ assigned' = [j \in Jobs |-> IF assigned[j] = a THEN Nobody ELSE assigned[j]]
      /\ flow' = [g \in Flows |-> l(g)]
      /\ barred' = barred \ {a}
      /\ edits' = edits + 1 /\ UNCHANGED runs
  BY DEF Delete, Edit
<1>3. ASSUME NEW g \in Flows
      PROVE  flow'[g] \in Locals /\ Sound(g, flow[g], assigned[g])'
  <2>1. flow[g] \in Locals /\ Sound(g, flow[g], assigned[g])
    BY FlowFacts
  <2>2. /\ held(g) \in Locals /\ held(g).pc = flow[g].pc /\ held(g).purpose = flow[g].purpose
        /\ held(g).snap = flow[g].snap /\ held(g).active = flow[g].active
        /\ held(g).cand = flow[g].cand /\ held(g).result = flow[g].result
        /\ held(g).seen = flow[g].seen
        /\ flow[g].touched \subseteq held(g).touched
        /\ flow[g].pc \in Relying => a \in held(g).touched
    BY <2>1 DEF Touch, Locals, Synced
  <2> HIDE DEF held
  <2>3. l(g) \in Locals
    <3>1. /\ Cleared(held(g).snap) \in Accounts \cup {Nobody, Gone}
          /\ Cleared(held(g).active) \in Accounts \cup {Nobody, Gone}
          /\ {Cleared(x) : x \in held(g).cand} \subseteq Accounts \cup {Gone}
      BY <2>2 DEF Locals
    <3> HIDE DEF Cleared
    <3> QED BY <2>2, <3>1 DEF Locals
  <2>4. /\ l(g).pc = flow[g].pc /\ l(g).purpose = flow[g].purpose
        /\ l(g).snap = Cleared(flow[g].snap) /\ l(g).active = Cleared(flow[g].active)
        /\ l(g).cand = {Cleared(x) : x \in flow[g].cand} /\ l(g).result = flow[g].result
        /\ l(g).seen = flow[g].seen /\ l(g).touched = held(g).touched
    BY <2>2 DEF Locals
  <2>5. flow'[g] = l(g)
    BY <1>2
  <2> HIDE DEF l
  <2>6. RowsAsHeld(g, flow[g])'
    <3>1. \A b \in Accounts : b # a => status'[b] = status[b]
      BY <1>1, <1>2 DEF TypeOK
    <3>2. flow[g].pc \in Relying => \A b \in Accounts \ l(g).touched :
             b # a /\ b \in Accounts \ flow[g].touched
      BY <2>2, <2>4
    <3>3. flow[g].pc \in Relying => \A b \in Accounts \ l(g).touched :
             IF b \in Configured THEN status'[b] = "ACTIVE"
             ELSE status'[b] \in {"DISABLED", "MISSING"}
      BY <2>1, <3>1, <3>2 DEF Sound, RowsAsHeld
    <3>4. l(g).active \in Accounts => status'[l(g).active] # "MISSING"
      BY <2>1, <2>4, <3>1, PoolAssumption DEF Sound, RowsAsHeld
    <3>5. TargetOf(g, l(g)) = Cleared(TargetOf(g, flow[g]))
      BY <2>4 DEF TargetOf
    <3>6. ASSUME flow[g].pc = "write", TargetOf(g, l(g)) \in Accounts \ l(g).touched
          PROVE  l(g).seen.status = status'[TargetOf(g, l(g))]
      <4>1. TargetOf(g, flow[g]) = TargetOf(g, l(g)) /\ TargetOf(g, l(g)) # a
        BY <3>5, <3>6, PoolAssumption
      <4> QED BY <2>1, <2>4, <3>1, <3>2, <3>6, <4>1 DEF Sound, RowsAsHeld, Relying
    <3> QED BY <2>4, <2>5, <3>3, <3>4, <3>6 DEF RowsAsHeld, TargetOf
  <2>7. g \in Jobs => Chosen(l(g)) /\ Progress(l(g), assigned'[g])
    <3>1. SUFFICES ASSUME g \in Jobs PROVE Chosen(l(g)) /\ Progress(l(g), assigned'[g])
      OBVIOUS
    <3>2. assigned'[g] = IF assigned[g] = a THEN Nobody ELSE assigned[g]
      BY <1>2, <3>1
    <3>3. Chosen(l(g))
      BY <2>1, <2>2, <2>4, <3>1 DEF Sound, Chosen
    <3>4. Progress(l(g), assigned'[g])
      BY <2>1, <2>4, <3>1, <3>2, PoolAssumption DEF Sound, Progress, Locals
    <3> QED BY <3>3, <3>4
  <2> QED BY <2>3, <2>5, <2>6, <2>7 DEF Sound, Chosen, Progress
<1>4. TypeOK'
  <2>1. flow' \in [Flows -> Locals]
    BY <1>2, <1>3
  <2>2. assigned' \in [Jobs -> Accounts \cup {Nobody}]
    BY <1>1, <1>2 DEF TypeOK
  <2>3. /\ status' \in [Accounts -> Statuses] /\ health' \in [Accounts -> 0..Full]
        /\ review' \in [Accounts -> BOOLEAN] /\ barred' \subseteq Accounts
        /\ runs' \in Nat /\ edits' \in Nat
    <3> HIDE DEF l, held, Cleared
    <3>1. "MISSING" \in Statuses /\ Full \in 0..Full
      BY DEF Statuses, Full
    <3>2. status' \in [Accounts -> Statuses] /\ health' \in [Accounts -> 0..Full]
      BY <1>1, <1>2, <3>1 DEF TypeOK
    <3>3. review' \in [Accounts -> BOOLEAN] /\ barred' \subseteq Accounts
      BY <1>1, <1>2 DEF TypeOK
    <3> QED BY <1>1, <1>2, <3>2, <3>3 DEF TypeOK
  <2> QED BY <2>1, <2>2, <2>3 DEF TypeOK
<1>5. QuarantinedAwaitReview'
  BY <1>1, <1>2 DEF QuarantinedAwaitReview, TypeOK
<1>6. AllSound'
  BY <1>3 DEF AllSound
<1> QED BY <1>4, <1>5, <1>6, FlowByFlow, PTL

LEMMA OperatorKeeps ==
    ASSUME IInv, Operator
    PROVE  IInv'
<1>1. TypeOK
  BY DEF IInv
<1>2. ASSUME NEW a \in Accounts, Quarantine(a) PROVE IInv'
  BY <1>1, <1>2, WriteKeeps DEF Quarantine, TypeOK, Statuses
<1>3. ASSUME NEW a \in Accounts, RequestReplacement(a) PROVE IInv'
  <2>1. status[a] \in Statuses \ {"MISSING"} /\ health[a] \in 0..Full
    BY <1>1, <1>3 DEF RequestReplacement, Exists, TypeOK
  <2> QED BY <1>1, <1>3, <2>1, WriteKeeps DEF RequestReplacement, TypeOK
<1>4. ASSUME NEW a \in Accounts, ActivateReplacement(a) PROVE IInv'
  <2>1. Full \in 0..Full
    BY DEF Full
  <2> QED BY <1>1, <1>4, <2>1, WriteKeeps DEF ActivateReplacement, TypeOK, Statuses
<1>5. ASSUME NEW a \in Accounts, Link(a) PROVE IInv'
  BY <1>1, <1>5, WriteKeeps DEF Link, TypeOK, Statuses
<1>6. ASSUME NEW a \in Accounts, Disable(a) PROVE IInv'
  BY <1>1, <1>6, WriteKeeps DEF Disable, TypeOK, Statuses
<1>7. ASSUME NEW f \in Jobs, Retry(f) PROVE IInv'
  <2> DEFINE l == Idle("queued")
  <2>1. l \in Locals /\ \A g, s : Sound(g, l, s)
    BY IdleSound
  <2>2. f \in Flows /\ flow' = [flow EXCEPT ![f] = l] /\ edits' = edits + 1
        /\ UNCHANGED <<status, health, review, assigned, barred, runs>>
    BY <1>7 DEF Retry, Edit, Flows
  <2> HIDE DEF l
  <2>3. TypeOK'
    BY <1>1, <2>1, <2>2 DEF TypeOK
  <2>4. QuarantinedAwaitReview'
    BY <2>2 DEF QuarantinedAwaitReview, IInv
  <2>5. \A g \in Flows : Sound(g, flow'[g], assigned[g])
    BY <1>1, <2>1, <2>2, FlowByFlow DEF TypeOK, AllSound
  <2>6. AllSound'
    BY <2>2, <2>5 DEF AllSound, Sound, RowsAsHeld
  <2> QED BY <2>3, <2>4, <2>6, FlowByFlow, PTL
<1> QED BY <1>2, <1>3, <1>4, <1>5, <1>6, <1>7, DeleteKeeps DEF Operator

LEMMA InitSound == Init => IInv
<1> SUFFICES ASSUME Init PROVE IInv
  OBVIOUS
<1>1. NoRow \in Rows /\ Idle("new") \in Locals
  BY DEF NoRow, Rows, Statuses, Full, Idle, Locals, Steps, Purposes
<1>2. TypeOK
  BY <1>1, PoolAssumption DEF Init, TypeOK, Statuses, Full
<1>3. QuarantinedAwaitReview
  BY DEF Init, QuarantinedAwaitReview
<1>4. ASSUME NEW f \in Flows PROVE Sound(f, flow[f], assigned[f])
  <2>1. flow[f] = Idle("new")
    BY DEF Init
  <2> QED BY <2>1, PoolAssumption DEF Sound, RowsAsHeld, Chosen, Progress, Idle, Relying,
         Choosing, Rerouting, Using
<1> QED BY <1>2, <1>3, <1>4, FlowByFlow DEF AllSound

LEMMA StutterKeeps == IInv /\ UNCHANGED vars => IInv'
BY DEF vars, IInv, TypeOK, QuarantinedAwaitReview, Aligned, SeenIsCurrent, ActiveExists,
   SelectionFollowsConfiguration, SnapIsAssigned, SelectionState, RerouteLeavesAccount,
   Synced, At, Target, Exists

LEMMA NextKeeps == IInv /\ [Next]_vars => IInv'
<1> SUFFICES ASSUME IInv, Next PROVE IInv'
  BY StutterKeeps
<1>1. CASE Operator
  BY <1>1, OperatorKeeps
<1>2. ASSUME NEW f \in Flows, FlowStep(f) PROVE IInv'
  BY <1>2, ScheduleKeeps, ExecuteKeeps, ComposeKeeps, SyncKeeps, CurrentKeeps,
     ReadCandidatesKeeps, PickKeeps, AssignKeeps, RefreshKeeps, PostKeeps, ReadRowKeeps,
     WriteOutcomeKeeps, SettleKeeps, RecoverKeeps, CrashKeeps DEF FlowStep
<1> QED BY <1>1, <1>2 DEF Next

\* The invariant of the account pool holds in every deployment: any accounts and
\* configuration, any number of jobs and manual posts (accounts.service.ts and
\* the flows of publishing.service.ts).
THEOREM PoolInvariant == Spec => []IInv
BY InitSound, NextKeeps, PTL DEF Spec

\* Every variable keeps its type; in particular no sequence of outcomes takes an
\* account's health out of 0..1 (clamp in recordPublishOutcome).
THEOREM PoolTypeCorrect == Spec => []TypeOK
<1>1. IInv => TypeOK
  BY DEF IInv
<1> QED BY <1>1, PoolInvariant, PTL

\* An account in quarantine always waits for review (recordPublishOutcome,
\* quarantineAccount, activateReplacement).
THEOREM QuarantineReviewed == Spec => []QuarantinedAwaitReview
<1>1. IInv => QuarantinedAwaitReview
  BY DEF IInv
<1> QED BY <1>1, PoolInvariant, PTL

\* An account chosen to post is configured, or its row was changed after the
\* choosing flow's own sync (getEligibleAccount).
THEOREM SelectionConfigured == Spec => []SelectionFollowsConfiguration
<1>1. IInv => SelectionFollowsConfiguration
  BY DEF IInv
<1> QED BY <1>1, PoolInvariant, PTL

\* A reroute leaves the account that failed, and the job names the account that
\* posts (tryRerouteFailedJob, executePublishJob).
THEOREM RerouteLeaves == Spec => []RerouteLeavesAccount
<1>1. IInv => RerouteLeavesAccount
  BY DEF IInv
<1> QED BY <1>1, PoolInvariant, PTL

\* What ends the withdrawal of one account.
Knowingly(a) ==
    \/ a \in Configured /\ \E f \in Flows :
                              flow[f].pc \in {"sync", "resync"} /\ flow'[f].pc # flow[f].pc
    \/ edits' # edits
    \/ \E f \in Flows : At(f, "write") /\ Target(f) = a /\ a \in flow[f].touched

LEMMA WithdrawalStep ==
    ASSUME IInv, Next, NEW a \in Accounts,
           status[a] \in {"QUARANTINED", "DISABLED"}, status'[a] = "ACTIVE"
    PROVE  Knowingly(a)
<1>1. TypeOK /\ status' # status
  BY DEF IInv
<1>2. ASSUME NEW f \in Flows, Sync(f) PROVE Knowingly(a)
  <2>1. a \in Configured
    BY <1>2 DEF Sync, InLine
  <2>2. flow[f].pc \in {"sync", "resync"}
    BY <1>2 DEF Sync
  <2>3. flow'[f].pc \in {"current", "read"}
    <3>1. flow[f] \in Locals
      BY <1>1 DEF TypeOK
    <3> QED BY <1>2, <3>1 DEF Sync, Touch, Locals
  <2>4. flow'[f].pc # flow[f].pc
    BY <2>2, <2>3
  <2> QED BY <2>1, <2>2, <2>4 DEF Knowingly
<1>3. ASSUME NEW f \in Flows, WriteOutcome(f) PROVE Knowingly(a)
  <2>1. Exists(Target(f)) /\ status' = [status EXCEPT ![Target(f)] = Outcome(f).status]
    BY <1>1, <1>3 DEF WriteOutcome, Unrecorded, Set
  <2>2. Target(f) = a /\ Outcome(f).status = "ACTIVE" /\ At(f, "write")
    BY <1>1, <1>3, <2>1 DEF TypeOK, Exists, WriteOutcome
  <2>3. flow[f].seen.status # "DISABLED"
    BY <1>1, <2>2, OutcomeRow DEF TypeOK
  <2>4. a \notin flow[f].touched => flow[f].seen.status = status[a] /\ status[a] # "QUARANTINED"
    BY <2>2 DEF IInv, SeenIsCurrent, Aligned, Synced, Relying, At
  <2> QED BY <2>2, <2>3, <2>4 DEF Knowingly
<1>4. ASSUME Operator PROVE Knowingly(a)
  <2>1. edits' = edits + 1
    BY <1>4 DEF Operator, Quarantine, RequestReplacement, ActivateReplacement, Link, Disable,
       Delete, Retry, Write, Edit
  <2> QED BY <1>1, <2>1 DEF TypeOK, Knowingly
<1>5. ASSUME NEW f \in Flows, FlowStep(f), ~ Sync(f), ~ WriteOutcome(f) PROVE FALSE
  <2>1. UNCHANGED status
    BY <1>5 DEF FlowStep, Schedule, Execute, Compose, Current, ReadCandidates, Pick, Assign,
       Refresh, Post, ReadRow, Settle, Recover, Crash, Unrecorded, Set
  <2> QED BY <1>1, <2>1
<1> QED BY <1>2, <1>3, <1>4, <1>5 DEF Next

\* A withdrawn account becomes ACTIVE again only by a sync that finds it
\* configured, by an operator, or by a flow under way when it was withdrawn
\* (syncPlatformAccounts, recordPublishOutcome).
THEOREM WithdrawalsEndKnowingly == Spec => WithdrawalEndsKnowingly
<1>1. IInv /\ [Next]_vars =>
        [\A a \in Accounts : status[a] \in {"QUARANTINED", "DISABLED"} /\ status'[a] = "ACTIVE"
             => Knowingly(a)]_vars
  BY WithdrawalStep
<1> QED BY <1>1, PoolInvariant, PTL DEF Spec, WithdrawalEndsKnowingly, Knowingly

=============================================================================
