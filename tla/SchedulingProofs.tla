-------------------------- MODULE SchedulingProofs --------------------------
(***************************************************************************)
(* Proofs about Scheduling: a row that stands over a quota or beside a     *)
(* duplicate has an explanation, whatever calls, rows and bounds there are.*)
(*                                                                         *)
(* Every step keeps the rows where they are, except at most one row k that *)
(* is new or moves (Keeps({k})), and k is then marked in whatever was      *)
(* checked before.  So what was checked holds of the unmarked rows.        *)
(***************************************************************************)
EXTENDS Scheduling, FiniteSetTheorems, TLAPS

Base == TypeOK /\ IsFiniteSet(DOMAIN job) /\ CallersOK

-----------------------------------------------------------------------------
(* Types.                                                                  *)

LEMMA BaseInit == Init => Base
<1> SUFFICES ASSUME Init PROVE Base
  OBVIOUS
<1> USE SchedulingAssumption DEF Init
<1>1. DOMAIN job = {} /\ DOMAIN missed = {}
  OBVIOUS
<1>2. Free \in CallerStates
  BY DEF Free, CallerStates, Steps
<1>3. caller \in [Callers -> CallerStates]
  BY <1>2
<1>4. since \in [Callers -> Marks]
  BY DEF Nothing, Marks
<1>5. job \in [DOMAIN job -> Rows] /\ missed \in [DOMAIN job -> Marks]
  BY <1>1
<1>6. draft \in [Drafts -> DraftStatuses]
  BY DEF DraftStatuses
<1>7. TypeOK
  BY <1>1, <1>3, <1>4, <1>5, <1>6 DEF TypeOK
<1>8. CallersOK
  BY DEF CallersOK, Free
<1> QED
  BY <1>1, <1>7, <1>8, FS_EmptySet DEF Base

\* A batch lists drafts.
LEMMA OrdersAreSequences ==
  ASSUME NEW D \in SUBSET Drafts, NEW s \in Orders(D)
  PROVE  s \in Seq(Drafts)
<1>1. IsFiniteSet(D)
  BY SchedulingAssumption, FS_Subset
<1>2. Cardinality(D) \in Nat
  BY <1>1, FS_CardinalityType
<1> QED
  BY <1>2 DEF Orders

\* What is common to the steps of a call: the caller's new state is well-formed.
LEMMA CallerTyped ==
  ASSUME Base, NEW c \in Callers, NEW x \in CallerStates,
         caller' = [caller EXCEPT ![c] = x],
         UNCHANGED <<now, job, reroute, moves, missed, moved>>,
         queued' = queued \/ queued' \in SUBSET [key : DOMAIN job, at : Nat],
         draft' \in [Drafts -> DraftStatuses], calls' \in 0..MaxCalls,
         since' \in [Callers -> Marks],
         x.step \notin {"idle", "load"} => x.i \in 1..Len(x.batch),
         x.step \notin {"idle", "load", "select"} => x.target \in Targets /\ x.account \in Accounts,
         x.step # "enqueue"
  PROVE  Base'
<1>1. TypeOK'
  BY DEF Base, TypeOK, Marks
<1>2. CallersOK'
  <2> SUFFICES ASSUME NEW d \in Callers
               PROVE  /\ caller'[d].step \notin {"idle", "load"}
                           => caller'[d].i \in 1..Len(caller'[d].batch)
                      /\ caller'[d].step \notin {"idle", "load", "select"} =>
                           caller'[d].target \in Targets /\ caller'[d].account \in Accounts
                      /\ caller'[d].step = "enqueue" => KeyOf(d)' \in DOMAIN job'
    BY DEF CallersOK
  <2>1. CASE d = c
    BY <2>1 DEF Base, TypeOK
  <2>2. CASE d # c
    <3>1. caller'[d] = caller[d]
      BY <2>2 DEF Base, TypeOK
    <3>2. KeyOf(d)' = KeyOf(d)
      BY <3>1 DEF KeyOf, Current
    <3> QED
      BY <3>1, <3>2 DEF Base, CallersOK
  <2> QED
    BY <2>1, <2>2
<1> QED
  BY <1>1, <1>2 DEF Base

LEMMA PassedTyped ==
  ASSUME Base, NEW c \in Callers, NEW t
  PROVE  /\ Passed(c, t) \in CallerStates
         /\ Passed(c, t).step = "select"
         /\ Passed(c, t).i = caller[c].i /\ Passed(c, t).batch = caller[c].batch
  BY ZenonT(40) DEF Base, TypeOK, CallerStates, Passed, Steps

LEMMA FreeTyped == Free \in CallerStates /\ Free.step = "idle"
  BY DEF Free, CallerStates, Steps

LEMMA CallBase ==
  ASSUME Base, NEW c \in Callers, RunSchedules(c) \/ Approve(c)
  PROVE  Base'
<1>1. ASSUME NEW batch \in Seq(Drafts), Call(c, batch),
             draft' \in [Drafts -> DraftStatuses]
      PROVE  Base'
  <2> DEFINE x == [Free EXCEPT !.step = "load", !.batch = batch]
  <2>1. x \in CallerStates /\ x.step = "load"
    BY <1>1, FreeTyped DEF CallerStates, Steps
  <2>2. caller' = [caller EXCEPT ![c] = x]
    BY <1>1 DEF Call
  <2>3. calls' \in 0..MaxCalls /\ since' \in [Callers -> Marks]
        /\ UNCHANGED <<now, job, queued, reroute, moves, missed, moved>>
    BY <1>1, SchedulingAssumption DEF Call, history, Base, TypeOK
  <2> HIDE DEF x
  <2> QED
    BY <1>1, <2>1, <2>2, <2>3, CallerTyped
<1>2. CASE RunSchedules(c)
  <2>1. PICK D \in SUBSET {d \in Drafts : draft[d] = "NEW"} : \E batch \in Orders(D) :
             /\ Call(c, batch)
             /\ draft' = [d \in Drafts |-> IF d \in D THEN "AUTO_APPROVED" ELSE draft[d]]
    BY <1>2 DEF RunSchedules
  <2>2. PICK batch \in Orders(D) : Call(c, batch)
    BY <2>1
  <2>3. batch \in Seq(Drafts)
    BY OrdersAreSequences
  <2>4. draft' \in [Drafts -> DraftStatuses]
    BY <2>1 DEF Base, TypeOK, DraftStatuses
  <2> QED
    BY <2>2, <2>3, <2>4, <1>1
<1>3. CASE Approve(c)
  <2>1. PICK d \in Drafts : Call(c, <<d>>) /\ draft' = [draft EXCEPT ![d] = "AUTO_APPROVED"]
    BY <1>3 DEF Approve
  <2>2. draft' \in [Drafts -> DraftStatuses]
    BY <2>1 DEF Base, TypeOK, DraftStatuses
  <2>3. <<d>> \in Seq(Drafts)
    OBVIOUS
  <2> QED
    BY <2>1, <2>2, <2>3, <1>1
<1> QED
  BY <1>2, <1>3

LEMMA LoadBase ==
  ASSUME Base, NEW c \in Callers, Load(c) \/ NextDraft(c) \/ Abort(c)
  PROVE  Base'
<1> USE DEF history
<1>0. caller[c] \in CallerStates
  BY DEF Base, TypeOK
<1>1. UNCHANGED <<now, draft, job, queued, reroute, calls, moves, missed, moved>>
  BY DEF Load, NextDraft, Abort
<1>2. since' \in [Callers -> Marks]
  BY SMTT(30) DEF Load, NextDraft, Abort, Remember, Base, TypeOK, Nothing, Marks
<1>3. draft' \in [Drafts -> DraftStatuses] /\ calls' \in 0..MaxCalls
  BY <1>1 DEF Base, TypeOK
<1>4. \E x \in CallerStates :
        /\ caller' = [caller EXCEPT ![c] = x]
        /\ x.step \in {"idle", "load", "select"}
        /\ x.step \notin {"idle", "load"} => x.i \in 1..Len(x.batch)
  <2>1. CASE Load(c) /\ caller[c].i > Len(caller[c].batch)
    BY <2>1, FreeTyped DEF Load
  <2>2. CASE Load(c) /\ ~(caller[c].i > Len(caller[c].batch)) /\ draft[Current(c)] = "AUTO_APPROVED"
    <3>1. PICK T \in SUBSET TargetsOf[Current(c)] :
            caller' = [caller EXCEPT ![c].step = "select", ![c].targets = T]
      BY <2>2 DEF Load
    <3>2. caller[c].i \in 1..Len(caller[c].batch)
      BY <1>0, <2>2 DEF CallerStates
    <3>3. Current(c) \in Drafts
      BY <1>0, <3>2 DEF Current, CallerStates
    <3>4. T \in SUBSET Targets
      BY <3>3, SchedulingAssumption
    <3> DEFINE x == [caller[c] EXCEPT !.step = "select", !.targets = T]
    <3>5. x \in CallerStates
      BY <1>0, <3>4 DEF CallerStates, Steps
    <3>6. x.step = "select" /\ x.i = caller[c].i /\ x.batch = caller[c].batch
      BY <1>0 DEF CallerStates
    <3> QED
      BY <3>1, <3>2, <3>5, <3>6
  <2>3. CASE Load(c) /\ ~(caller[c].i > Len(caller[c].batch)) /\ draft[Current(c)] # "AUTO_APPROVED"
    <3> DEFINE x == [caller[c] EXCEPT !.i = @ + 1]
    <3>1. x \in CallerStates /\ x.step = "load"
      BY <1>0, <2>3 DEF Load, CallerStates, Steps
    <3> QED
      BY <2>3, <3>1 DEF Load
  <2>4. CASE NextDraft(c)
    <3> DEFINE x == [caller[c] EXCEPT !.step = "load", !.i = @ + 1]
    <3>0. caller[c].i + 1 \in Nat \ {0}
      BY <1>0 DEF CallerStates
    <3>1. x \in CallerStates /\ x.step = "load"
      BY <1>0, <3>0 DEF CallerStates, Steps
    <3> QED
      BY <2>4, <3>1 DEF NextDraft
  <2>5. CASE Abort(c)
    BY <2>5, FreeTyped DEF Abort
  <2> QED
    BY <2>1, <2>2, <2>3, <2>4, <2>5
<1>5. PICK x \in CallerStates :
        /\ caller' = [caller EXCEPT ![c] = x]
        /\ x.step \in {"idle", "load", "select"}
        /\ x.step \notin {"idle", "load"} => x.i \in 1..Len(x.batch)
  BY <1>4
<1> QED
  BY <1>1, <1>2, <1>3, <1>5, CallerTyped

LEMMA TimesAreNat ==
  ASSUME Base, NEW c \in Callers, NEW t \in Targets
  PROVE  ScheduledTimes(c, t) \subseteq Nat
<1>1. Policy[PlatformOf[t]] \in [minDelay : Nat, maxDelay : Nat,
                                 accountQuota : Nat, globalQuota : Nat]
  BY SchedulingAssumption DEF Platforms
<1>2. now \in Nat /\ caller[c].i \in Nat \ {0} /\ TargetOffset[t] \in Nat /\ Stagger \in Nat
  BY SchedulingAssumption DEF Base, TypeOK, CallerStates
<1>3. (caller[c].i - 1) + TargetOffset[t] \in Nat
  BY <1>2
<1> DEFINE place == (caller[c].i - 1) + TargetOffset[t]
<1>4. \A n \in Nat, m \in Nat : n * m \in Nat
  OBVIOUS
<1>5. Stagger * place \in Nat
  BY <1>2, <1>3, <1>4
<1> HIDE DEF place
<1> DEFINE slot == Stagger * place
<1>6. slot \in Nat
  BY <1>5
<1> HIDE DEF slot
<1>7. \A lo \in Nat, hi \in Nat : {now + jitter + slot : jitter \in lo..hi} \subseteq Nat
  BY <1>2, <1>6
<1> QED
  BY <1>1, <1>7 DEF ScheduledTimes, slot, place

LEMMA DecideBase ==
  ASSUME Base, NEW c \in Callers, Select(c) \/ CheckExact(c) \/ CheckSimilar(c)
  PROVE  Base'
<1>0. caller[c] \in CallerStates /\ caller[c].i \in 1..Len(caller[c].batch)
  BY DEF Base, TypeOK, CallersOK, Select, CheckExact, CheckSimilar
<1>1. UNCHANGED <<now, draft, job, queued, reroute, calls, moves, missed, moved>>
  BY DEF Select, CheckExact, CheckSimilar
<1>2. since' \in [Callers -> Marks]
  <2>1. since \in [Callers -> Marks] /\ since[c] \in Marks /\ Nothing \in Marks
    BY DEF Base, TypeOK, Nothing, Marks
  <2>2. [since[c] EXCEPT !.copies = {}] \in Marks
    BY <2>1 DEF Marks
  <2>3. \E m \in Marks : since' = [since EXCEPT ![c] = m]
    BY <2>1, <2>2 DEF Select, CheckExact, CheckSimilar, Remember
  <2> QED
    BY <2>1, <2>3
<1>3. draft' \in [Drafts -> DraftStatuses] /\ calls' \in 0..MaxCalls
  BY <1>1 DEF Base, TypeOK
<1>4. \E x \in CallerStates :
        /\ caller' = [caller EXCEPT ![c] = x]
        /\ x.step # "enqueue" /\ x.i = caller[c].i /\ x.batch = caller[c].batch
        /\ x.step \notin {"idle", "load", "select"} =>
              x.target \in Targets /\ x.account \in Accounts
  <2>1. CASE \E t \in caller[c].targets : caller' = [caller EXCEPT ![c] = Passed(c, t)]
    BY <2>1, PassedTyped, ZenonT(40)
  <2>2. CASE /\ Select(c)
             /\ ~\E t \in caller[c].targets : caller' = [caller EXCEPT ![c] = Passed(c, t)]
    <3>0. PICK t \in caller[c].targets : \E at \in ScheduledTimes(c, t) : \E a \in Accounts :
             caller' = [caller EXCEPT ![c].step = "exact", ![c].target = t,
                                      ![c].at = at, ![c].account = a]
      BY <2>2, ZenonT(40) DEF Select
    <3>1. PICK at \in ScheduledTimes(c, t), a \in Accounts :
             caller' = [caller EXCEPT ![c].step = "exact", ![c].target = t,
                                      ![c].at = at, ![c].account = a]
      BY <3>0
    <3> DEFINE x == [caller[c] EXCEPT !.step = "exact", !.target = t, !.at = at, !.account = a]
    <3>2. t \in Targets
      BY <1>0 DEF CallerStates
    <3>3. at \in Nat
      BY <3>2, TimesAreNat
    <3>4. x \in CallerStates
      BY <1>0, <3>2, <3>3 DEF CallerStates, Steps
    <3>5. /\ x.step = "exact" /\ x.i = caller[c].i /\ x.batch = caller[c].batch
          /\ x.target = t /\ x.account = a
      BY <1>0 DEF CallerStates
    <3> QED
      BY <3>1, <3>2, <3>4, <3>5
  <2>3. CASE CheckExact(c) \/ CheckSimilar(c)
    <3>1. caller[c].target \in Targets /\ caller[c].account \in Accounts
      BY <2>3 DEF Base, CallersOK, CheckExact, CheckSimilar
    <3>2. PICK y \in {"similar", "create"} :
             \/ caller' = [caller EXCEPT ![c] = Passed(c, @.target)]
             \/ caller' = [caller EXCEPT ![c] = [@ EXCEPT !.step = y]]
      BY <2>3 DEF CheckExact, CheckSimilar
    <3> DEFINE x == [caller[c] EXCEPT !.step = y]
    <3>3. x \in CallerStates
      BY <1>0 DEF CallerStates, Steps
    <3>4. /\ x.step = y /\ x.i = caller[c].i /\ x.batch = caller[c].batch
          /\ x.target = caller[c].target /\ x.account = caller[c].account
      BY <1>0 DEF CallerStates
    <3>5. CASE caller' = [caller EXCEPT ![c] = Passed(c, @.target)]
      BY <3>5, PassedTyped
    <3>6. CASE caller' = [caller EXCEPT ![c] = x]
      BY <3>1, <3>3, <3>4, <3>6
    <3> QED
      BY <3>2, <3>5, <3>6
  <2> QED
    BY <2>1, <2>2, <2>3
<1>5. PICK x \in CallerStates :
        /\ caller' = [caller EXCEPT ![c] = x]
        /\ x.step # "enqueue" /\ x.i = caller[c].i /\ x.batch = caller[c].batch
        /\ x.step \notin {"idle", "load", "select"} =>
              x.target \in Targets /\ x.account \in Accounts
  BY <1>4
<1> QED
  BY <1>0, <1>1, <1>2, <1>3, <1>5, CallerTyped

LEMMA KeysTyped ==
  ASSUME Base, NEW c \in Callers, caller[c].step \notin {"idle", "load", "select"}
  PROVE  KeyOf(c) \in Keys /\ caller[c].target \in Targets /\ caller[c].account \in Accounts
         /\ Current(c) \in Drafts /\ caller[c].at \in Nat
<1>1. caller[c] \in CallerStates
  BY DEF Base, TypeOK
<1>2. caller[c].i \in 1..Len(caller[c].batch) /\ caller[c].target \in Targets
      /\ caller[c].account \in Accounts
  BY DEF Base, CallersOK
<1>3. Current(c) \in Drafts
  BY <1>1, <1>2 DEF Current, CallerStates
<1>4. caller[c].at \div Cooldown \in Nat
  <2>1. caller[c].at \in Nat /\ Cooldown \in Nat \ {0}
    BY <1>1, SchedulingAssumption DEF CallerStates
  <2>2. ASSUME NEW n \in Nat, NEW m \in Nat \ {0} PROVE n \div m \in Nat
    OBVIOUS
  <2> QED
    BY <2>1, <2>2
<1> QED
  BY <1>1, <1>2, <1>3, <1>4 DEF KeyOf, Keys, CallerStates

LEMMA MarksGrow ==
  ASSUME Base, DOMAIN job \subseteq DOMAIN job', NEW k \in DOMAIN job', NEW m \in Marks
  PROVE  Plus(m, k) \in Marks' /\ m \in Marks' /\ Nothing \in Marks'
  BY DEF Plus, Marks, Nothing

LEMMA CreateBase ==
  ASSUME Base, NEW c \in Callers, Create(c)
  PROVE  Base'
<1> DEFINE k == KeyOf(c)
<1>1. /\ caller[c] \in CallerStates /\ caller[c].step = "create"
      /\ caller[c].i \in 1..Len(caller[c].batch)
      /\ k \in Keys /\ caller[c].target \in Targets /\ caller[c].account \in Accounts
      /\ caller[c].at \in Nat
  BY KeysTyped DEF Base, TypeOK, CallersOK, Create
<1>2. CASE k \in DOMAIN job
  <2> DEFINE x == Passed(c, caller[c].target)
  <2>1. caller' = [caller EXCEPT ![c] = x]
    BY <1>2 DEF Create
  <2>2. UNCHANGED <<now, draft, job, queued, reroute, calls, moves, missed, moved>>
    BY <1>2 DEF Create
  <2>3. since' \in [Callers -> Marks]
    BY <1>2 DEF Create, Remember, Base, TypeOK, Nothing, Marks
  <2>4. draft' \in [Drafts -> DraftStatuses] /\ calls' \in 0..MaxCalls
    BY <2>2 DEF Base, TypeOK
  <2> QED
    BY <1>1, <2>1, <2>2, <2>3, <2>4, PassedTyped, CallerTyped
<1>3. CASE k \notin DOMAIN job
  <2> DEFINE x == [caller[c] EXCEPT !.step = "enqueue"]
  <2> DEFINE row == [status |-> "PENDING", at |-> caller[c].at,
                     account |-> caller[c].account, posted |-> 0]
  <2>1. /\ caller' = [caller EXCEPT ![c] = x]
        /\ job' = [l \in DOMAIN job \cup {k} |-> IF l = k THEN row ELSE job[l]]
        /\ Noted(k)
        /\ missed' = [l \in DOMAIN job \cup {k} |-> IF l = k THEN since[c] ELSE Plus(missed[l], k)]
        /\ UNCHANGED <<now, draft, queued, reroute, calls, moves, moved>>
    BY <1>3 DEF Create
  <2>2. row \in Rows
    BY <1>1 DEF Rows, Statuses
  <2> HIDE DEF row
  <2>3. DOMAIN job' = DOMAIN job \cup {k} /\ DOMAIN job' \subseteq Keys
    BY <1>1, <2>1 DEF Base, TypeOK
  <2>4. job' \in [DOMAIN job' -> Rows]
    BY <2>1, <2>2, <2>3 DEF Base, TypeOK
  <2>5. x \in CallerStates /\ x.step = "enqueue" /\ x.i = caller[c].i /\ x.batch = caller[c].batch
        /\ x.target = caller[c].target /\ x.account = caller[c].account /\ x.at = caller[c].at
    BY <1>1 DEF CallerStates, Steps
  <2>6. caller' \in [Callers -> CallerStates]
    BY <2>1, <2>5 DEF Base, TypeOK
  <2>7. \A m \in Marks : Plus(m, k) \in Marks' /\ m \in Marks' /\ Nothing \in Marks'
    BY <2>3, MarksGrow
  <2>7a. Nothing \in Marks'
    BY DEF Nothing, Marks
  <2>8. since' \in [Callers -> Marks]'
    BY <2>1, <2>7, <2>7a DEF Noted, Base, TypeOK
  <2>9. missed' \in [DOMAIN job' -> Marks']
    BY <2>1, <2>3, <2>7 DEF Base, TypeOK
  <2>10. queued' \in SUBSET [key : DOMAIN job', at : Nat] /\ moved' \in SUBSET DOMAIN job'
         /\ reroute' \in {None} \cup [key : DOMAIN job', account : Accounts]
    BY <2>1, <2>3 DEF Base, TypeOK
  <2>11. TypeOK'
    BY <2>1, <2>3, <2>4, <2>6, <2>8, <2>9, <2>10 DEF Base, TypeOK
  <2>12. IsFiniteSet(DOMAIN job')
    BY <2>3, FS_AddElement DEF Base
  <2>13. CallersOK'
    <3> SUFFICES ASSUME NEW d \in Callers
                 PROVE  /\ caller'[d].step \notin {"idle", "load"}
                             => caller'[d].i \in 1..Len(caller'[d].batch)
                        /\ caller'[d].step \notin {"idle", "load", "select"} =>
                             caller'[d].target \in Targets /\ caller'[d].account \in Accounts
                        /\ caller'[d].step = "enqueue" => KeyOf(d)' \in DOMAIN job'
      BY DEF CallersOK
    <3>1. CASE d = c
      <4>1. caller'[c] = x
        BY <2>1 DEF Base, TypeOK
      <4>2. KeyOf(c)' = k
        BY <4>1, <2>5 DEF KeyOf, Current
      <4> QED
        BY <1>1, <2>3, <2>5, <3>1, <4>1, <4>2
    <3>2. CASE d # c
      <4>1. caller'[d] = caller[d]
        BY <2>1, <3>2 DEF Base, TypeOK
      <4>2. KeyOf(d)' = KeyOf(d)
        BY <4>1 DEF KeyOf, Current
      <4> QED
        BY <2>3, <4>1, <4>2 DEF Base, CallersOK
    <3> QED
      BY <3>1, <3>2
  <2> QED
    BY <2>11, <2>12, <2>13 DEF Base
<1> QED
  BY <1>2, <1>3

LEMMA EnqueueBase ==
  ASSUME Base, NEW c \in Callers, Enqueue(c)
  PROVE  Base'
<1> USE DEF history
<1>1. /\ caller[c].i \in 1..Len(caller[c].batch) /\ KeyOf(c) \in DOMAIN job
      /\ queued' = queued \cup {[key |-> KeyOf(c), at |-> caller[c].at]}
      /\ UNCHANGED <<now, draft, job, reroute, calls, moves, since, missed, moved>>
  BY DEF Enqueue, Base, CallersOK
<1>1a. queued' \in SUBSET [key : DOMAIN job, at : Nat]
  BY <1>1 DEF Base, TypeOK, CallerStates
<1>2. /\ draft' \in [Drafts -> DraftStatuses] /\ calls' \in 0..MaxCalls
      /\ since' \in [Callers -> Marks]
  BY <1>1 DEF Base, TypeOK, Marks
<1> DEFINE x == Passed(c, caller[c].target)
<1>3. caller' = [caller EXCEPT ![c] = x]
  BY DEF Enqueue
<1> QED
  BY <1>1, <1>1a, <1>2, <1>3, PassedTyped, CallerTyped

LEMMA ReconciledTyped ==
  ASSUME Base, NEW J, NEW d PROVE Reconciled(J, d) \in [Drafts -> DraftStatuses]
  BY DEF Base, TypeOK, Reconciled, DraftStatuses

\* Steps that leave the calls alone.
LEMMA CallersKept ==
  ASSUME Base, UNCHANGED caller, DOMAIN job \subseteq DOMAIN job' PROVE CallersOK'
<1> SUFFICES ASSUME NEW d \in Callers
             PROVE  /\ caller'[d].step \notin {"idle", "load"}
                         => caller'[d].i \in 1..Len(caller'[d].batch)
                    /\ caller'[d].step \notin {"idle", "load", "select"} =>
                         caller'[d].target \in Targets /\ caller'[d].account \in Accounts
                    /\ caller'[d].step = "enqueue" => KeyOf(d)' \in DOMAIN job'
  BY DEF CallersOK
<1>1. KeyOf(d)' = KeyOf(d)
  BY DEF KeyOf, Current
<1> QED
  BY <1>1 DEF Base, CallersOK

LEMMA ExecuteBase ==
  ASSUME Base, NEW e \in queued, Execute(e)
  PROVE  Base'
<1>0. PICK k : k = e.key
  OBVIOUS
<1>0a. k \in DOMAIN job
  BY <1>0 DEF Base, TypeOK
<1>1. PICK outcome \in {"SUCCESS", "FAILED"} :
        /\ job' = [job EXCEPT ![k].status = outcome,
                              ![k].posted = IF outcome = "SUCCESS" THEN now ELSE @]
        /\ draft' = Reconciled(job', k.draft)
        /\ missed' = IF outcome = "SUCCESS" THEN missed ELSE [missed EXCEPT ![k] = Nothing]
  BY <1>0 DEF Execute
<1>2. DOMAIN job' = DOMAIN job
  BY <1>1
<1>3. job' \in [DOMAIN job' -> Rows]
  <2>1. job \in [DOMAIN job -> Rows] /\ now \in Nat /\ job[k] \in Rows
    BY <1>0a, SchedulingAssumption DEF Base, TypeOK
  <2>2. [job[k] EXCEPT !.status = outcome,
                       !.posted = IF outcome = "SUCCESS" THEN now ELSE @] \in Rows
    BY <2>1 DEF Rows, Statuses
  <2> QED
    BY <1>1, <2>1, <2>2
<1>4. missed' \in [DOMAIN job' -> Marks'] /\ since' \in [Callers -> Marks']
  BY <1>1, <1>2 DEF Execute, Base, TypeOK, Marks, Nothing
<1>5. draft' \in [Drafts -> DraftStatuses]
  BY <1>1, ReconciledTyped
<1>6. queued' \in SUBSET [key : DOMAIN job', at : Nat]
  BY <1>2 DEF Execute, Base, TypeOK
<1>7. TypeOK'
  BY <1>2, <1>3, <1>4, <1>5, <1>6 DEF Execute, Base, TypeOK
<1>8. CallersOK'
  BY <1>2, CallersKept DEF Execute
<1> QED
  BY <1>2, <1>7, <1>8 DEF Base

\* An entry is delivered and the row stays as it is.
LEMMA DeliverBase ==
  ASSUME Base, NEW e \in queued, Drop(e) \/ ChooseReroute(e)
  PROVE  Base'
<1>1. reroute' = reroute \/ reroute' \in [key : DOMAIN job, account : Accounts]
  BY DEF Drop, ChooseReroute, Base, TypeOK
<1>2. /\ UNCHANGED <<now, draft, job, caller, calls, moves, since, missed, moved>>
      /\ queued' \subseteq queued
  BY DEF Drop, ChooseReroute, history
<1>3. TypeOK'
  BY <1>1, <1>2 DEF Base, TypeOK, Marks
<1> QED
  BY <1>2, <1>3, CallersKept DEF Base

LEMMA MoveBase ==
  ASSUME Base, NEW k \in DOMAIN job, NEW at \in Nat, NEW a \in Accounts, Move(k, at, a),
         draft' \in [Drafts -> DraftStatuses], reroute' \in {None, reroute}
  PROVE  Base'
<1>1. job' = [job EXCEPT ![k].status = "PENDING", ![k].at = at, ![k].account = a]
  BY DEF Move
<1>2. DOMAIN job' = DOMAIN job
  BY <1>1
<1>3. job' \in [DOMAIN job' -> Rows]
  <2>1. job \in [DOMAIN job -> Rows] /\ job[k] \in Rows
    BY DEF Base, TypeOK
  <2>2. [job[k] EXCEPT !.status = "PENDING", !.at = at, !.account = a] \in Rows
    BY <2>1 DEF Rows, Statuses
  <2> QED
    BY <1>1, <2>1, <2>2
<1>4. \A m \in Marks : Plus(m, k) \in Marks' /\ Nothing \in Marks'
  BY <1>2, MarksGrow
<1>5. Nothing \in Marks'
  BY DEF Nothing, Marks
<1>6. missed' \in [DOMAIN job' -> Marks'] /\ since' \in [Callers -> Marks']
  BY <1>2, <1>4, <1>5 DEF Move, Noted, Base, TypeOK
<1>7. moves' \in 0..MaxMoves
  BY SchedulingAssumption DEF Move, Base, TypeOK
<1>8. TypeOK'
  BY <1>2, <1>3, <1>6, <1>7 DEF Move, Base, TypeOK
<1>9. CallersOK'
  BY <1>2, CallersKept DEF Move
<1> QED
  BY <1>2, <1>8, <1>9 DEF Base

LEMMA RearmBase ==
  ASSUME Base, (\E k \in DOMAIN job : Rearm(k)) \/ WriteReroute
  PROVE  Base'
<1>1. CASE WriteReroute
  <2>1. reroute.key \in DOMAIN job /\ reroute.account \in Accounts /\ now + Adaptive \in Nat
    BY <1>1, SchedulingAssumption DEF WriteReroute, Base, TypeOK
  <2> QED
    BY <1>1, <2>1, MoveBase DEF WriteReroute, Base, TypeOK
<1>2. ASSUME NEW k \in DOMAIN job, Rearm(k) PROVE Base'
  <2>1. now \in Nat /\ RetryDelay \in Nat /\ job[k].account \in Accounts
    BY SchedulingAssumption DEF Base, TypeOK, Rows
  <2>2. draft' \in [Drafts -> DraftStatuses] /\ reroute' = reroute
    BY <1>2, ReconciledTyped DEF Rearm
  <2>3. PICK delay \in {0, RetryDelay} : Move(k, now + delay, job[k].account)
    BY <1>2, <2>1 DEF Rearm
  <2> QED
    BY <2>1, <2>2, <2>3, MoveBase
<1> QED
  BY <1>1, <1>2

LEMMA BaseNext == Base /\ [Next]_vars => Base'
<1> SUFFICES ASSUME Base, [Next]_vars PROVE Base'
  OBVIOUS
<1>1. CASE \E c \in Callers : CallerStep(c)
  BY <1>1, CallBase, LoadBase, DecideBase, CreateBase, EnqueueBase DEF CallerStep
<1>2. CASE \E e \in queued : Execute(e) \/ Drop(e) \/ ChooseReroute(e)
  BY <1>2, ExecuteBase, DeliverBase
<1>2a. CASE \E k \in DOMAIN job : Rearm(k)
  BY <1>2a, RearmBase
<1>3. CASE WriteReroute
  BY <1>3, RearmBase
<1>4. CASE Tick
  <2>1. now' \in 0..MaxTime
    BY <1>4, SchedulingAssumption DEF Tick, Base, TypeOK
  <2>2. UNCHANGED <<draft, job, queued, caller, reroute, calls, moves, since, missed, moved>>
    BY <1>4 DEF Tick, history
  <2>3. TypeOK'
    BY <2>1, <2>2 DEF Base, TypeOK, Marks
  <2> QED
    BY <2>2, <2>3, CallersKept DEF Base
<1>5. CASE UNCHANGED vars
  <2>1. TypeOK' /\ UNCHANGED <<caller, job>>
    BY <1>5 DEF vars, Base, TypeOK, Marks
  <2> QED
    BY <2>1, CallersKept DEF Base
<1> QED
  BY <1>1, <1>2, <1>2a, <1>3, <1>4, <1>5 DEF Next

-----------------------------------------------------------------------------
(* What a step does to the rows.                                           *)

\* Outside M the rows there are were there, at the same time and account, and
\* none has come to life.
Keeps(M) ==
    /\ DOMAIN job \subseteq DOMAIN job'
    /\ \A l \in DOMAIN job' \ M :
          /\ l \in DOMAIN job
          /\ job'[l].at = job[l].at /\ job'[l].account = job[l].account
          /\ Live(l)' => Live(l)

LEMMA WithinShrinks ==
  ASSUME NEW M, Keeps(M), NEW at, NEW span
  PROVE  /\ Within(at, span)' \ M \subseteq Within(at, span)
         /\ \A l \in Within(at, span)' \ M : job'[l].account = job[l].account
  BY DEF Keeps, Within

LEMMA WithinFinite ==
  ASSUME Base, NEW at, NEW span
  PROVE  IsFiniteSet(Within(at, span))
  BY FS_Subset DEF Base, Within

\* A count of rows only loses by a step, apart from the marked rows.
LEMMA CountKept ==
  ASSUME Base, Base', NEW M, Keeps(M), NEW seen, NEW seenNext, NEW a, NEW n \in Nat,
         IsFiniteSet(seen), seenNext \subseteq seen,
         \A l \in seenNext : job'[l].account = job[l].account,
         Cardinality({l \in seen : job[l].account = a}) < n
  PROVE  Cardinality({l \in seenNext : job'[l].account = a}) < n
<1> DEFINE A == {l \in seen : job[l].account = a}
           B == {l \in seenNext : job'[l].account = a}
<1>1. B \subseteq A /\ IsFiniteSet(A)
  BY FS_Subset
<1>2. Cardinality(B) <= Cardinality(A) /\ Cardinality(A) \in Nat /\ Cardinality(B) \in Nat
  BY <1>1, FS_Subset, FS_CardinalityType
<1> QED
  BY <1>2

\* The quotas of every account are numbers.
LEMMA QuotaTyped ==
  ASSUME NEW a \in Accounts
  PROVE  /\ Policy[PlatformOf[a]].accountQuota \in Nat
         /\ Policy[PlatformOf[a]].globalQuota \in Nat
  BY SchedulingAssumption DEF Platforms

-----------------------------------------------------------------------------
(* Calls that stay where they are.                                         *)

\* Call d decides as before, and what moved is marked.
Stays(d, M) ==
    /\ caller'[d] = caller[d]
    /\ since[d].quota \cup M \subseteq since'[d].quota
    /\ since[d].copies \cup M \subseteq since'[d].copies
LEMMA RoomKept ==
  ASSUME Base, Base', NEW M, Keeps(M), NEW d \in Callers, Deciding(d), Stays(d, M), RoomLeft(d)
  PROVE  RoomLeft(d)'
<1> DEFINE at == caller[d].at
           a == caller[d].account
           p == Policy[PlatformOf[a]]
           seen == Within(at, Day) \ since[d].quota
           seenNext == Within(at, Day)' \ since'[d].quota
<1>1. a \in Accounts
  BY KeysTyped DEF Deciding
<1>2. p.accountQuota \in Nat /\ p.globalQuota \in Nat
  BY <1>1, QuotaTyped
<1>3. IsFiniteSet(seen)
  BY WithinFinite, FS_Subset
<1>4. seenNext \subseteq seen /\ \A l \in seenNext : job'[l].account = job[l].account
  BY WithinShrinks DEF Stays
<1>5. Cardinality({l \in seen : job[l].account = a}) < p.accountQuota
      /\ Cardinality(seen) < p.globalQuota
  BY DEF RoomLeft
<1> HIDE DEF seen, seenNext, p, a, at
<1>6. Cardinality({l \in seenNext : job'[l].account = a}) < p.accountQuota
  BY <1>2, <1>3, <1>4, <1>5, CountKept
<1>7. Cardinality(seenNext) < p.globalQuota
  <2>1. Cardinality(seenNext) <= Cardinality(seen)
        /\ Cardinality(seen) \in Nat /\ Cardinality(seenNext) \in Nat
    BY <1>3, <1>4, FS_Subset, FS_CardinalityType
  <2> QED
    BY <1>2, <1>5, <2>1
<1> QED
  BY <1>6, <1>7 DEF RoomLeft, Stays, seenNext, p, a, at, Within

LEMMA CrowdGrows ==
  ASSUME Base, Base', NEW M, Keeps(M), NEW d \in Callers, Stays(d, M)
  PROVE  Cardinality(CallCrowd(d)) <= Cardinality(CallCrowd(d)')
         /\ Cardinality(CallCrowd(d)) \in Nat /\ Cardinality(CallCrowd(d)') \in Nat
<1>1. CallCrowd(d) \subseteq CallCrowd(d)'
  BY DEF CallCrowd, Stays, Keeps
<1>2. CallCrowd(d)' \subseteq DOMAIN job' /\ IsFiniteSet(DOMAIN job')
  BY DEF CallCrowd, Base, TypeOK, Marks
<1> QED
  BY <1>1, <1>2, FS_Subset, FS_CardinalityType

LEMMA NoneFoundKept ==
  ASSUME Base, Base', NEW M, Keeps(M), NEW d \in Callers, Stays(d, M), NoneFound(d)
  PROVE  NoneFound(d)'
<1> SUFFICES ASSUME NEW l \in Recent(caller[d].target, caller[d].at)' \ since'[d].copies
             PROVE  /\ l.draft # Current(d)'
                    /\ caller'[d].step = "create" /\ <<l.draft, Current(d)'>> \in Similar
                         => Cardinality(CallCrowd(d)') > LookBack
  BY DEF NoneFound
<1>1. Current(d)' = Current(d) /\ caller'[d] = caller[d]
  BY DEF Stays, Current
<1>2. l \in Recent(caller[d].target, caller[d].at) \ since[d].copies
  BY <1>1 DEF Recent, Within, Keeps, Stays
<1>3. /\ l.draft # Current(d)
      /\ caller[d].step = "create" /\ <<l.draft, Current(d)>> \in Similar
           => Cardinality(CallCrowd(d)) > LookBack
  BY <1>2 DEF NoneFound
<1> QED
  BY <1>1, <1>3, CrowdGrows, SchedulingAssumption

-----------------------------------------------------------------------------
(* Rows that stay where they are.                                          *)

\* Row k stands where it stood, and what moved is marked.
Stands(k, M) ==
    /\ k \in DOMAIN job \ M
    /\ missed[k].quota \cup M \subseteq missed'[k].quota
    /\ missed[k].copies \cup M \subseteq missed'[k].copies

LEMMA HadRoomKept ==
  ASSUME Base, Base', NEW M, Keeps(M), NEW k, Stands(k, M), HadRoom(k)
  PROVE  HadRoom(k)'
<1> DEFINE a == job[k].account
           p == Policy[PlatformOf[a]]
           seen == Window(k, Day) \ missed[k].quota
           seenNext == Window(k, Day)' \ missed'[k].quota
<1>1. a \in Accounts /\ job'[k].account = a /\ job'[k].at = job[k].at /\ k \in DOMAIN job
  BY DEF Base, TypeOK, Rows, Stands, Keeps
<1>2. p.accountQuota \in Nat /\ p.globalQuota \in Nat
  BY <1>1, QuotaTyped
<1>3. IsFiniteSet(seen)
  BY FS_Subset DEF Base, Window, Within
<1>4. seenNext \subseteq seen /\ \A l \in seenNext : job'[l].account = job[l].account
  BY <1>1 DEF Stands, Window, Within, Keeps
<1>5. Cardinality({l \in seen : job[l].account = a}) < p.accountQuota
      /\ Cardinality(seen) < p.globalQuota
  BY DEF HadRoom
<1> HIDE DEF seen, seenNext, p, a
<1>6. Cardinality({l \in seenNext : job'[l].account = a}) < p.accountQuota
  BY <1>2, <1>3, <1>4, <1>5, CountKept
<1>7. Cardinality(seenNext) < p.globalQuota
  <2>1. Cardinality(seenNext) <= Cardinality(seen)
        /\ Cardinality(seen) \in Nat /\ Cardinality(seenNext) \in Nat
    BY <1>3, <1>4, FS_Subset, FS_CardinalityType
  <2> QED
    BY <1>2, <1>5, <2>1
<1> QED
  BY <1>1, <1>6, <1>7 DEF HadRoom, seenNext, p, a, Window, Within

LEMMA WasUniqueKept ==
  ASSUME Base, Base', NEW M, Keeps(M), NEW k, Stands(k, M), WasUnique(k)
  PROVE  WasUnique(k)'
<1>1. k \in DOMAIN job /\ job'[k].at = job[k].at
  BY DEF Stands, Keeps
<1>2. Cardinality(Crowd(k)) <= Cardinality(Crowd(k)')
      /\ Cardinality(Crowd(k)) \in Nat /\ Cardinality(Crowd(k)') \in Nat
  <2>1. Crowd(k) \subseteq Crowd(k)'
    BY <1>1 DEF Crowd, Stands, Keeps
  <2>2. Crowd(k)' \subseteq DOMAIN job' /\ IsFiniteSet(DOMAIN job')
    BY <1>1 DEF Crowd, Base, TypeOK, Marks, Keeps
  <2> QED
    BY <2>1, <2>2, FS_Subset, FS_CardinalityType
<1> SUFFICES ASSUME NEW l \in Window(k, Cooldown)' \ missed'[k].copies, Alike(k, l)
             PROVE  k.draft # l.draft /\ Cardinality(Crowd(k)') > LookBack
  BY DEF WasUnique, Alike
<1>3. l \in Window(k, Cooldown) \ missed[k].copies
  BY <1>1 DEF Stands, Window, Within, Keeps
<1>4. k.draft # l.draft /\ Cardinality(Crowd(k)) > LookBack
  BY <1>3 DEF WasUnique
<1> QED
  BY <1>2, <1>4, SchedulingAssumption

-----------------------------------------------------------------------------
(* The invariant, call by call and row by row.                             *)

CallOK(d) ==
    /\ Deciding(d) => RoomLeft(d)
    /\ caller[d].step \in {"similar", "create"} => NoneFound(d)

CallsOK == \A d \in Callers : CallOK(d)

RowsOK == DuplicatesExplained /\ QuotaExplained

LEMMA InvariantParts == Invariant <=> Base /\ CallsOK /\ RowsOK
  BY DEF Invariant, Base, CallsOK, CallOK, RowsOK

LEMMA CallKept ==
  ASSUME Base, Base', NEW M, Keeps(M), NEW d \in Callers, CallOK(d),
         caller'[d] = caller[d], Deciding(d) => Stays(d, M)
  PROVE  CallOK(d)'
<1>1. Deciding(d)' <=> Deciding(d)
  BY DEF Deciding
<1>2. Deciding(d)' => RoomLeft(d)'
  BY <1>1, RoomKept DEF CallOK
<1>3. caller[d].step \in {"similar", "create"} => Deciding(d)
  BY DEF Deciding
<1>4. caller'[d].step \in {"similar", "create"} => NoneFound(d)'
  BY <1>3, NoneFoundKept DEF CallOK
<1> QED
  BY <1>2, <1>4 DEF CallOK

\* A step of call c that leaves the rows alone.
LEMMA OneCallStep ==
  ASSUME Base, Base', CallsOK, NEW c \in Callers, UNCHANGED job,
         \A d \in Callers \ {c} : caller'[d] = caller[d] /\ since'[d] = since[d],
         CallOK(c)'
  PROVE  CallsOK'
<1>1. Keeps({})
  BY DEF Keeps, Live
<1>2. ASSUME NEW d \in Callers \ {c} PROVE CallOK(d)'
  BY <1>1, <1>2, CallKept DEF Stays, CallsOK
<1> QED
  BY <1>2 DEF CallsOK

LEMMA RowsUntouched ==
  ASSUME RowsOK, UNCHANGED <<job, missed, moved>> PROVE RowsOK'
<1>1. ASSUME NEW k PROVE Live(k)' = Live(k) /\ Window(k, Day)' = Window(k, Day)
                         /\ Window(k, Cooldown)' = Window(k, Cooldown) /\ Crowd(k)' = Crowd(k)
  BY DEF Live, Window, Within, Crowd
<1>2. ASSUME NEW k, WasUnique(k) PROVE WasUnique(k)'
  BY <1>1, <1>2 DEF WasUnique, Alike
<1>3. ASSUME NEW k, HadRoom(k) PROVE HadRoom(k)'
  BY <1>1, <1>3 DEF HadRoom
<1> QED
  BY <1>1, <1>2, <1>3 DEF RowsOK, DuplicatesExplained, QuotaExplained

LEMMA IdleOK ==
  ASSUME NEW d \in Callers, ~Deciding(d) PROVE CallOK(d)
  BY DEF CallOK, Deciding

\* Steps of a call that is not deciding afterwards.
LEMMA UndecidedCalls ==
  ASSUME Base, Base', CallsOK, RowsOK, NEW c \in Callers,
         \/ RunSchedules(c) \/ Approve(c) \/ Load(c) \/ NextDraft(c) \/ Enqueue(c) \/ Abort(c)
         \/ Create(c) /\ KeyOf(c) \in DOMAIN job
  PROVE  CallsOK' /\ RowsOK'
<1> USE DEF history
<1>1. UNCHANGED <<job, missed, moved>>
  BY DEF RunSchedules, Approve, Call, Load, NextDraft, Enqueue, Abort, Create
<1>2. \E x : caller' = [caller EXCEPT ![c] = x] /\ x.step \notin {"exact", "similar", "create"}
  <2>1. CASE RunSchedules(c) \/ Approve(c)
    <3>1. PICK batch : caller' = [caller EXCEPT ![c] =
                                    [Free EXCEPT !.step = "load", !.batch = batch]]
      BY <2>1 DEF RunSchedules, Approve, Call
    <3> DEFINE x == [Free EXCEPT !.step = "load", !.batch = batch]
    <3>2. x.step = "load"
      BY DEF Free
    <3> QED
      BY <3>1, <3>2
  <2>2. CASE Load(c) \/ NextDraft(c) \/ Abort(c)
    <3>1. caller[c] \in CallerStates /\ Free.step = "idle"
      BY FreeTyped DEF Base, TypeOK
    <3>2. caller' \in [Callers -> CallerStates]
      BY DEF Base, TypeOK
    <3>3. caller'[c].step \in {"idle", "load", "select"}
      BY <2>2, <3>1 DEF Load, NextDraft, Abort, Base, TypeOK, CallerStates
    <3>4. caller' = [caller EXCEPT ![c] = caller'[c]]
      BY <2>2, <3>1 DEF Load, NextDraft, Abort, Base, TypeOK
    <3> QED
      BY <3>3, <3>4
  <2>3. CASE Enqueue(c) \/ (Create(c) /\ KeyOf(c) \in DOMAIN job)
    BY <2>3, PassedTyped DEF Enqueue, Create
  <2> QED
    BY <2>1, <2>2, <2>3
<1>3. ~Deciding(c)' /\ \A d \in Callers \ {c} : caller'[d] = caller[d]
  BY <1>2 DEF Deciding, Base, TypeOK
<1>4. \A d \in Callers \ {c} : since'[d] = since[d]
  BY DEF RunSchedules, Approve, Call, Load, NextDraft, Enqueue, Abort, Create, Remember,
         Base, TypeOK
<1>5. CallOK(c)'
  BY <1>3, IdleOK DEF CallOK, Deciding
<1> QED
  BY <1>1, <1>3, <1>4, <1>5, OneCallStep, RowsUntouched

\* The look-back misses a row only when the target has more rows than it compares.
LEMMA LookBackMisses ==
  ASSUME Base, NEW W \in SUBSET DOMAIN job, NEW R \in Latest(W), NEW l \in W \ R
  PROVE  Cardinality(W) > LookBack
<1>1. R \subseteq W /\ Cardinality(R) <= LookBack /\ ~(Cardinality(R) < LookBack)
  BY DEF Latest
<1>2. IsFiniteSet(W) /\ IsFiniteSet(R)
  BY <1>1, FS_Subset DEF Base
<1>3. Cardinality(R) \in Nat /\ Cardinality(W) \in Nat
  BY <1>2, FS_CardinalityType
<1>4. IsFiniteSet(R \cup {l}) /\ Cardinality(R \cup {l}) = Cardinality(R) + 1
  BY <1>2, FS_AddElement
<1>5. Cardinality(R \cup {l}) <= Cardinality(W)
  BY <1>1, <1>2, FS_Subset
<1> QED
  BY <1>1, <1>3, <1>4, <1>5, SchedulingAssumption

LEMMA SelectOK ==
  ASSUME Base, Base', CallsOK, RowsOK, NEW c \in Callers, Select(c)
  PROVE  CallsOK' /\ RowsOK'
<1>1. UNCHANGED <<job, missed, moved>> /\ since' = [since EXCEPT ![c] = Nothing]
  BY DEF Select
<1>2. caller[c] \in CallerStates /\ since'[c] = Nothing
  BY <1>1 DEF Base, TypeOK
<1>3. \A d \in Callers \ {c} : caller'[d] = caller[d] /\ since'[d] = since[d]
  BY DEF Select, Base, TypeOK
<1>4. CallOK(c)'
  <2>1. CASE \E t \in caller[c].targets : caller' = [caller EXCEPT ![c] = Passed(c, t)]
    <3>1. caller'[c].step = "select"
      BY <2>1, PassedTyped DEF Base, TypeOK
    <3> QED
      BY <3>1 DEF CallOK, Deciding
  <2>2. CASE ~\E t \in caller[c].targets : caller' = [caller EXCEPT ![c] = Passed(c, t)]
    <3>0. PICK t \in caller[c].targets : \E at \in ScheduledTimes(c, t) : \E a \in Accounts :
             /\ WithinQuota(a, at)
             /\ caller' = [caller EXCEPT ![c].step = "exact", ![c].target = t,
                                         ![c].at = at, ![c].account = a]
      BY <2>2 DEF Select
    <3>1. PICK at \in ScheduledTimes(c, t), a \in Accounts :
             /\ WithinQuota(a, at)
             /\ caller' = [caller EXCEPT ![c].step = "exact", ![c].target = t,
                                         ![c].at = at, ![c].account = a]
      BY <3>0
    <3>2. caller'[c].step = "exact" /\ caller'[c].at = at /\ caller'[c].account = a
      BY <1>2, <3>1 DEF Base, TypeOK, CallerStates
    <3> DEFINE seenNext == Within(caller[c].at, Day)' \ since'[c].quota
    <3>3. Within(caller[c].at, Day)' = Within(at, Day)
      BY <1>1, <3>2 DEF Within, Live
    <3>4. seenNext = Within(at, Day)
      BY <1>2, <3>3 DEF Nothing
    <3>5. {l \in seenNext : job'[l].account = a} = OfAccount(a, at)
      BY <1>1, <3>4 DEF OfAccount
    <3>6. RoomLeft(c)'
      BY <3>1, <3>2, <3>4, <3>5 DEF RoomLeft, WithinQuota
    <3> QED
      BY <3>2, <3>6 DEF CallOK
  <2> QED
    BY <2>1, <2>2
<1> QED
  BY <1>1, <1>3, <1>4, OneCallStep, RowsUntouched

LEMMA CheckExactOK ==
  ASSUME Base, Base', CallsOK, RowsOK, NEW c \in Callers, CheckExact(c)
  PROVE  CallsOK' /\ RowsOK'
<1>1. UNCHANGED <<job, missed, moved>>
  BY DEF CheckExact
<1>2. caller[c] \in CallerStates /\ since[c] \in Marks /\ caller[c].step = "exact"
  BY DEF Base, TypeOK, CheckExact
<1>3. \A d \in Callers \ {c} : caller'[d] = caller[d] /\ since'[d] = since[d]
  BY DEF CheckExact, Remember, Base, TypeOK
<1>4. CallOK(c)'
  <2>1. CASE \E k \in Recent(caller[c].target, caller[c].at) : k.draft = Current(c)
    <3>1. caller'[c].step = "select"
      BY <2>1, PassedTyped DEF CheckExact, Base, TypeOK
    <3> QED
      BY <3>1 DEF CallOK, Deciding
  <2>2. CASE ~\E k \in Recent(caller[c].target, caller[c].at) : k.draft = Current(c)
    <3>1. caller' = [caller EXCEPT ![c] = [@ EXCEPT !.step = "similar"]]
      BY <2>2 DEF CheckExact
    <3>2. /\ caller'[c].step = "similar" /\ caller'[c].target = caller[c].target
          /\ caller'[c].at = caller[c].at /\ caller'[c].account = caller[c].account
          /\ caller'[c].batch = caller[c].batch /\ caller'[c].i = caller[c].i
      BY <1>2, <3>1 DEF Base, TypeOK, CallerStates
    <3>3. since'[c].quota = since[c].quota
      BY <1>2, <3>2 DEF CheckExact, Remember, Deciding, Base, TypeOK, Marks
    <3>4. /\ Within(caller[c].at, Day)' = Within(caller[c].at, Day)
          /\ Recent(caller[c].target, caller[c].at)' = Recent(caller[c].target, caller[c].at)
          /\ Current(c)' = Current(c)
      BY <1>1, <3>2 DEF Within, Recent, Live, Current
    <3>5. RoomLeft(c)
      BY <1>2 DEF CallsOK, CallOK, Deciding
    <3>6. RoomLeft(c)'
      BY <1>1, <3>2, <3>3, <3>4, <3>5 DEF RoomLeft
    <3>7. NoneFound(c)'
      BY <2>2, <3>2, <3>4 DEF NoneFound
    <3> QED
      BY <3>6, <3>7 DEF CallOK
  <2> QED
    BY <2>1, <2>2
<1> QED
  BY <1>1, <1>3, <1>4, OneCallStep, RowsUntouched

LEMMA CheckSimilarOK ==
  ASSUME Base, Base', CallsOK, RowsOK, NEW c \in Callers, CheckSimilar(c)
  PROVE  CallsOK' /\ RowsOK'
<1>1. UNCHANGED <<job, missed, moved>>
  BY DEF CheckSimilar
<1>2. caller[c] \in CallerStates /\ since[c] \in Marks /\ caller[c].step = "similar"
  BY DEF Base, TypeOK, CheckSimilar
<1>3. \A d \in Callers \ {c} : caller'[d] = caller[d] /\ since'[d] = since[d]
  BY DEF CheckSimilar, Remember, Base, TypeOK
<1> DEFINE W == Recent(caller[c].target, caller[c].at)
<1>4. PICK R \in Latest(W) :
        caller' = [caller EXCEPT ![c] =
            IF \E k \in R : <<k.draft, Current(c)>> \in Similar
            THEN Passed(c, @.target) ELSE [@ EXCEPT !.step = "create"]]
  BY DEF CheckSimilar
<1>5. CallOK(c)'
  <2>1. CASE \E k \in R : <<k.draft, Current(c)>> \in Similar
    <3>1. caller'[c].step = "select"
      BY <1>4, <2>1, PassedTyped DEF Base, TypeOK
    <3> QED
      BY <3>1 DEF CallOK, Deciding
  <2>2. CASE ~\E k \in R : <<k.draft, Current(c)>> \in Similar
    <3>1. caller' = [caller EXCEPT ![c] = [@ EXCEPT !.step = "create"]]
      BY <1>4, <2>2
    <3>2. /\ caller'[c].step = "create" /\ caller'[c].target = caller[c].target
          /\ caller'[c].at = caller[c].at /\ caller'[c].account = caller[c].account
          /\ caller'[c].batch = caller[c].batch /\ caller'[c].i = caller[c].i
      BY <1>2, <3>1 DEF Base, TypeOK, CallerStates
    <3>3. since'[c] = since[c]
      BY <1>2, <3>2 DEF CheckSimilar, Remember, Deciding, Base, TypeOK
    <3>4. /\ Within(caller[c].at, Day)' = Within(caller[c].at, Day)
          /\ Recent(caller[c].target, caller[c].at)' = W
          /\ Current(c)' = Current(c) /\ CallCrowd(c)' = CallCrowd(c)
      BY <1>1, <3>2, <3>3 DEF Within, Recent, Live, Current, CallCrowd
    <3>5. RoomLeft(c) /\ NoneFound(c)
      BY <1>2 DEF CallsOK, CallOK, Deciding
    <3>6. RoomLeft(c)'
      BY <1>1, <3>2, <3>3, <3>4, <3>5 DEF RoomLeft
    <3>7. ASSUME NEW l \in W \ since[c].copies
          PROVE  /\ l.draft # Current(c)
                 /\ <<l.draft, Current(c)>> \in Similar => Cardinality(CallCrowd(c)) > LookBack
      <4>1. l.draft # Current(c)
        BY <3>5, <3>7 DEF NoneFound
      <4>2. ASSUME <<l.draft, Current(c)>> \in Similar
            PROVE  Cardinality(CallCrowd(c)) > LookBack
        <5>1. W \in SUBSET DOMAIN job /\ l \in W \ R
          BY <2>2, <3>7, <4>2 DEF Recent, Within
        <5>2. Cardinality(W) > LookBack
          BY <5>1, LookBackMisses
        <5>3. W \subseteq CallCrowd(c) /\ CallCrowd(c) \subseteq DOMAIN job
          BY <1>2 DEF CallCrowd, Recent, Within, Marks
        <5>4. Cardinality(W) <= Cardinality(CallCrowd(c)) /\ Cardinality(W) \in Nat
              /\ Cardinality(CallCrowd(c)) \in Nat
          BY <5>3, FS_Subset, FS_CardinalityType DEF Base
        <5> QED
          BY <5>2, <5>4, SchedulingAssumption
      <4> QED
        BY <4>1, <4>2
    <3>8. NoneFound(c)'
      BY <3>2, <3>3, <3>4, <3>7 DEF NoneFound
    <3> QED
      BY <3>6, <3>8 DEF CallOK
  <2> QED
    BY <2>1, <2>2
<1> QED
  BY <1>1, <1>3, <1>5, OneCallStep, RowsUntouched

-----------------------------------------------------------------------------
(* Steps that change rows.                                                 *)

LEMMA CreateOK ==
  ASSUME Base, Base', CallsOK, RowsOK, NEW c \in Callers, Create(c), KeyOf(c) \notin DOMAIN job
  PROVE  CallsOK' /\ RowsOK'
<1>0. PICK k : k = KeyOf(c)
  OBVIOUS
<1>1. /\ caller[c].step = "create" /\ caller[c] \in CallerStates /\ since[c] \in Marks
      /\ caller' = [caller EXCEPT ![c].step = "enqueue"]
      /\ job' = [l \in DOMAIN job \cup {k} |->
                   IF l = k THEN [status |-> "PENDING", at |-> caller[c].at,
                                  account |-> caller[c].account, posted |-> 0]
                   ELSE job[l]]
      /\ Noted(k)
      /\ missed' = [l \in DOMAIN job \cup {k} |-> IF l = k THEN since[c] ELSE Plus(missed[l], k)]
      /\ moved' = moved
  BY <1>0 DEF Create, Base, TypeOK
<1>2. /\ DOMAIN job' = DOMAIN job \cup {k} /\ job'[k].at = caller[c].at
      /\ job'[k].account = caller[c].account /\ missed'[k] = since[c]
      /\ \A l \in DOMAIN job : job'[l] = job[l] /\ missed'[l] = Plus(missed[l], k)
  BY <1>0, <1>1
<1>3. Keeps({k})
  BY <1>2 DEF Keeps, Live
<1>4. /\ k.target = caller[c].target /\ k.draft = Current(c)
  BY <1>0 DEF KeyOf
<1>5. RoomLeft(c) /\ NoneFound(c)
  BY <1>1 DEF CallsOK, CallOK, Deciding
<1>6. CallsOK'
  <2>1. ASSUME NEW d \in Callers, d # c PROVE CallOK(d)'
    <3>1. caller'[d] = caller[d]
      BY <1>1, <2>1 DEF Base, TypeOK
    <3>2. Deciding(d) => Stays(d, {k})
      BY <1>1, <3>1 DEF Noted, Deciding, Stays, Plus
    <3> QED
      BY <1>3, <2>1, <3>1, <3>2, CallKept DEF CallsOK
  <2>2. caller'[c].step = "enqueue"
    BY <1>1 DEF Base, TypeOK, CallerStates
  <2>3. CallOK(c)'
    BY <2>2 DEF CallOK, Deciding
  <2> QED
    BY <2>1, <2>3 DEF CallsOK
<1>7. ASSUME NEW l \in DOMAIN job \ moved, Live(l)'
      PROVE  WasUnique(l)' /\ HadRoom(l)'
  <2>1. job'[l] = job[l] /\ missed'[l] = Plus(missed[l], k) /\ l # k
    BY <1>0, <1>2
  <2>2. Live(l)
    BY <2>1, <1>7 DEF Live
  <2>3. missed'[l].quota = missed[l].quota \cup {k} /\ missed'[l].copies = missed[l].copies \cup {k}
    BY <2>1 DEF Plus
  <2>4. Stands(l, {k})
    BY <2>1, <2>3 DEF Stands
  <2>5. WasUnique(l) /\ HadRoom(l)
    BY <2>2, <1>7 DEF RowsOK, DuplicatesExplained, QuotaExplained
  <2> QED
    BY <1>3, <2>4, <2>5, WasUniqueKept, HadRoomKept
<1>8. Window(k, Cooldown)' \subseteq Recent(caller[c].target, caller[c].at)
                                 \cup {l \in DOMAIN job : l.target # caller[c].target}
  BY <1>2 DEF Window, Within, Recent, Live
<1>9. WasUnique(k)'
  <2>1. Crowd(k)' = CallCrowd(c)
    BY <1>0, <1>2, <1>4 DEF Crowd, CallCrowd
  <2> SUFFICES ASSUME NEW l \in Window(k, Cooldown)' \ missed'[k].copies, Alike(k, l)
               PROVE  k.draft # l.draft /\ Cardinality(Crowd(k)') > LookBack
    BY DEF WasUnique, Alike
  <2>2. l \in Recent(caller[c].target, caller[c].at) \ since[c].copies
    BY <1>2, <1>4, <1>8 DEF Alike
  <2>3. /\ l.draft # Current(c)
        /\ <<l.draft, Current(c)>> \in Similar => Cardinality(CallCrowd(c)) > LookBack
    BY <1>1, <1>5, <2>2 DEF NoneFound
  <2> QED
    BY <1>4, <2>1, <2>3 DEF Alike
<1>10. HadRoom(k)'
  <2> DEFINE a == caller[c].account
             p == Policy[PlatformOf[a]]
             seen == Within(caller[c].at, Day) \ since[c].quota
             seenNext == Window(k, Day)' \ missed'[k].quota
  <2>1. a \in Accounts
    BY <1>1, KeysTyped
  <2>2. p.accountQuota \in Nat /\ p.globalQuota \in Nat
    BY <2>1, QuotaTyped
  <2>3. IsFiniteSet(seen)
    BY WithinFinite, FS_Subset
  <2>4. seenNext \subseteq seen /\ \A l \in seenNext : job'[l].account = job[l].account
    BY <1>2 DEF Window, Within, Live
  <2>5. Cardinality({l \in seen : job[l].account = a}) < p.accountQuota
        /\ Cardinality(seen) < p.globalQuota
    BY <1>5 DEF RoomLeft
  <2> HIDE DEF seen, seenNext, p, a
  <2>6. Cardinality({l \in seenNext : job'[l].account = a}) < p.accountQuota
    BY <1>3, <2>2, <2>3, <2>4, <2>5, CountKept
  <2>7. Cardinality(seenNext) < p.globalQuota
    <3>1. Cardinality(seenNext) <= Cardinality(seen)
          /\ Cardinality(seen) \in Nat /\ Cardinality(seenNext) \in Nat
      BY <2>3, <2>4, FS_Subset, FS_CardinalityType
    <3> QED
      BY <2>2, <2>5, <3>1
  <2> QED
    BY <1>2, <2>6, <2>7 DEF HadRoom, seenNext, p, a
<1> QED
  BY <1>1, <1>2, <1>6, <1>7, <1>9, <1>10 DEF RowsOK, DuplicatesExplained, QuotaExplained

LEMMA ExecuteOK ==
  ASSUME Base, Base', CallsOK, RowsOK, NEW e \in queued, Execute(e)
  PROVE  CallsOK' /\ RowsOK'
<1>0. PICK k : k = e.key
  OBVIOUS
<1>0a. k \in DOMAIN job /\ job[k].status = "PENDING"
  BY <1>0 DEF Execute, Base, TypeOK
<1>1. PICK outcome \in {"SUCCESS", "FAILED"} :
        /\ job' = [job EXCEPT ![k].status = outcome,
                              ![k].posted = IF outcome = "SUCCESS" THEN now ELSE @]
        /\ missed' = IF outcome = "SUCCESS" THEN missed ELSE [missed EXCEPT ![k] = Nothing]
  BY <1>0 DEF Execute
<1>2. /\ DOMAIN job' = DOMAIN job
      /\ \A l \in DOMAIN job : /\ job'[l].at = job[l].at /\ job'[l].account = job[l].account
                               /\ Live(l)' => (Live(l) /\ missed'[l] = missed[l])
  <2>1. job[k] \in Rows /\ job[k].status = "PENDING"
    BY <1>0a DEF Base, TypeOK
  <2>2. job'[k].at = job[k].at /\ job'[k].account = job[k].account /\ job'[k].status = outcome
    BY <1>0a, <1>1, <2>1 DEF Rows
  <2>3. Live(k) /\ (Live(k)' => missed'[k] = missed[k])
    BY <1>0a, <1>1, <2>1, <2>2 DEF Live
  <2>4. \A l \in DOMAIN job \ {k} : job'[l] = job[l] /\ missed'[l] = missed[l]
    BY <1>1 DEF Base, TypeOK
  <2> QED
    BY <1>1, <2>2, <2>3, <2>4 DEF Live
<1>3. Keeps({})
  BY <1>2 DEF Keeps
<1>4. ASSUME NEW d \in Callers PROVE CallOK(d)'
  BY <1>3, CallKept DEF Execute, Stays, CallsOK
<1>5. ASSUME NEW l \in DOMAIN job \ moved, Live(l)'
      PROVE  WasUnique(l)' /\ HadRoom(l)'
  <2>1. Stands(l, {}) /\ Live(l)
    BY <1>2, <1>5 DEF Stands
  <2>2. WasUnique(l) /\ HadRoom(l)
    BY <2>1, <1>5 DEF RowsOK, DuplicatesExplained, QuotaExplained
  <2> QED
    BY <1>3, <2>1, <2>2, WasUniqueKept, HadRoomKept
<1>6. moved' = moved
  BY DEF Execute
<1> QED
  BY <1>2, <1>4, <1>5, <1>6 DEF CallsOK, RowsOK, DuplicatesExplained, QuotaExplained

LEMMA MoveOK ==
  ASSUME Base, Base', CallsOK, RowsOK, NEW k \in DOMAIN job, NEW at, NEW a, Move(k, at, a)
  PROVE  CallsOK' /\ RowsOK'
<1>1. /\ job' = [job EXCEPT ![k].status = "PENDING", ![k].at = at, ![k].account = a]
      /\ caller' = caller /\ Noted(k) /\ moved' = moved \cup {k}
      /\ missed' = [l \in DOMAIN job |-> IF l = k THEN Nothing ELSE Plus(missed[l], k)]
  BY DEF Move
<1>2. /\ DOMAIN job' = DOMAIN job
      /\ \A l \in DOMAIN job \ {k} : job'[l] = job[l] /\ missed'[l] = Plus(missed[l], k)
  BY <1>1 DEF Base, TypeOK
<1>3. Keeps({k})
  BY <1>2 DEF Keeps, Live
<1>4. ASSUME NEW d \in Callers PROVE CallOK(d)'
  <2>1. Deciding(d) => Stays(d, {k})
    BY <1>1 DEF Noted, Deciding, Stays, Plus
  <2> QED
    BY <1>1, <1>3, <2>1, CallKept DEF CallsOK
<1>5. ASSUME NEW l \in DOMAIN job \ (moved \cup {k}), Live(l)'
      PROVE  WasUnique(l)' /\ HadRoom(l)'
  <2>1. job'[l] = job[l] /\ missed'[l] = Plus(missed[l], k)
    BY <1>2
  <2>2. Live(l)
    BY <2>1, <1>5 DEF Live
  <2>3. missed'[l].quota = missed[l].quota \cup {k} /\ missed'[l].copies = missed[l].copies \cup {k}
    BY <2>1 DEF Plus
  <2>4. Stands(l, {k})
    BY <2>3 DEF Stands
  <2>5. WasUnique(l) /\ HadRoom(l)
    BY <2>2, <1>5 DEF RowsOK, DuplicatesExplained, QuotaExplained
  <2> QED
    BY <1>3, <2>4, <2>5, WasUniqueKept, HadRoomKept
<1> QED
  BY <1>1, <1>2, <1>4, <1>5 DEF CallsOK, RowsOK, DuplicatesExplained, QuotaExplained

-----------------------------------------------------------------------------
(* The theorems.                                                           *)

LEMMA InvariantInit == Init => Invariant
<1> SUFFICES ASSUME Init PROVE CallsOK /\ RowsOK
  BY BaseInit, InvariantParts
<1>1. CallsOK
  BY DEF Init, Free, CallsOK, CallOK, Deciding
<1>2. RowsOK
  BY DEF Init, RowsOK, DuplicatesExplained, QuotaExplained
<1> QED
  BY <1>1, <1>2

LEMMA InvariantNext == Invariant /\ [Next]_vars => Invariant'
<1>a. Invariant' <=> Base' /\ CallsOK' /\ RowsOK'
  BY DEF Invariant, Base, CallsOK, CallOK, RowsOK
<1> SUFFICES ASSUME Base, CallsOK, RowsOK, [Next]_vars PROVE CallsOK' /\ RowsOK'
  BY <1>a, BaseNext, InvariantParts
<1>0. Base'
  BY BaseNext
<1>1. ASSUME NEW c \in Callers, CallerStep(c) PROVE CallsOK' /\ RowsOK'
  BY <1>0, <1>1, UndecidedCalls, SelectOK, CheckExactOK, CheckSimilarOK, CreateOK
     DEF CallerStep
<1>2. ASSUME NEW k \in DOMAIN job, Rearm(k) PROVE CallsOK' /\ RowsOK'
  BY <1>0, <1>2, MoveOK DEF Rearm
<1>3. CASE WriteReroute
  <2>1. reroute.key \in DOMAIN job
    BY <1>3 DEF WriteReroute, Base, TypeOK
  <2> QED
    BY <1>0, <1>3, <2>1, MoveOK DEF WriteReroute
<1>4. ASSUME UNCHANGED <<job, caller, since, missed, moved>> PROVE CallsOK' /\ RowsOK'
  <2>1. Keeps({})
    BY <1>4 DEF Keeps, Live
  <2>2. ASSUME NEW d \in Callers PROVE CallOK(d)'
    BY <1>0, <1>4, <2>1, CallKept DEF CallsOK, Stays
  <2> QED
    BY <1>4, <2>2, RowsUntouched DEF CallsOK
<1>5. CASE Tick \/ UNCHANGED vars \/ \E e \in queued : Drop(e) \/ ChooseReroute(e)
  BY <1>4, <1>5 DEF Tick, vars, Drop, ChooseReroute, history
<1> QED
  BY <1>0, <1>1, <1>2, <1>3, <1>5, ExecuteOK DEF Next

\* The inductive invariant: what a call has checked still holds of the rows
\* that have not moved since, while it decides and in the row it creates.
THEOREM SchedulingCorrect == Spec => []Invariant
  BY InvariantInit, InvariantNext, PTL DEF Spec

\* Rows, calls and queue entries keep their types; only rows there are are queued.
THEOREM SchedulingTypes == Spec => []TypeOK
<1>1. Invariant => TypeOK
  BY DEF Invariant
<1> QED
  BY <1>1, SchedulingCorrect, PTL

\* Whatever the drafts, targets, accounts, overlapping calls and bounds are, a
\* duplicate within the cooldown involves a row that moved after the check.
THEOREM DuplicatesAreExplained == Spec => []DuplicatesExplained
<1>1. Invariant => DuplicatesExplained
  BY DEF Invariant
<1> QED
  BY <1>1, SchedulingCorrect, PTL

\* So does a row over a full quota, for every quota.
THEOREM QuotaExcessExplained == Spec => []QuotaExplained
<1>1. Invariant => QuotaExplained
  BY DEF Invariant
<1> QED
  BY <1>1, SchedulingCorrect, PTL

=============================================================================
