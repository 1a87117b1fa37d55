--------------------------- MODULE ServicesProofs ---------------------------
(***************************************************************************)
(* Proofs about the ingestion and about the chats of Telegram, for any     *)
(* sources, items and cycles, any candidates, calls and references; and    *)
(* about the four components beside each other.                            *)
(*                                                                         *)
(* Ingestion: what a connector has selected is accounted for at each of    *)
(* its steps, and a connector that has ended has written the state of its  *)
(* source.  Whatever the cycles that run at once, only a later cycle, a    *)
(* failed one, or one that it ran beside can have written over that state. *)
(* And a search of any configuration tries all of its time range before    *)
(* it leaves it.                                                           *)
(*                                                                         *)
(* Telegram: a row goes on standing for the chat that a call has read it   *)
(* for, whatever other calls and moves of groups do; and while no answer   *)
(* is lost, the chats that have a message are those of references done     *)
(* with.  The lemmas FlowMoves and RowWritten say what a step of a call,   *)
(* and a write of a row, have to keep.                                     *)
(***************************************************************************)
EXTENDS MCServices, PipelineProofs, ManualPostsProofs, SequenceTheorems

-----------------------------------------------------------------------------
(* The ingestion.                                                          *)

TaskRecord ==
    [step : {"idle", "fetch", "store", "report", "ended", "thrown"},
     at : Nat, plan : Nat, best : SUBSET Items, chosen : SUBSET Items,
     ok : Nat, errs : SUBSET Nat, outcome : {"none", "healthy", "failed", "unconfigured"}]

\* What a connector has selected is an event, has its error noted, or is about
\* to be stored; what it holds was offered by the batch it is at.
Accounted(s, t, stock) ==
    /\ t.best \subseteq Offered(s, t.at)
    /\ \A i \in t.chosen : \/ Key(s, i) \in stock \/ Home[i][2] \in t.errs
                           \/ t.step = "store" /\ i \in t.best

\* Where two cycles have started, the older was over or ran beside the younger;
\* a connector runs in a cycle that has started, and none in one that is done.
CyclesInOrder ==
    /\ \A b, c \in Cycles : b < c /\ cycle[c] # "ready" =>
           cycle[b] \in {"done", "failed"} \/ b \in beside[c]
    /\ \A c \in Cycles, s \in Sources : task[<<c, s>>].step # "idle" => cycle[c] # "ready"
    /\ \A c \in Cycles, s \in Sources : cycle[c] = "done" => Stands(c, s, "ended")

\* The state of a source is of cycle c or a later one, or was written by a
\* connector of a failed cycle, or of one that c ran beside.
Recent(c, s) ==
    \/ connector[s].by >= c
    \/ /\ connector[s].by \in Cycles
       /\ cycle[connector[s].by] = "failed" \/ connector[s].by \in beside[c]

\* A connector that has ended has written the state of its source.
StatesWritten == \A c \in Cycles, s \in Sources : Stands(c, s, "ended") => Recent(c, s)

IngestionInv ==
    /\ IngestionTypeOK /\ CyclesInOrder /\ StatesWritten
    /\ \A c \in Cycles, s \in Sources : Accounted(s, task[<<c, s>>], events)

LEMMA IngestionTypes ==
    IngestionTypeOK <=>
        /\ cycle \in [Cycles -> {"ready", "running", "done", "failed"}]
        /\ beside \in [Cycles -> SUBSET Cycles]
        /\ task \in [Tasks -> TaskRecord]
        /\ events \subseteq Sources \X {EventKey[i] : i \in Items}
        /\ connector \in [Sources -> [healthy : BOOLEAN, by : Nat]]
        /\ search \in Searches
BY DEF IngestionTypeOK, TaskRecord

LEMMA RestingTyped == Resting \in TaskRecord /\ Resting.step = "idle" /\ Resting.best = {}
                      /\ Resting.chosen = {}
BY DEF Resting, TaskRecord

LEMMA IngestionStarts == IngestionInit => IngestionInv
<1> SUFFICES ASSUME IngestionInit  PROVE IngestionInv
  OBVIOUS
<1>1. \A c \in Cycles, s \in Sources : <<c, s>> \in Tasks /\ task[<<c, s>>] = Resting
  BY DEF IngestionInit, Tasks
<1>2. IngestionTypeOK
  BY RestingTyped, IngestionTypes DEF IngestionInit
<1>3. CyclesInOrder
  BY <1>1, RestingTyped DEF IngestionInit, CyclesInOrder, Stands
<1>4. StatesWritten
  BY <1>1, RestingTyped DEF StatesWritten, Stands
<1>5. \A c \in Cycles, s \in Sources : Accounted(s, task[<<c, s>>], events)
  BY <1>1, RestingTyped DEF Accounted
<1> QED  BY <1>2, <1>3, <1>4, <1>5 DEF IngestionInv

\* How a batch that is over, with or without an error, leaves the record.
LEMMA BatchOver ==
    ASSUME NEW s \in Sources, NEW t \in TaskRecord
    PROVE  /\ NextBatch(s, t) \in TaskRecord
           /\ NextBatch(s, t).step \in {"fetch", "report"} /\ NextBatch(s, t).best = {}
           /\ NextBatch(s, t).chosen = t.chosen /\ NextBatch(s, t).errs = t.errs
<1> DEFINE n == NextBatch(s, t)
           more == [t EXCEPT !.step = "fetch", !.at = @ + 1, !.plan = 1, !.best = {}]
           over(o) == [t EXCEPT !.step = "report", !.best = {}, !.outcome = o]
<1>1. n \in {more, over("failed"), over("healthy")}
  BY DEF NextBatch
<1>2. /\ more \in TaskRecord /\ more.step = "fetch" /\ more.best = {}
      /\ more.chosen = t.chosen /\ more.errs = t.errs
  <2> DEFINE k == t.at + 1
             m == [t EXCEPT !.step = "fetch", !.at = k, !.plan = 1, !.best = {}]
  <2>1. k \in Nat
    BY DEF TaskRecord
  <2>2. m = more
    OBVIOUS
  <2> HIDE DEF k
  <2>3. /\ m \in TaskRecord /\ m.step = "fetch" /\ m.best = {}
        /\ m.chosen = t.chosen /\ m.errs = t.errs
    BY <2>1 DEF TaskRecord
  <2> HIDE DEF m, more
  <2> QED  BY <2>2, <2>3
<1>3. ASSUME NEW o \in {"failed", "healthy"}
      PROVE  /\ over(o) \in TaskRecord /\ over(o).step = "report" /\ over(o).best = {}
             /\ over(o).chosen = t.chosen /\ over(o).errs = t.errs
  BY DEF TaskRecord
<1> HIDE DEF n, more, over
<1>4. n \in TaskRecord /\ n.step \in {"fetch", "report"} /\ n.best = {}
      /\ n.chosen = t.chosen /\ n.errs = t.errs
  BY <1>1, <1>2, <1>3
<1> QED  BY <1>4 DEF n

LEMMA BatchFailed ==
    ASSUME NEW s \in Sources, NEW t \in TaskRecord
    PROVE  /\ BatchFails(s, t) \in TaskRecord
           /\ BatchFails(s, t).step \in {"fetch", "report"} /\ BatchFails(s, t).best = {}
           /\ BatchFails(s, t).chosen = t.chosen /\ BatchFails(s, t).errs = t.errs \cup {t.at}
<1> DEFINE n == [t EXCEPT !.errs = @ \cup {t.at}]
<1>1. n \in TaskRecord /\ n.chosen = t.chosen /\ n.errs = t.errs \cup {t.at}
  BY DEF TaskRecord
<1>2. CASE s \in Caught
  <2>1. BatchFails(s, t) = NextBatch(s, n)
    BY <1>2 DEF BatchFails, ErrorNoted
  <2> HIDE DEF n
  <2> QED  BY <1>1, <2>1, BatchOver
<1>3. CASE s \notin Caught
  BY <1>3 DEF BatchFails, ErrorThrown, TaskRecord
<1> QED  BY <1>2, <1>3

\* A connector makes a step that neither starts nor ends it.
LEMMA ConnectorMoves ==
    ASSUME IngestionInv, NEW c \in Cycles, NEW s \in Sources, NEW t \in TaskRecord,
           Moves(c, s, t), task[<<c, s>>].step \in {"fetch", "store", "report"},
           t.step \in {"fetch", "store", "report", "thrown"}, Accounted(s, t, events'),
           events \subseteq events', events' \subseteq Sources \X {EventKey[i] : i \in Items},
           UNCHANGED <<cycle, beside, connector, search>>
    PROVE  IngestionInv'
<1>1. <<c, s>> \in Tasks /\ task \in [Tasks -> TaskRecord]
  BY IngestionTypes DEF IngestionInv, Tasks
<1>2. \A b \in Cycles, q \in Sources :
        /\ <<b, q>> \in Tasks
        /\ <<b, q>> = <<c, s>> => b = c /\ q = s
        /\ <<b, q>> # <<c, s>> => task'[<<b, q>>] = task[<<b, q>>]
  BY <1>1 DEF Moves, Tasks
<1>3. task'[<<c, s>>] = t /\ task' \in [Tasks -> TaskRecord]
  BY <1>1 DEF Moves
<1>4. IngestionTypeOK'
  <2>1. /\ cycle' \in [Cycles -> {"ready", "running", "done", "failed"}]
        /\ beside' \in [Cycles -> SUBSET Cycles]
        /\ connector' \in [Sources -> [healthy : BOOLEAN, by : Nat]] /\ search' \in Searches
    BY IngestionTypes DEF IngestionInv
  <2> QED  BY <1>3, <2>1 DEF IngestionTypeOK, TaskRecord
<1>5. CyclesInOrder'
  <2>1. cycle[c] # "ready" /\ cycle[c] # "done"
    BY DEF IngestionInv, CyclesInOrder, Stands
  <2> QED  BY <1>2, <1>3, <2>1 DEF IngestionInv, CyclesInOrder, Stands
<1>6. StatesWritten'
  BY <1>2, <1>3 DEF IngestionInv, StatesWritten, Stands, Recent
<1>7. ASSUME NEW b \in Cycles, NEW q \in Sources
      PROVE  Accounted(q, task'[<<b, q>>], events')
  <2>1. CASE <<b, q>> = <<c, s>>
    BY <1>2, <1>3, <2>1
  <2>2. CASE <<b, q>> # <<c, s>>
    BY <1>2, <2>2 DEF IngestionInv, Accounted
  <2> QED  BY <2>1, <2>2
<1> QED  BY <1>4, <1>5, <1>6, <1>7 DEF IngestionInv

LEMMA FetchKeeps ==
    ASSUME IngestionInv, NEW c \in Cycles, NEW s \in Sources, Fetch(c, s)
    PROVE  IngestionInv'
<1> DEFINE t == task[<<c, s>>]
<1>1. /\ t \in TaskRecord /\ t.step = "fetch" /\ Accounted(s, t, events)
      /\ events \subseteq Sources \X {EventKey[i] : i \in Items}
  BY IngestionTypes DEF IngestionInv, Tasks, Fetch, Stands
<1>2. UNCHANGED <<cycle, beside, events, connector, search>>
  BY DEF Fetch
<1> HIDE DEF t
<1>3. ASSUME NEW n \in TaskRecord, Moves(c, s, n), n.step \in {"fetch", "store", "report"},
             Accounted(s, n, events)
      PROVE  IngestionInv'
  BY <1>1, <1>2, <1>3, ConnectorMoves DEF t
<1>4. CASE Moves(c, s, BatchFails(s, t))
  <2>1. /\ BatchFails(s, t) \in TaskRecord
        /\ BatchFails(s, t).step \in {"fetch", "report"} /\ BatchFails(s, t).best = {}
        /\ BatchFails(s, t).chosen = t.chosen /\ BatchFails(s, t).errs = t.errs \cup {t.at}
    BY <1>1, BatchFailed
  <2>2. Accounted(s, BatchFails(s, t), events)
    BY <1>1, <2>1 DEF Accounted
  <2> QED  BY <1>3, <1>4, <2>1, <2>2
<1>5. ASSUME NEW page \in SUBSET Offered(s, t.at),
             Moves(c, s, [t EXCEPT !.plan = @ + 1, !.best = Best(t, Kept(s, page))])
      PROVE  IngestionInv'
  <2> DEFINE n == [t EXCEPT !.plan = @ + 1, !.best = Best(t, Kept(s, page))]
  <2>1. Best(t, Kept(s, page)) \subseteq Offered(s, t.at) /\ Offered(s, t.at) \subseteq Items
    BY <1>1, <1>5 DEF Best, Kept, Accounted, Offered
  <2>2. /\ n \in TaskRecord /\ n.step = "fetch" /\ n.best = Best(t, Kept(s, page))
        /\ n.at = t.at /\ n.chosen = t.chosen /\ n.errs = t.errs
    <3> DEFINE b == Best(t, Kept(s, page))
               k == t.plan + 1
               m == [t EXCEPT !.plan = k, !.best = b]
    <3>1. b \in SUBSET Items /\ k \in Nat
      BY <1>1, <2>1 DEF TaskRecord
    <3>2. m = n
      OBVIOUS
    <3> HIDE DEF b, k
    <3>3. /\ m \in TaskRecord /\ m.step = "fetch" /\ m.best = b
          /\ m.at = t.at /\ m.chosen = t.chosen /\ m.errs = t.errs
      BY <1>1, <3>1 DEF TaskRecord
    <3> HIDE DEF m, n
    <3> QED  BY <3>2, <3>3 DEF b
  <2> HIDE DEF n
  <2>3. Accounted(s, n, events)
    BY <1>1, <2>1, <2>2 DEF Accounted
  <2>4. Moves(c, s, n)
    BY <1>5 DEF n
  <2> QED  BY <1>3, <2>2, <2>3, <2>4
<1>6. ASSUME NEW page \in SUBSET Offered(s, t.at),
             Moves(c, s, [t EXCEPT !.step = "store", !.best = Best(t, Kept(s, page)),
                                   !.ok = @ + 1, !.chosen = @ \cup Best(t, Kept(s, page))])
      PROVE  IngestionInv'
  <2> DEFINE b == Best(t, Kept(s, page))
             n == [t EXCEPT !.step = "store", !.best = b, !.ok = @ + 1, !.chosen = @ \cup b]
  <2>1. b \subseteq Offered(s, t.at) /\ Offered(s, t.at) \subseteq Items
    BY <1>1, <1>6 DEF Best, Kept, Accounted, Offered
  <2>2. Moves(c, s, n)
    BY <1>6
  <2> HIDE DEF b
  <2>3. /\ n \in TaskRecord /\ n.step = "store" /\ n.best = b
        /\ n.at = t.at /\ n.chosen = t.chosen \cup b /\ n.errs = t.errs
    <3> DEFINE k == t.ok + 1
               d == t.chosen \cup b
               m == [t EXCEPT !.step = "store", !.best = b, !.ok = k, !.chosen = d]
    <3>1. k \in Nat /\ b \in SUBSET Items /\ d \in SUBSET Items
      BY <1>1, <2>1 DEF TaskRecord
    <3>2. m = n
      OBVIOUS
    <3> HIDE DEF k, d
    <3>3. /\ m \in TaskRecord /\ m.step = "store" /\ m.best = b
          /\ m.at = t.at /\ m.chosen = d /\ m.errs = t.errs
      BY <1>1, <3>1 DEF TaskRecord
    <3> HIDE DEF m, n
    <3> QED  BY <3>2, <3>3 DEF d
  <2> HIDE DEF n
  <2>4. Accounted(s, n, events)
    BY <1>1, <2>1, <2>3 DEF Accounted
  <2> QED  BY <1>3, <2>2, <2>3, <2>4
<1> QED  BY <1>4, <1>5, <1>6 DEF Fetch, t

LEMMA StoreKeeps ==
    ASSUME IngestionInv, NEW c \in Cycles, NEW s \in Sources, Store(c, s)
    PROVE  IngestionInv'
<1> DEFINE t == task[<<c, s>>]
<1>1. /\ t \in TaskRecord /\ t.step = "store" /\ Accounted(s, t, events)
      /\ events \subseteq Sources \X {EventKey[i] : i \in Items}
  BY IngestionTypes DEF IngestionInv, Tasks, Store, Stands
<1>2. UNCHANGED <<cycle, beside, connector, search>>
  BY DEF Store
<1> HIDE DEF t
<1>3. ASSUME NEW n \in TaskRecord, Moves(c, s, n), n.step \in {"fetch", "report"},
             Accounted(s, n, events'), events \subseteq events',
             events' \subseteq Sources \X {EventKey[i] : i \in Items}
      PROVE  IngestionInv'
  BY <1>1, <1>2, <1>3, ConnectorMoves DEF t
<1>4. CASE KeepsRows(s, t.best) /\ Moves(c, s, NextBatch(s, t))
  <2>1. /\ NextBatch(s, t) \in TaskRecord
        /\ NextBatch(s, t).step \in {"fetch", "report"} /\ NextBatch(s, t).best = {}
        /\ NextBatch(s, t).chosen = t.chosen /\ NextBatch(s, t).errs = t.errs
    BY <1>1, BatchOver
  <2>2. t.best \subseteq Items /\ events' = events \cup {Key(s, i) : i \in t.best}
    BY <1>1, <1>4 DEF KeepsRows, TaskRecord
  <2>3. Accounted(s, NextBatch(s, t), events')
    BY <1>1, <2>1, <2>2 DEF Accounted
  <2>4. events' \subseteq Sources \X {EventKey[i] : i \in Items}
    BY <1>1, <2>2 DEF Key
  <2> QED  BY <1>3, <1>4, <2>1, <2>2, <2>3, <2>4
<1>5. CASE Moves(c, s, BatchFails(s, t)) /\ UNCHANGED events
  <2>1. /\ BatchFails(s, t) \in TaskRecord
        /\ BatchFails(s, t).step \in {"fetch", "report"} /\ BatchFails(s, t).best = {}
        /\ BatchFails(s, t).chosen = t.chosen /\ BatchFails(s, t).errs = t.errs \cup {t.at}
    BY <1>1, BatchFailed
  <2>2. \A i \in t.best : Home[i][2] = t.at
    BY <1>1 DEF Accounted, Offered
  <2>3. Accounted(s, BatchFails(s, t), events')
    BY <1>1, <1>5, <2>1, <2>2 DEF Accounted
  <2> QED  BY <1>1, <1>3, <1>5, <2>1, <2>3
<1> QED  BY <1>4, <1>5 DEF Store, t

\* A connector's report: the only step that writes the state of its source, and
\* that ends it.
LEMMA ReportKeeps ==
    ASSUME IngestionInv, NEW c \in Cycles, NEW s \in Sources, Report(c, s)
    PROVE  IngestionInv'
<1> DEFINE t == task[<<c, s>>]
<1>1. /\ t \in TaskRecord /\ t.step = "report" /\ Accounted(s, t, events)
      /\ events \subseteq Sources \X {EventKey[i] : i \in Items}
      /\ task \in [Tasks -> TaskRecord] /\ <<c, s>> \in Tasks
      /\ connector \in [Sources -> [healthy : BOOLEAN, by : Nat]]
  BY IngestionTypes DEF IngestionInv, Tasks, Report, Stands
<1>2. UNCHANGED <<cycle, beside, events, search>>
  BY DEF Report
<1> HIDE DEF t
<1>3. ASSUME NEW step \in {"ended", "thrown"}
      PROVE  /\ Past(t, step) \in TaskRecord /\ Past(t, step).step = step
             /\ Accounted(s, Past(t, step), events)
  BY <1>1, <1>3 DEF Past, Resting, TaskRecord, Accounted
<1>4. CASE /\ UNCHANGED connector
           /\ Moves(c, s, IF t.outcome = "healthy" THEN [t EXCEPT !.outcome = "failed"]
                                                   ELSE Past(t, "thrown"))
  <2> DEFINE n == IF t.outcome = "healthy" THEN [t EXCEPT !.outcome = "failed"]
                                           ELSE Past(t, "thrown")
  <2>1. CASE t.outcome = "healthy"
    <3>1. n \in TaskRecord /\ n.step = "report" /\ Accounted(s, n, events)
      BY <1>1, <2>1 DEF TaskRecord, Accounted
    <3> QED  BY <1>1, <1>2, <1>4, <3>1, ConnectorMoves DEF t
  <2>2. CASE t.outcome # "healthy"
    <3>1. n \in TaskRecord /\ n.step = "thrown" /\ Accounted(s, n, events)
      BY <1>3, <2>2
    <3> QED  BY <1>1, <1>2, <1>4, <3>1, ConnectorMoves DEF t
  <2> QED  BY <2>1, <2>2
<1>5. ASSUME Persists(c, s, t.outcome = "healthy"), NEW step \in {"ended", "thrown"},
             Moves(c, s, Past(t, step))
      PROVE  IngestionInv'
  <2>1. \A b \in Cycles, q \in Sources :
          /\ <<b, q>> \in Tasks
          /\ <<b, q>> = <<c, s>> => b = c /\ q = s
          /\ <<b, q>> # <<c, s>> => task'[<<b, q>>] = task[<<b, q>>]
    BY <1>1, <1>5 DEF Moves, Tasks
  <2>2. task'[<<c, s>>] = Past(t, step) /\ task' \in [Tasks -> TaskRecord]
    BY <1>1, <1>3, <1>5 DEF Moves
  <2>3. /\ connector' \in [Sources -> [healthy : BOOLEAN, by : Nat]]
        /\ connector'[s].by = c /\ \A q \in Sources \ {s} : connector'[q] = connector[q]
    BY <1>1, <1>5 DEF Persists, Cycles
  <2>4. IngestionTypeOK'
    BY <1>2, <2>2, <2>3, IngestionTypes DEF IngestionInv, IngestionTypeOK, TaskRecord
  <2>5. cycle[c] \notin {"ready", "done"}
    BY <1>1 DEF IngestionInv, CyclesInOrder, Stands, t
  <2>6. CyclesInOrder'
    BY <1>2, <1>3, <2>1, <2>2, <2>5 DEF IngestionInv, CyclesInOrder, Stands
  <2>7. ASSUME NEW b \in Cycles, NEW q \in Sources, Stands(b, q, "ended")'
        PROVE  Recent(b, q)'
    <3>1. CASE q # s
      BY <1>2, <2>1, <2>3, <2>7, <3>1 DEF IngestionInv, StatesWritten, Stands, Recent
    <3>2. CASE q = s /\ b <= c
      BY <2>3, <3>2 DEF Recent
    <3>3. CASE q = s /\ ~ b <= c
      <4>1. Stands(b, q, "ended") /\ c < b
        BY <2>1, <2>7, <3>3 DEF Stands, Cycles
      <4>2. cycle[b] # "ready"
        BY <4>1 DEF IngestionInv, CyclesInOrder, Stands
      <4>3. cycle[c] = "failed" \/ c \in beside[b]
        BY <2>5, <4>1, <4>2 DEF IngestionInv, CyclesInOrder
      <4> QED  BY <1>2, <2>3, <3>3, <4>3 DEF Recent
    <3> QED  BY <3>1, <3>2, <3>3
  <2>8. ASSUME NEW b \in Cycles, NEW q \in Sources
        PROVE  Accounted(q, task'[<<b, q>>], events')
    <3>1. CASE <<b, q>> = <<c, s>>
      BY <1>2, <1>3, <2>1, <2>2, <3>1
    <3>2. CASE <<b, q>> # <<c, s>>
      BY <1>2, <2>1, <3>2 DEF IngestionInv
    <3> QED  BY <3>1, <3>2
  <2> QED  BY <2>4, <2>6, <2>7, <2>8 DEF IngestionInv, StatesWritten
<1> QED  BY <1>4, <1>5 DEF Report, t

LEMMA StartKeeps ==
    ASSUME IngestionInv, NEW c \in Cycles, StartCycle(c)
    PROVE  IngestionInv'
<1>1. /\ cycle[c] = "ready" /\ cycle' = [cycle EXCEPT ![c] = "running"]
      /\ beside' = [beside EXCEPT ![c] = {b \in 1 .. c - 1 : cycle[b] = "running"}]
      /\ beside \in [Cycles -> SUBSET Cycles]
      /\ UNCHANGED <<events, connector, search>>
      /\ task \in [Tasks -> TaskRecord]
      /\ cycle \in [Cycles -> {"ready", "running", "done", "failed"}]
  BY IngestionTypes DEF StartCycle, IngestionInv
<1>2. PICK setup \in Setups :
        task' = [t \in Tasks |-> IF t[1] # c THEN task[t]
                                 ELSE IF t[2] \in setup THEN Starts(t[2])
                                      ELSE ReportsUnconfigured(t[2])]
  BY DEF StartCycle
<1>3. ASSUME NEW s
      PROVE  /\ Starts(s) \in TaskRecord /\ ReportsUnconfigured(s) \in TaskRecord
             /\ Starts(s).step = "fetch" /\ ReportsUnconfigured(s).step = "report"
             /\ Starts(s).best = {} /\ ReportsUnconfigured(s).best = {}
             /\ Starts(s).chosen = {} /\ ReportsUnconfigured(s).chosen = {}
  BY DEF Starts, ReportsUnconfigured, Resting, TaskRecord
<1>4. \A b \in Cycles, s \in Sources :
        /\ <<b, s>> \in Tasks
        /\ b # c => task'[<<b, s>>] = task[<<b, s>>]
        /\ b = c => task'[<<b, s>>] \in {Starts(s), ReportsUnconfigured(s)}
  BY <1>2 DEF Tasks
<1>5. task' \in [Tasks -> TaskRecord]
  BY <1>1, <1>2, <1>3
<1>6. IngestionTypeOK'
  <2>1. 1 .. c - 1 \subseteq Cycles
    BY IngestionConstants DEF Cycles
  <2>2. beside' \in [Cycles -> SUBSET Cycles]
    BY <1>1, <2>1
  <2> QED  BY <1>1, <1>5, <2>2, IngestionTypes DEF IngestionInv, IngestionTypeOK, TaskRecord
<1>7. CyclesInOrder'
  <2>1. ASSUME NEW b \in Cycles, NEW d \in Cycles, b < d, cycle'[d] # "ready"
        PROVE  cycle'[b] \in {"done", "failed"} \/ b \in beside'[d]
    <3>1. CASE d = c
      <4>1. b \in 1 .. c - 1 /\ b # c
        BY <2>1, <3>1 DEF Cycles
      <4>2. cycle[b] # "ready" /\ cycle'[b] = cycle[b]
        BY <1>1, <4>1 DEF StartCycle
      <4>3. beside'[d] = {a \in 1 .. c - 1 : cycle[a] = "running"}
        BY <1>1, <3>1
      <4> QED  BY <1>1, <4>1, <4>2, <4>3
    <3>2. CASE d # c
      <4>1. cycle[b] \in {"done", "failed"} \/ b \in beside[d]
        BY <1>1, <2>1, <3>2 DEF IngestionInv, CyclesInOrder
      <4> QED  BY <1>1, <3>2, <4>1
    <3> QED  BY <3>1, <3>2
  <2>2. \A b \in Cycles, s \in Sources : task'[<<b, s>>].step # "idle" => cycle'[b] # "ready"
    BY <1>1, <1>4 DEF IngestionInv, CyclesInOrder
  <2>3. \A b \in Cycles, s \in Sources : cycle'[b] = "done" => Stands(b, s, "ended")'
    BY <1>1, <1>4 DEF IngestionInv, CyclesInOrder, Stands
  <2> QED  BY <2>1, <2>2, <2>3 DEF CyclesInOrder
<1>8. ASSUME NEW b \in Cycles, NEW s \in Sources, Stands(b, s, "ended")'
      PROVE  Recent(b, s)'
  <2>1. b # c
    BY <1>3, <1>4, <1>8 DEF Stands
  <2>2. Recent(b, s)
    BY <1>4, <1>8, <2>1 DEF IngestionInv, StatesWritten, Stands
  <2>3. UNCHANGED connector /\ beside'[b] = beside[b]
    BY <1>1, <2>1
  <2>4. \A a \in Cycles : cycle[a] = "failed" => cycle'[a] = "failed"
    BY <1>1
  <2> QED  BY <2>2, <2>3, <2>4 DEF Recent
<1>9. ASSUME NEW b \in Cycles, NEW s \in Sources
      PROVE  Accounted(s, task'[<<b, s>>], events')
  <2>1. CASE b = c
    BY <1>3, <1>4, <2>1 DEF Accounted
  <2>2. CASE b # c
    BY <1>1, <1>4, <2>2 DEF IngestionInv
  <2> QED  BY <2>1, <2>2
<1> QED  BY <1>6, <1>7, <1>8, <1>9 DEF IngestionInv, StatesWritten

LEMMA EndKeeps ==
    ASSUME IngestionInv, NEW c \in Cycles, CycleEnds(c)
    PROVE  IngestionInv'
<1>1. /\ cycle[c] = "running" /\ UNCHANGED <<beside, task, events, connector, search>>
      /\ cycle \in [Cycles -> {"ready", "running", "done", "failed"}]
  BY DEF CycleEnds, IngestionInv, IngestionTypeOK
<1>2. \/ cycle' = [cycle EXCEPT ![c] = "done"] /\ \A s \in Sources : Stands(c, s, "ended")
      \/ cycle' = [cycle EXCEPT ![c] = "failed"]
  BY DEF CycleEnds
<1>3. IngestionTypeOK'
  BY <1>1, <1>2 DEF IngestionInv, IngestionTypeOK
<1>4. CyclesInOrder'
  BY <1>1, <1>2 DEF IngestionInv, CyclesInOrder, Stands
<1>5. StatesWritten'
  BY <1>1, <1>2 DEF IngestionInv, StatesWritten, Stands, Recent
<1>6. \A b \in Cycles, s \in Sources : Accounted(s, task'[<<b, s>>], events')
  BY <1>1 DEF IngestionInv
<1> QED  BY <1>3, <1>4, <1>5, <1>6 DEF IngestionInv

LEMMA IngestionKeeps == IngestionInv /\ [IngestionNext]_ingestionVars => IngestionInv'
<1> SUFFICES ASSUME IngestionInv, [IngestionNext]_ingestionVars  PROVE IngestionInv'
  OBVIOUS
<1>1. CASE UNCHANGED ingestionVars
  BY <1>1 DEF ingestionVars, IngestionInv, IngestionTypeOK, CyclesInOrder, Stands,
              StatesWritten, Recent
<1> QED
  BY <1>1, StartKeeps, EndKeeps, FetchKeeps, StoreKeeps, ReportKeeps
     DEF IngestionNext, ConnectorStep


\* Every cycle and every connector keeps the invariant, also the connectors
\* that a failed cycle has left behind.
THEOREM IngestionInvariant == IngestionSpec => []IngestionInv
BY IngestionStarts, IngestionKeeps, PTL DEF IngestionSpec

\* runConnector: cycles, connectors, events and the states of the sources keep
\* to their types.
THEOREM IngestionTyped == IngestionSpec => []IngestionTypeOK
<1>1. IngestionInv => IngestionTypeOK
  BY DEF IngestionInv
<1> QED  BY <1>1, IngestionInvariant, PTL

LEMMA StatesExplained == IngestionInv => StaleStateExplained
<1> SUFFICES ASSUME IngestionInv, NEW c \in Cycles, NEW s \in Sources,
                    cycle[c] = "done", connector[s].by < c
             PROVE  /\ connector[s].by # 0
                    /\ cycle[connector[s].by] = "failed" \/ connector[s].by \in beside[c]
  BY DEF StaleStateExplained
<1>1. Stands(c, s, "ended")
  BY DEF IngestionInv, CyclesInOrder
<1>2. Recent(c, s)
  BY <1>1 DEF IngestionInv, StatesWritten
<1>3. connector[s].by \in Nat
  BY IngestionTypes DEF IngestionInv
<1> QED  BY <1>2, <1>3 DEF Recent, Cycles

LEMMA SelectedStored == IngestionInv => ActiveSourcesStored
BY DEF IngestionInv, Accounted, ActiveSourcesStored

\* persistConnectorState, runIngestionCycle: after a cycle that is done, the
\* state of a source is of that cycle or a younger one, or was written by a
\* connector of an older one, which has failed and left it running, or which
\* still ran when the cycle started.
THEOREM StaleStatesExplained == IngestionSpec => []StaleStateExplained
BY StatesExplained, IngestionInvariant, PTL

\* runConnector: a source is reported healthy only if each row it selected is
\* stored or its batch is among the errors.
THEOREM HealthyMeansStored == IngestionSpec => []ActiveSourcesStored
BY SelectedStored, IngestionInvariant, PTL

-----------------------------------------------------------------------------
(* The plans of a search.  Facts about all lists are proved by taking the  *)
(* least number that would refute them: the library's principles of        *)
(* induction have a predicate for a parameter, its theorem that finite     *)
(* sets are well-founded has none.                                         *)

LEMMA LeastNat ==
    ASSUME NEW T \in SUBSET Nat, T # {}
    PROVE  \E n \in T : \A m \in T : n <= m
<1> DEFINE F == {0 .. n : n \in T}
<1>1. F \subseteq FiniteSubsetsOf(Nat)
  <2> SUFFICES ASSUME NEW n \in T PROVE 0 .. n \in FiniteSubsetsOf(Nat)
    OBVIOUS
  <2>1. IsFiniteSet(0 .. n)
    BY FS_Interval
  <2> QED BY <2>1 DEF FiniteSubsetsOf
<1>2. PICK x \in F : \A y \in F : ~ (<<y, x>> \in StrictSubsetOrdering(Nat))
  <2> HIDE DEF F
  <2>1. F # {}
    BY DEF F
  <2> QED BY <1>1, <2>1, WFMin, FS_StrictSubsetOrderingWellFounded
<1>3. PICK n \in T : x = 0 .. n
  BY <1>2
<1>4. ASSUME NEW m \in T
      PROVE  n <= m
  <2>1. 0 .. m \in F
    OBVIOUS
  <2>2. <<0 .. m, 0 .. n>> \notin StrictSubsetOrdering(Nat)
    BY <1>2, <1>3, <2>1
  <2>3. 0 .. m \in SUBSET Nat /\ 0 .. n \in SUBSET Nat
    OBVIOUS
  <2>4. ~ (0 .. m \subseteq 0 .. n /\ 0 .. m # 0 .. n)
    BY <2>2, <2>3 DEF StrictSubsetOrdering
  <2> QED BY <2>4
<1> QED BY <1>4

LEMMA Division ==
    ASSUME NEW a \in Nat, NEW b \in Nat \ {0}
    PROVE  a \div b \in Nat /\ (a \div b) * b <= a /\ a < (a \div b) * b + b
OBVIOUS

\* How the count of values grows along a list.
LEMMA PushedGrows ==
    ASSUME NEW N \in Nat, NEW list, DOMAIN list = 1 .. N
    PROVE  /\ Firsts(list) \subseteq 1 .. N /\ IsFiniteSet(Firsts(list))
           /\ \A i \in 0 .. N : Pushed(list, i) \in Nat
           /\ Pushed(list, 0) = 0 /\ Pushed(list, N) = Cardinality(Firsts(list))
           /\ \A i, k \in 0 .. N : i <= k => Pushed(list, i) <= Pushed(list, k)
           /\ \A i \in 1 .. N :
                  Pushed(list, i) = Pushed(list, i - 1) + (IF i \in Firsts(list) THEN 1 ELSE 0)
<1> DEFINE F == Firsts(list)
           To(i) == {j \in F : j <= i}
<1>1. F \subseteq 1 .. N /\ IsFiniteSet(F)
  <2>1. F \subseteq 1 .. N
    BY DEF Firsts
  <2> QED BY <2>1, FS_Interval, FS_Subset
<1>2. \A i : To(i) \in SUBSET F /\ IsFiniteSet(To(i)) /\ Cardinality(To(i)) \in Nat
  <2>1. \A i : To(i) \in SUBSET F
    OBVIOUS
  <2> HIDE DEF To, F
  <2> QED BY <1>1, <2>1, FS_Subset, FS_CardinalityType
<1>3. \A i : Pushed(list, i) = Cardinality(To(i))
  BY DEF Pushed
<1>4. To(0) = {} /\ To(N) = F
  BY <1>1
<1>5. Pushed(list, 0) = 0 /\ Pushed(list, N) = Cardinality(F)
  <2> HIDE DEF To, F
  <2> QED BY <1>3, <1>4, FS_EmptySet
<1>6. ASSUME NEW i \in 0 .. N, NEW k \in 0 .. N, i <= k
      PROVE  Pushed(list, i) <= Pushed(list, k)
  <2>1. To(i) \in SUBSET To(k)
    BY <1>1, <1>6
  <2> HIDE DEF To, F
  <2> QED BY <1>2, <1>3, <2>1, FS_Subset
<1>7. ASSUME NEW i \in 1 .. N
      PROVE  Pushed(list, i) = Pushed(list, i - 1) + (IF i \in F THEN 1 ELSE 0)
  <2>1. CASE i \in F
    <3>1. To(i) = To(i - 1) \cup {i} /\ i \notin To(i - 1)
      BY <1>1, <2>1
    <3> HIDE DEF To, F
    <3> QED BY <1>2, <1>3, <2>1, <3>1, FS_AddElement
  <2>2. CASE i \notin F
    <3>1. To(i) = To(i - 1)
      BY <1>1, <2>2
    <3> HIDE DEF To, F
    <3> QED BY <1>2, <1>3, <2>2, <3>1
  <2> QED BY <2>1, <2>2
<1> HIDE DEF To, F
<1>8. \A i \in 0 .. N : Pushed(list, i) \in Nat
  BY <1>2, <1>3
<1> QED BY <1>1, <1>5, <1>6, <1>7, <1>8 DEF F

\* There is a value that is the n-th, for each n up to their number.
LEMMA PlaceOf ==
    ASSUME NEW N \in Nat, NEW list, DOMAIN list = 1 .. N,
           NEW n \in 1 .. Cardinality(Firsts(list))
    PROVE  \E i \in Firsts(list) : Pushed(list, i) = n
<1> DEFINE T == {i \in 0 .. N : Pushed(list, i) >= n}
<1>1. Cardinality(Firsts(list)) \in Nat
  BY PushedGrows, FS_CardinalityType
<1>2. N \in T
  BY <1>1, PushedGrows
<1>3. PICK i \in T : \A m \in T : i <= m
  <2>1. T \in SUBSET Nat /\ T # {}
    BY <1>2
  <2> HIDE DEF T
  <2> QED BY <2>1, LeastNat
<1>4. i \in 1 .. N
  BY <1>1, PushedGrows
<1>5. ~ (Pushed(list, i - 1) >= n)
  BY <1>3, <1>4
<1>6. Pushed(list, i) \in Nat /\ Pushed(list, i - 1) \in Nat
  BY <1>4, PushedGrows
<1>7. Pushed(list, i) = Pushed(list, i - 1) + (IF i \in Firsts(list) THEN 1 ELSE 0)
  BY <1>4, PushedGrows
<1> QED BY <1>1, <1>3, <1>5, <1>6, <1>7

\* A function on 1 .. N is a sequence.
LEMMA Listed ==
    ASSUME NEW N \in Nat, NEW f, f = [i \in 1 .. N |-> f[i]]
    PROVE  f \in Seq({f[i] : i \in 1 .. N}) /\ Len(f) = N /\ DOMAIN f = 1 .. N
<1>1. f \in [1 .. N -> {f[i] : i \in 1 .. N}]
  OBVIOUS
<1> QED BY <1>1

\* Every value that is first is pushed after those that are first before it.
LEMMA PushedClimbs ==
    ASSUME NEW N \in Nat, NEW list, DOMAIN list = 1 .. N,
           NEW k \in Firsts(list), NEW l \in Firsts(list), k < l
    PROVE  Pushed(list, k) < Pushed(list, l)
<1>1. k \in 1 .. N /\ l \in 1 .. N
  BY PushedGrows
<1>2. k \in 0 .. N /\ l - 1 \in 0 .. N /\ k <= l - 1
  BY <1>1
<1>3. Pushed(list, l) = Pushed(list, l - 1) + 1
  BY <1>1, PushedGrows
<1>4. Pushed(list, k) <= Pushed(list, l - 1)
  BY <1>2, PushedGrows
<1>5. Pushed(list, k) \in Nat /\ Pushed(list, l - 1) \in Nat
  BY <1>2, PushedGrows
<1> QED BY <1>3, <1>4, <1>5

\* PushOnce: each value of the list once, no later than it has been pushed, in
\* the order in which they are first.
LEMMA PushedOnce ==
    ASSUME NEW N \in Nat, NEW list, DOMAIN list = 1 .. N
    PROVE  /\ Cardinality(Firsts(list)) \in Nat
           /\ PushOnce(list) = [n \in 1 .. Cardinality(Firsts(list)) |-> PushOnce(list)[n]]
           /\ \A n \in 1 .. Cardinality(Firsts(list)) :
                  \E i \in Firsts(list) : Pushed(list, i) = n /\ PushOnce(list)[n] = list[i]
           /\ \A n, m \in 1 .. Cardinality(Firsts(list)) :
                  PushOnce(list)[n] = PushOnce(list)[m] => n = m
           /\ \A i \in 1 .. N :
                  \E n \in 1 .. Cardinality(Firsts(list)) :
                      n <= Pushed(list, i) /\ PushOnce(list)[n] = list[i]
<1> DEFINE F == Firsts(list)
           K == Cardinality(F)
           p == PushOnce(list)
           at(n) == CHOOSE i \in F : Pushed(list, i) = n
<1>1. F \subseteq 1 .. N /\ K \in Nat
  BY PushedGrows, FS_CardinalityType
<1>2. p = [n \in 1 .. K |-> list[at(n)]]
  BY DEF PushOnce
<1>3. \A n \in 1 .. K : at(n) \in F /\ Pushed(list, at(n)) = n /\ p[n] = list[at(n)]
  BY <1>2, PlaceOf
<1>4. \A n \in 1 .. K : \E i \in F : Pushed(list, i) = n /\ p[n] = list[i]
  BY <1>3
<1>5. \A i, j \in F : list[i] = list[j] => i = j
  BY <1>1 DEF Firsts
<1>6. ASSUME NEW i \in 1 .. N
      PROVE  \E n \in 1 .. K : n <= Pushed(list, i) /\ p[n] = list[i]
  <2> DEFINE T == {j \in 1 .. i : list[j] = list[i]}
  <2>1. PICK j \in T : \A m \in T : j <= m
    <3>1. T \in SUBSET Nat /\ T # {}
      OBVIOUS
    <3> HIDE DEF T
    <3> QED BY <3>1, LeastNat
  <2>2. j \in F
    BY <2>1 DEF Firsts
  <2> DEFINE n == Pushed(list, j)
  <2>3. n \in Nat /\ n <= Pushed(list, i) /\ n <= K
    BY <1>1, <2>1, PushedGrows
  <2>4. n >= 1
    <3>1. n = Pushed(list, j - 1) + 1 /\ Pushed(list, j - 1) \in Nat
      BY <1>1, <2>2, PushedGrows
    <3> QED BY <3>1
  <2>5. n \in 1 .. K
    BY <1>1, <2>3, <2>4
  <2> HIDE DEF n
  <2>6. at(n) = j
    <3>1. at(n) \in F /\ Pushed(list, at(n)) = Pushed(list, j)
      BY <1>3, <2>5 DEF n
    <3> HIDE DEF at, F, p, T
    <3>2. \A k, l \in F : k < l => Pushed(list, k) < Pushed(list, l)
      BY PushedClimbs DEF F
    <3>3. \A k, l \in F : Pushed(list, k) = Pushed(list, l) => k = l
      <4>1. \A k \in F : k \in Nat /\ Pushed(list, k) \in Nat
        BY <1>1, PushedGrows
      <4> QED BY <3>2, <4>1
    <3> QED BY <2>2, <3>1, <3>3
  <2> QED BY <1>3, <2>1, <2>3, <2>5, <2>6
<1>7. \A n, m \in 1 .. K : p[n] = p[m] => n = m
  <2> HIDE DEF at, F, p
  <2> QED BY <1>3, <1>5
<1>8. p = [n \in 1 .. K |-> p[n]]
  BY <1>2
<1> QED BY <1>1, <1>4, <1>6, <1>7, <1>8

LEMMA Shorter ==
    ASSUME NEW T, NEW list \in Seq(T), NEW most \in Nat
    PROVE  /\ Shortened(list, most) \in Seq(T)
           /\ Len(Shortened(list, most)) \in Nat
           /\ Len(Shortened(list, most)) <= most /\ Len(Shortened(list, most)) <= Len(list)
           /\ Len(Shortened(list, most)) = most \/ Len(Shortened(list, most)) = Len(list)
           /\ \A i \in 1 .. Len(Shortened(list, most)) : Shortened(list, most)[i] = list[i]
<1> DEFINE m == IF most < Len(list) THEN most ELSE Len(list)
<1>1. m \in Nat /\ m <= Len(list) /\ m <= most
  OBVIOUS
<1>2. Shortened(list, most) = SubSeq(list, 1, m)
  BY DEF Shortened
<1> HIDE DEF m
<1>3. SubSeq(list, 1, m) \in Seq(T) /\ Len(SubSeq(list, 1, m)) = m
      /\ \A i \in 1 .. m : SubSeq(list, 1, m)[i] = list[i]
  BY <1>1
<1> QED BY <1>1, <1>2, <1>3 DEF m

\* Keywords and slices are lists, and the slices have all the keywords.
LEMMA KeywordLists ==
    ASSUME NEW c \in Searches
    PROVE  /\ c.times \in Seq(TimeRanges) /\ Len(c.times) \in Nat \ {0}
           /\ c.limit \in Nat \ {0} /\ c.size \in Nat \ {0} /\ c.extra \in Nat
           /\ \E T : Keywords(c) \in Seq(T) /\ Len(Keywords(c)) <= c.limit
<1>1. /\ c.times \in Seq(TimeRanges) \ {<<>>}
      /\ c.explicit \in Seq(Words) /\ c.watchlist \in Seq(Words) /\ c.themes \in Seq(Words)
      /\ c.limit \in Nat \ {0} /\ c.size \in Nat \ {0} /\ c.extra \in Nat
  BY IngestionConstants
<1>2. Len(c.times) \in Nat \ {0}
  BY <1>1
<1> DEFINE list == c.explicit \o c.watchlist \o c.themes
           n == Cardinality(Firsts(list))
<1>3. list \in Seq(Words) /\ Len(list) \in Nat /\ DOMAIN list = 1 .. Len(list)
  <2>1. c.explicit \o c.watchlist \in Seq(Words)
    BY <1>1, ConcatProperties
  <2>2. list \in Seq(Words)
    BY <1>1, <2>1, ConcatProperties
  <2> HIDE DEF list
  <2> QED BY <2>2, LenProperties
<1> HIDE DEF list
<1>4. n \in Nat /\ PushOnce(list) = [i \in 1 .. n |-> PushOnce(list)[i]]
  BY <1>3, PushedOnce
<1>5. PushOnce(list) \in Seq({PushOnce(list)[i] : i \in 1 .. n})
  BY <1>4, Listed
<1>6. /\ Keywords(c) \in Seq({PushOnce(list)[i] : i \in 1 .. n})
      /\ Len(Keywords(c)) <= c.limit
  BY <1>1, <1>5, Shorter DEF Keywords, list
<1> QED BY <1>1, <1>2, <1>6

LEMMA SlicesCover ==
    ASSUME NEW T, NEW words \in Seq(T), NEW size \in Nat \ {0}
    PROVE  /\ Slices(words, size) \in Seq({Slices(words, size)[i] :
                                             i \in 1 .. (Len(words) + size - 1) \div size})
           /\ Len(Slices(words, size)) \in Nat
           /\ DOMAIN Slices(words, size) = 1 .. Len(Slices(words, size))
           /\ \A k \in DOMAIN words : \E i \in DOMAIN Slices(words, size) :
                  words[k] \in ToSet(Slices(words, size)[i])
<1> DEFINE n == Len(words)
           N == (n + size - 1) \div size
           S == Slices(words, size)
           to(i) == IF i * size < n THEN i * size ELSE n
<1>1. n \in Nat /\ DOMAIN words = 1 .. n /\ n + size - 1 \in Nat
  OBVIOUS
<1>2. N \in Nat /\ n + size - 1 < N * size + size
  BY <1>1, Division
<1>3. S = [i \in 1 .. N |-> SubSeq(words, (i - 1) * size + 1, to(i))]
  BY DEF Slices
<1>4. S \in Seq({S[i] : i \in 1 .. N}) /\ Len(S) = N /\ DOMAIN S = 1 .. N
  <2>1. S = [i \in 1 .. N |-> S[i]]
    BY <1>3
  <2> HIDE DEF S, N
  <2> QED BY <1>2, <2>1, Listed
<1>5. ASSUME NEW k \in 1 .. n
      PROVE  \E i \in 1 .. N : words[k] \in ToSet(S[i])
  <2> DEFINE q == (k - 1) \div size
             i == q + 1
             x == q * size
  <2>1. q \in Nat /\ x <= k - 1 /\ k - 1 < x + size
    BY <1>1, Division
  <2> HIDE DEF q
  <2>2. x \in Nat /\ (i - 1) * size = x /\ i * size = x + size /\ i \in Nat \ {0}
    BY <2>1
  <2>3. i <= N
    <3> SUFFICES ASSUME N <= q PROVE FALSE
      BY <1>2, <2>1
    <3> HIDE DEF N
    <3>1. PICK d \in Nat : q = N + d
      <4>1. q - N \in Nat /\ q = N + (q - N)
        BY <1>2, <2>1
      <4> QED BY <4>1
    <3>2. q * size = N * size + d * size /\ d * size \in Nat /\ N * size \in Nat
      BY <1>2, <3>1
    <3> QED BY <1>1, <1>2, <2>1, <3>2
  <2> DEFINE s == SubSeq(words, x + 1, to(i))
  <2>4. to(i) \in Nat /\ k <= to(i) /\ to(i) <= n
    BY <1>1, <2>1, <2>2
  <2>5. i \in 1 .. N /\ S[i] = s
    <3>1. i \in 1 .. N
      BY <1>2, <2>2, <2>3
    <3> HIDE DEF i, x, to
    <3>2. S[i] = SubSeq(words, (i - 1) * size + 1, to(i))
      BY <1>3, <3>1
    <3> QED BY <2>2, <3>1, <3>2
  <2> HIDE DEF x, i, S, N, to
  <2>6. s \in Seq(T) /\ Len(s) = to(i) - x /\ DOMAIN s = 1 .. to(i) - x
        /\ \A j \in 1 .. to(i) - x : s[j] = words[x + j]
    <3> DEFINE e == to(i)
    <3>1. e \in Nat /\ x \in Nat /\ x + 1 <= e /\ e <= n
      BY <2>1, <2>2, <2>4
    <3>2. s = SubSeq(words, x + 1, e)
      OBVIOUS
    <3> HIDE DEF e, s
    <3>3. \A j \in x + 1 .. e : words[j] \in T
      BY <1>1, <3>1, ElementOfSeq
    <3>4. /\ s \in Seq(T) /\ Len(s) = e - (x + 1) + 1
          /\ \A j \in 1 .. e - (x + 1) + 1 : s[j] = words[(x + 1) + j - 1]
      BY <3>1, <3>2, <3>3, SubSeqProperties
    <3>5. e - (x + 1) + 1 = e - x /\ \A j \in 1 .. e - x : (x + 1) + j - 1 = x + j
      BY <3>1
    <3>6. DOMAIN s = 1 .. Len(s)
      BY <3>4, LenProperties
    <3> QED BY <3>4, <3>5, <3>6 DEF e
  <2>7. k - x \in 1 .. to(i) - x /\ s[k - x] = words[x + (k - x)] /\ x + (k - x) = k
    BY <2>1, <2>2, <2>4, <2>6
  <2>8. words[k] \in ToSet(s)
    BY <2>6, <2>7 DEF ToSet
  <2> QED BY <2>5, <2>8
<1> HIDE DEF S
<1> QED BY <1>1, <1>2, <1>4, <1>5 DEF S

\* What a range asks for: each slice, and no keyword.
LEMMA RangeTries ==
    ASSUME NEW time, NEW slices, Len(slices) \in Nat
    PROVE  \E U :
               /\ OverRange(time, slices) \in Seq(U)
               /\ Len(OverRange(time, slices)) = Len(slices) + 1
               /\ \A i \in 1 .. Len(slices) :
                      OverRange(time, slices)[i] = [time |-> time, words |-> slices[i]]
               /\ OverRange(time, slices)[Len(slices) + 1] = [time |-> time, words |-> <<>>]
<1> DEFINE n == Len(slices)
           f == [i \in 1 .. n |-> [time |-> time, words |-> slices[i]]]
           last == [time |-> time, words |-> <<>>]
           U == {f[i] : i \in 1 .. n} \cup {last}
<1>1. n \in Nat
  OBVIOUS
<1>2. f \in Seq({f[i] : i \in 1 .. n}) /\ Len(f) = n
  <2>1. f = [i \in 1 .. n |-> f[i]]
    OBVIOUS
  <2> HIDE DEF f
  <2> QED BY <1>1, <2>1, Listed
<1>3. \A i \in 1 .. n : f[i] = [time |-> time, words |-> slices[i]]
  OBVIOUS
<1>4. f \in [1 .. n -> U]
  OBVIOUS
<1>5. OverRange(time, slices) = f \o <<last>>
  BY DEF OverRange
<1> HIDE DEF f, last, n
<1>6. f \in Seq(U) /\ last \in U
  BY <1>1, <1>4
<1> HIDE DEF U
<1>7. /\ f \o <<last>> \in Seq(U) /\ Len(f \o <<last>>) = n + 1
      /\ \A i \in 1 .. n : (f \o <<last>>)[i] = f[i]
      /\ (f \o <<last>>)[n + 1] = last
  BY <1>1, <1>2, <1>6
<1> QED BY <1>3, <1>5, <1>7 DEF n, last

\* The list of which each plan is taken once, and how it begins: all keywords
\* at once, then each slice and no keyword over the given range.
Tries(first, time, slices, times) ==
    <<first>> \o OverRange(time, slices) \o OverRanges(times, slices)

BeginsWith(list, first, time, slices) ==
    /\ Len(list) \in Nat /\ DOMAIN list = 1 .. Len(list)
    /\ Len(slices) \in Nat /\ Len(list) >= Len(slices) + 2
    /\ list[1] = first
    /\ \A i \in 1 .. Len(slices) : list[i + 1] = [time |-> time, words |-> slices[i]]
    /\ list[Len(slices) + 2] = [time |-> time, words |-> <<>>]

LEMMA ListOfPlans ==
    ASSUME NEW first, NEW time, NEW slices, Len(slices) \in Nat, NEW times,
           Len(times) \in Nat, NEW list, list = Tries(first, time, slices, times)
    PROVE  BeginsWith(list, first, time, slices)
<1> DEFINE A == OverRange(time, slices)
           B == OverRanges(times, slices)
           n == Len(slices)
           m == Len(times) * (n + 1)
<1>1. n \in Nat /\ m \in Nat
  OBVIOUS
<1>2. B = [i \in 1 .. m |-> B[i]]
  BY DEF OverRanges
<1>3. PICK U : /\ A \in Seq(U) /\ Len(A) = n + 1
               /\ \A i \in 1 .. n : A[i] = [time |-> time, words |-> slices[i]]
               /\ A[n + 1] = [time |-> time, words |-> <<>>]
  BY RangeTries
<1> HIDE DEF A, B, m, n
<1>4. B \in Seq({B[i] : i \in 1 .. m}) /\ Len(B) = m
  BY <1>1, <1>2, Listed
<1> DEFINE V == {first} \cup U \cup {B[i] : i \in 1 .. m}
<1>5. <<first>> \in Seq(V) /\ A \in Seq(V) /\ B \in Seq(V)
  <2>1. <<first>> \in Seq(V)
    OBVIOUS
  <2>2. A \in Seq(V)
    BY <1>3
  <2>3. B \in Seq(V)
    <3>1. \A i \in 1 .. m : B[i] \in V
      OBVIOUS
    <3> HIDE DEF V
    <3>2. B \in [1 .. m -> V]
      BY <1>2, <3>1
    <3> QED BY <1>1, <3>2
  <2> QED BY <2>1, <2>2, <2>3
<1> HIDE DEF V
<1> DEFINE C == <<first>> \o A
<1>10. /\ C \in Seq(V) /\ Len(C) = 1 + (n + 1) /\ C[1] = first
      /\ \A i \in 1 .. n + 1 : C[i + 1] = A[i]
  BY <1>1, <1>3, <1>5
<1>6. /\ list \in Seq(V) /\ Len(list) = 1 + (n + 1) + m
      /\ list[1] = first
      /\ \A i \in 1 .. n + 1 : list[i + 1] = A[i]
  <2> HIDE DEF C
  <2>1. C \o B \in Seq(V) /\ Len(C \o B) = Len(C) + Len(B)
        /\ \A i \in 1 .. Len(C) : (C \o B)[i] = C[i]
    <3>1. Len(C) \in Nat /\ Len(B) \in Nat
      BY <1>1, <1>4, <1>10
    <3>2. /\ C \o B \in Seq(V) /\ Len(C \o B) = Len(C) + Len(B)
          /\ \A i \in 1 .. Len(C) + Len(B) :
                 (C \o B)[i] = IF i <= Len(C) THEN C[i] ELSE B[i - Len(C)]
      BY <1>10, <1>5, ConcatProperties
    <3>3. \A i \in 1 .. Len(C) : i \in 1 .. Len(C) + Len(B) /\ i <= Len(C)
      BY <3>1
    <3> QED BY <3>2, <3>3
  <2>2. list = C \o B
    BY DEF C, A, B, Tries
  <2>3. Len(C) = n + 2 /\ 1 \in 1 .. n + 2 /\ \A i \in 1 .. n + 1 : i + 1 \in 1 .. n + 2
    BY <1>1, <1>10
  <2>4. list[1] = first /\ \A i \in 1 .. n + 1 : list[i + 1] = A[i]
    <3>1. list[1] = first
      BY <1>10, <2>1, <2>2, <2>3
    <3>2. ASSUME NEW i \in 1 .. n + 1
          PROVE  list[i + 1] = A[i]
      <4>1. i + 1 \in 1 .. Len(C)
        BY <2>3
      <4>2. list[i + 1] = C[i + 1]
        BY <2>1, <2>2, <4>1
      <4> QED BY <1>10, <4>2
    <3> QED BY <3>1, <3>2
  <2> QED BY <1>1, <1>4, <1>10, <2>1, <2>2, <2>4
<1>7. Len(list) \in Nat /\ DOMAIN list = 1 .. Len(list) /\ Len(list) >= n + 2
  BY <1>1, <1>6
<1>8. list[n + 2] = [time |-> time, words |-> <<>>]
  <2>1. n + 1 \in 1 .. n + 1 /\ (n + 1) + 1 = n + 2
    BY <1>1
  <2>2. list[(n + 1) + 1] = A[n + 1]
    BY <1>6, <2>1
  <2> QED BY <1>3, <2>1, <2>2
<1>9. \A i \in 1 .. n : list[i + 1] = [time |-> time, words |-> slices[i]]
  <2> SUFFICES ASSUME NEW i \in 1 .. n
               PROVE  list[i + 1] = [time |-> time, words |-> slices[i]]
    OBVIOUS
  <2>1. i \in 1 .. n + 1
    BY <1>1
  <2> QED BY <1>3, <1>6, <2>1
<1> QED BY <1>1, <1>6, <1>7, <1>8, <1>9 DEF A, B, n, BeginsWith

LEMMA PlansAreOrdered ==
    ASSUME search \in Searches, plans = FetchPlans(search)
    PROVE  PlansWidenInOrder
<1> DEFINE time == search.times[1]
           words == Keywords(search)
           slices == Slices(words, search.size)
           first == [time |-> time, words |-> words]
           list == Tries(first, time, slices, search.times)
           n == Len(slices)
           tried == ToSet(slices) \cup {<<>>}
           K == Cardinality(Firsts(list))
           p == PushOnce(list)
           N == Len(list)
           L == Len(plans)
<1>1. PICK T : words \in Seq(T) /\ Len(words) <= search.limit
  BY KeywordLists
<1>2. /\ search.size \in Nat \ {0} /\ search.extra \in Nat
      /\ Len(search.times) \in Nat
  BY KeywordLists
<1> HIDE DEF words
<1>3. /\ slices \in Seq({slices[i] : i \in 1 .. (Len(words) + search.size - 1) \div search.size})
      /\ DOMAIN slices = 1 .. n
      /\ \A k \in DOMAIN words : \E i \in DOMAIN slices : words[k] \in ToSet(slices[i])
  BY <1>1, <1>2, SlicesCover
<1> HIDE DEF slices, time, first
<1>4. /\ N \in Nat /\ DOMAIN list = 1 .. N /\ n \in Nat /\ N >= n + 2 /\ list[1] = first
      /\ \A i \in 1 .. n : list[i + 1] = [time |-> time, words |-> slices[i]]
      /\ list[n + 2] = [time |-> time, words |-> <<>>]
  <2>1. list = Tries(first, time, slices, search.times)
    OBVIOUS
  <2>2. Len(slices) \in Nat
    BY <1>3
  <2> HIDE DEF list
  <2>3. BeginsWith(list, first, time, slices)
    BY <1>2, <2>1, <2>2, ListOfPlans
  <2> QED BY <2>3 DEF N, n, BeginsWith
<1> HIDE DEF list, N
<1>5. /\ K \in Nat /\ p = [i \in 1 .. K |-> p[i]]
      /\ \A i \in 1 .. K : \E j \in Firsts(list) : Pushed(list, j) = i /\ p[i] = list[j]
      /\ \A i, j \in 1 .. K : p[i] = p[j] => i = j
      /\ \A i \in 1 .. N : \E j \in 1 .. K : j <= Pushed(list, i) /\ p[j] = list[i]
  <2>1. N \in Nat /\ DOMAIN list = 1 .. N
    BY <1>4
  <2> QED BY ONLY <2>1, PushedOnce
<1>6. /\ Firsts(list) \subseteq 1 .. N
      /\ \A i \in 0 .. N : Pushed(list, i) \in Nat
      /\ Pushed(list, 0) = 0
      /\ \A i, k \in 0 .. N : i <= k => Pushed(list, i) <= Pushed(list, k)
      /\ \A i \in 1 .. N :
             Pushed(list, i) = Pushed(list, i - 1) + (IF i \in Firsts(list) THEN 1 ELSE 0)
  <2>1. N \in Nat /\ DOMAIN list = 1 .. N
    BY <1>4
  <2> HIDE DEF K, p
  <2> QED BY <2>1, PushedGrows
<1> HIDE DEF K, p
<1>7. p \in Seq({p[i] : i \in 1 .. K}) /\ Len(p) = K
  BY <1>5, Listed
<1>8. plans = Shortened(p, 1 + search.extra)
  BY DEF FetchPlans, Tries, p, list, first, time, slices, words
<1>9. /\ L \in Nat /\ DOMAIN plans = 1 .. L /\ L <= 1 + search.extra /\ L <= K
      /\ L = 1 + search.extra \/ L = K
      /\ \A i \in 1 .. L : plans[i] = p[i]
  <2>1. 1 + search.extra \in Nat
    BY <1>2
  <2> QED BY <1>7, <1>8, <2>1, Shorter
<1> HIDE DEF L
<1>10. K >= 1 /\ p[1] = first
  <2>0. 1 \in 1 .. N /\ 1 - 1 = 0
    BY <1>4
  <2>1. Pushed(list, 1) <= 1
    BY <1>6, <2>0
  <2>2. PICK j \in 1 .. K : j <= Pushed(list, 1) /\ p[j] = list[1]
    BY <1>4, <1>5, <2>0
  <2>3. j = 1
    <3>1. Pushed(list, 1) \in Nat /\ K \in Nat
      <4>1. 1 \in 0 .. N
        BY <1>4
      <4> QED BY <1>5, <1>6, <4>1
    <3> QED BY <2>1, <2>2, <3>1
  <2>4. K >= 1
    <3>1. K \in Nat
      BY <1>5
    <3> QED BY <2>2, <3>1
  <2>5. list[1] = first
    BY <1>4
  <2> QED BY <2>2, <2>3, <2>4, <2>5
<1>11. plans[1] = first
  <2>1. 1 \in 1 .. L
    BY <1>2, <1>5, <1>9, <1>10
  <2> QED BY <1>9, <1>10, <2>1
<1>12. \A i, j \in DOMAIN plans : plans[i] = plans[j] => i = j
  BY <1>5, <1>9
<1>13. ASSUME NEW i \in DOMAIN plans, plans[i].time # time, NEW w \in tried
       PROVE  \E j \in 1 .. i : plans[j] = [time |-> time, words |-> w]
  <2>1. i \in 1 .. L /\ i \in 1 .. K /\ plans[i] = p[i]
    BY <1>5, <1>9, <1>13
  <2>2. PICK k \in Firsts(list) : Pushed(list, k) = i /\ p[i] = list[k]
    BY <1>5, <2>1
  <2>3. k \in 1 .. N
    BY <1>6
  <2>4. k > n + 2
    <3> SUFFICES ASSUME k <= n + 2 PROVE FALSE
      BY <1>4, <2>3
    <3>1. CASE k = 1
      BY <1>4, <1>13, <2>1, <2>2, <3>1 DEF first
    <3>2. CASE k = n + 2
      BY <1>4, <1>13, <2>1, <2>2, <3>2
    <3>3. CASE k \in 2 .. n + 1
      <4>1. k - 1 \in 1 .. n /\ (k - 1) + 1 = k
        BY <1>4, <3>3
      <4>2. list[k] = [time |-> time, words |-> slices[k - 1]]
        BY <1>4, <4>1
      <4> QED BY <1>13, <2>1, <2>2, <4>2
    <3> QED BY <1>4, <2>3, <3>1, <3>2, <3>3
  <2>5. PICK q \in 1 .. n + 2 : list[q] = [time |-> time, words |-> w]
    <3>1. CASE w = <<>>
      BY <1>4, <3>1
    <3>2. CASE w \in ToSet(slices)
      <4>1. PICK s \in DOMAIN slices : w = slices[s]
        BY <3>2 DEF ToSet
      <4>2. s \in 1 .. n /\ s + 1 \in 1 .. n + 2
        BY <1>3, <1>4
      <4> QED BY <1>4, <4>1, <4>2
    <3> QED BY <3>1, <3>2
  <2>6. q \in 1 .. N /\ q <= k - 1
    BY <1>4, <2>3, <2>4
  <2>7. PICK j \in 1 .. K : j <= Pushed(list, q) /\ p[j] = list[q]
    BY <1>5, <2>6
  <2>8. /\ Pushed(list, q) \in Nat /\ Pushed(list, k) \in Nat
        /\ Pushed(list, q) <= Pushed(list, k)
    BY <1>4, <1>6, <2>3, <2>6
  <2>9. j \in 1 .. i /\ j \in 1 .. L
    BY <1>5, <1>9, <2>1, <2>2, <2>7, <2>8
  <2> QED BY <1>9, <2>5, <2>7, <2>9
<1>14. ASSUME NEW k \in DOMAIN words
       PROVE  \E w \in tried : words[k] \in ToSet(w)
  <2>1. PICK i \in DOMAIN slices : words[k] \in ToSet(slices[i])
    BY <1>3
  <2>2. slices[i] \in tried
    BY DEF ToSet
  <2> QED BY <2>1, <2>2
<1>15. /\ plans[1] = [time |-> time, words |-> words]
       /\ Len(plans) <= 1 + search.extra /\ Len(words) <= search.limit
  BY <1>1, <1>9, <1>11 DEF L, first, words
<1>16. time = search.times[1] /\ words = Keywords(search)
       /\ tried = ToSet(Slices(Keywords(search), search.size)) \cup {<<>>}
  BY DEF time, words, slices
<1> HIDE DEF tried, time, words, slices
<1> QED BY <1>12, <1>13, <1>14, <1>15, <1>16 DEF PlansWidenInOrder

\* A search leaves its time range only when it has tried all of it, whatever
\* it is configured to, and asks for nothing twice: resolveRedditQueryKeywords
\* and buildRedditFetchPlans.
THEOREM SearchesWidenInOrder == IngestionSpec => []PlansWidenInOrder
<1> DEFINE Inv == search \in Searches /\ plans = FetchPlans(search)
<1>1. IngestionInit => Inv
  BY DEF IngestionInit
<1>2. Inv /\ [IngestionNext]_ingestionVars => Inv'
  <2>1. \A c \in Cycles : StartCycle(c) \/ CycleEnds(c) => UNCHANGED <<search, plans>>
    BY DEF StartCycle, CycleEnds
  <2>2. \A c \in Cycles, s \in Sources : ConnectorStep(c, s) => UNCHANGED <<search, plans>>
    <3>1. \A c \in Cycles, s \in Sources : Fetch(c, s) => UNCHANGED <<search, plans>>
      BY DEF Fetch
    <3>2. \A c \in Cycles, s \in Sources : Store(c, s) => UNCHANGED <<search, plans>>
      BY DEF Store
    <3>3. \A c \in Cycles, s \in Sources : Report(c, s) => UNCHANGED <<search, plans>>
      BY DEF Report
    <3> QED BY <3>1, <3>2, <3>3 DEF ConnectorStep
  <2>3. [IngestionNext]_ingestionVars => UNCHANGED <<search, plans>>
    BY <2>1, <2>2 DEF IngestionNext, ingestionVars
  <2> QED BY <2>3
<1>3. Inv => PlansWidenInOrder
  BY PlansAreOrdered
<1> HIDE DEF Inv
<1> QED BY <1>1, <1>2, <1>3, PTL DEF IngestionSpec

-----------------------------------------------------------------------------
(* Telegram.                                                               *)

ListEntry == [row : Rows, ref : MaybeRef]
FlowRecord ==
    [at : {"new", "seed", "read", "join", "send", "done", "failed"},
     seeds : SUBSET Seeds, list : SUBSET ListEntry, sends : SUBSET Refs, goals : SUBSET Refs,
     to : MaybeRef, hops : {0, 1}, tries : 0 .. MaxTries]

\* A row is empty, or has the one seed it was made from.
RowsSeeded == \A i \in Rows : cand[i] = NoRow \/ \E s \in Seeds : cand[i].seed = {s}

\* The row still stands for the reference that was read.
StandsFor(i, ref) == cand[i].seed # {} /\ Now(Reference(cand[i])) = Now(ref)

\* A list names rows that are there, each by a reference of what it stands for
\* now; a call that threw did so because of a twin.
ListCurrent(fl) ==
    \A next \in fl.list :
        /\ StandsFor(next.row, next.ref)
        /\ fl.at = "failed" => \E j \in Rows \ {next.row} : StandsFor(j, next.ref)

\* Two of the references a call sends to name the chat.
NamedTwice(fl, c) == \E r, q \in fl.goals : r # q /\ ChatOf[r] = c /\ ChatOf[q] = c

\* While no answer is lost, a chat that has the message is one of those done
\* with; it is the one in hand only if another reference named it.
SentOnce(fl, received, isLost) ==
    LET taken == fl.goals \ fl.sends
    IN  /\ fl.at # "send" => /\ fl.to = NoRef /\ ~isLost
                             /\ \A c \in Chats : received[c] = 0
        /\ fl.sends \subseteq fl.goals
        /\ fl.to # NoRef => \E r \in taken : ChatOf[r] = ChatOf[fl.to]
        /\ ~isLost => \A c \in Chats :
              /\ received[c] > 0 => \E r \in taken : ChatOf[r] = c
              /\ received[c] > 0 /\ fl.to # NoRef /\ ChatOf[fl.to] = c => NamedTwice(fl, c)
              /\ received[c] > 1 => NamedTwice(fl, c)

TelegramInv ==
    /\ TelegramTypeOK /\ RowsSeeded
    /\ \A f \in Flows : ListCurrent(flow[f]) /\ SentOnce(flow[f], got[f], f \in lost)

LEMMA TelegramTypes ==
    TelegramTypeOK <=>
        /\ cand \in [Rows -> Row] /\ moved \subseteq DOMAIN MovesTo /\ lost \subseteq Flows
        /\ flow \in [Flows -> FlowRecord] /\ got \in [Flows -> [Chats -> Nat]]
BY DEF TelegramTypeOK, FlowRecord, ListEntry

LEMMA RestingFlow ==
    ASSUME NEW at \in {"new", "seed", "read", "join", "send", "done", "failed"}
    PROVE  LET fl == [NewFlow EXCEPT !.at = at]
           IN  /\ fl \in FlowRecord /\ fl.at = at /\ fl.list = {} /\ fl.sends = {}
               /\ fl.goals = {} /\ fl.to = NoRef
BY TelegramConstants DEF NewFlow, FlowRecord, MaybeRef

LEMMA NewFlowTyped ==
    /\ NewFlow \in FlowRecord /\ NewFlow.list = {} /\ NewFlow.sends = {} /\ NewFlow.goals = {}
    /\ NewFlow.to = NoRef
BY TelegramConstants DEF NewFlow, FlowRecord, MaybeRef

LEMMA RowsTyped ==
    /\ NoRow \in Row /\ NoRow.seed = {} /\ ~NoRow.rests
    /\ \A s \in Seeds : SeedRow(s) \in Row /\ SeedRow(s).seed = {s}
BY TelegramConstants DEF NoRow, SeedRow, Row, MaybeRef

\* What a reference is answered with is final, and a reference.
LEMMA NowFinal ==
    ASSUME moved \subseteq DOMAIN MovesTo, NEW r \in MaybeRef
    PROVE  /\ Now(r) \in MaybeRef /\ Now(Now(r)) = Now(r)
           /\ r # NoRef => Now(r) # NoRef
BY TelegramConstants DEF Now, MaybeRef

LEMMA ReferenceOf ==
    ASSUME NEW row \in Row, NEW s \in Seeds, row.seed = {s}
    PROVE  /\ Reference(row) \in MaybeRef
           /\ row.chat # NoRef => Reference(row) = row.chat
<1>1. (CHOOSE x \in row.seed : TRUE) = s
  OBVIOUS
<1> QED  BY <1>1, TelegramConstants DEF Reference, Row, MaybeRef

\* References that name the same now still do when a group moves.
LEMMA MovedTogether ==
    ASSUME moved \subseteq DOMAIN MovesTo, NEW r \in DOMAIN MovesTo \ moved,
           moved' = moved \cup {r}, NEW a \in MaybeRef, NEW b \in MaybeRef, Now(a) = Now(b)
    PROVE  Now(a)' = Now(b)'
BY TelegramConstants DEF Now, MaybeRef

LEMMA TelegramStarts == TelegramInit => TelegramInv
<1> SUFFICES ASSUME TelegramInit  PROVE TelegramInv
  OBVIOUS
<1>1. \A i \in Rows : \/ cand[i] = NoRow
                      \/ \E s \in Seeds, a \in BOOLEAN :
                            cand[i] = [SeedRow(s) EXCEPT !.approved = a]
  <2>1. PICK approved \in Approved :
          LET row == CHOOSE r \in [Seeds -> Rows] : \A s, t \in Seeds : r[s] = r[t] => s = t
          IN  cand = [i \in Rows |->
                         IF \E s \in Seeds : row[s] = i
                         THEN LET s == CHOOSE s \in Seeds : row[s] = i
                              IN  [SeedRow(s) EXCEPT !.approved = s \in approved]
                         ELSE NoRow]
    BY DEF TelegramInit
  <2> DEFINE row == CHOOSE r \in [Seeds -> Rows] : \A s, t \in Seeds : r[s] = r[t] => s = t
             of(i) == CHOOSE s \in Seeds : row[s] = i
  <2>2. ASSUME NEW i \in Rows
        PROVE  cand[i] = IF \E s \in Seeds : row[s] = i
                         THEN [SeedRow(of(i)) EXCEPT !.approved = of(i) \in approved]
                         ELSE NoRow
    BY <2>1
  <2> HIDE DEF row
  <2>3. ASSUME NEW i \in Rows, \E s \in Seeds : row[s] = i
        PROVE  of(i) \in Seeds
    BY <2>3
  <2>4. \A i \in Rows : (of(i) \in approved) \in BOOLEAN
    OBVIOUS
  <2> HIDE DEF of
  <2> QED  BY <2>2, <2>3, <2>4
<1>2. \A s \in Seeds, a \in BOOLEAN :
        LET row == [SeedRow(s) EXCEPT !.approved = a] IN row \in Row /\ row.seed = {s}
  BY RowsTyped DEF Row
<1>3. cand \in [Rows -> Row] /\ RowsSeeded
  <2>1. ASSUME NEW i \in Rows
        PROVE  cand[i] \in Row /\ (cand[i] = NoRow \/ \E s \in Seeds : cand[i].seed = {s})
    <3>1. CASE cand[i] = NoRow
      BY <3>1, RowsTyped
    <3>2. ASSUME NEW s \in Seeds, NEW a \in BOOLEAN,
                 cand[i] = [SeedRow(s) EXCEPT !.approved = a]
          PROVE  cand[i] \in Row /\ cand[i].seed = {s}
      BY <1>2, <3>2
    <3> QED  BY <1>1, <3>1, <3>2
  <2>2. cand = [i \in Rows |-> cand[i]]
    BY DEF TelegramInit
  <2> QED  BY <2>1, <2>2 DEF RowsSeeded
<1>4. /\ \A f \in Flows : flow[f] = NewFlow /\ got[f] = [c \in Chats |-> 0]
      /\ moved = {} /\ lost = {}
  BY DEF TelegramInit
<1>5. NewFlow = [NewFlow EXCEPT !.at = "new"]
  BY DEF NewFlow
<1>6. /\ NewFlow \in FlowRecord /\ NewFlow.at = "new" /\ NewFlow.list = {}
      /\ NewFlow.sends = {} /\ NewFlow.goals = {} /\ NewFlow.to = NoRef
  BY <1>5, RestingFlow
<1>7. TelegramTypeOK
  BY <1>3, <1>6, TelegramTypes DEF TelegramInit
<1>8. \A f \in Flows : ListCurrent(flow[f]) /\ SentOnce(flow[f], got[f], f \in lost)
  BY <1>4, <1>6 DEF ListCurrent, SentOnce
<1> QED  BY <1>3, <1>7, <1>8 DEF TelegramInv

\* What every row stands for, it stands for after a step.
RowsStand == \A i \in Rows, ref \in MaybeRef : StandsFor(i, ref) => StandsFor(i, ref)'

\* A call makes a step: what is to be known of it, so that the invariant holds.
LEMMA FlowMoves ==
    ASSUME TelegramInv, NEW f \in Flows, NEW r \in FlowRecord, Flows2(f, r),
           cand' \in [Rows -> Row], RowsSeeded', RowsStand, UNCHANGED moved,
           \A next \in r.list :
              /\ StandsFor(next.row, next.ref)'
              /\ r.at = "failed" => \E j \in Rows \ {next.row} : StandsFor(j, next.ref)',
           NEW n \in [Chats -> Nat], got' = [got EXCEPT ![f] = n],
           lost' \subseteq Flows, \A g \in Flows \ {f} : g \in lost' <=> g \in lost,
           SentOnce(r, n, f \in lost')
    PROVE  TelegramInv'
<1>1. /\ flow \in [Flows -> FlowRecord] /\ got \in [Flows -> [Chats -> Nat]]
      /\ moved \subseteq DOMAIN MovesTo
  BY TelegramTypes DEF TelegramInv
<1>2. /\ flow' \in [Flows -> FlowRecord] /\ flow'[f] = r /\ got'[f] = n
      /\ got' \in [Flows -> [Chats -> Nat]]
      /\ \A g \in Flows \ {f} : flow'[g] = flow[g] /\ got'[g] = got[g]
  BY <1>1 DEF Flows2
<1>3. TelegramTypeOK'
  BY <1>1, <1>2 DEF TelegramTypeOK, FlowRecord, ListEntry
<1>4. ASSUME NEW g \in Flows  PROVE ListCurrent(flow[g])'
  <2>1. CASE g = f
    BY <1>2, <2>1 DEF ListCurrent
  <2>2. CASE g # f
    <3>1. flow[g].list \subseteq ListEntry
      BY <1>1 DEF FlowRecord
    <3>2. ListCurrent(flow[g])
      BY DEF TelegramInv
    <3>3. \A next \in ListEntry : next.row \in Rows /\ next.ref \in MaybeRef
      BY DEF ListEntry
    <3> QED  BY <1>2, <2>2, <3>1, <3>2, <3>3 DEF ListCurrent, RowsStand
  <2> QED  BY <2>1, <2>2
<1>5. ASSUME NEW g \in Flows  PROVE SentOnce(flow[g], got[g], g \in lost)'
  <2>1. CASE g = f
    BY <1>2, <2>1
  <2>2. CASE g # f
    <3>1. SentOnce(flow[g], got[g], g \in lost)
      BY DEF TelegramInv
    <3>2. flow'[g] = flow[g] /\ got'[g] = got[g] /\ (g \in lost' <=> g \in lost)
      BY <1>2, <2>2
    <3> QED  BY <3>1, <3>2 DEF SentOnce
  <2> QED  BY <2>1, <2>2
<1> QED  BY <1>3, <1>4, <1>5 DEF TelegramInv

\* The same for a step before anything is sent.
LEMMA FlowMovesUnsent ==
    ASSUME TelegramInv, NEW f \in Flows, NEW r \in FlowRecord, Flows2(f, r),
           cand' \in [Rows -> Row], RowsSeeded', RowsStand,
           \A next \in r.list :
              /\ StandsFor(next.row, next.ref)'
              /\ r.at = "failed" => \E j \in Rows \ {next.row} : StandsFor(j, next.ref)',
           flow[f].at # "send", r.sends \subseteq r.goals, r.to = NoRef,
           UNCHANGED <<moved, got, lost>>
    PROVE  TelegramInv'
<1>1. /\ got \in [Flows -> [Chats -> Nat]] /\ lost \subseteq Flows
      /\ SentOnce(flow[f], got[f], f \in lost)
  BY TelegramTypes DEF TelegramInv
<1>2. f \notin lost /\ \A c \in Chats : got[f][c] = 0
  BY <1>1 DEF SentOnce
<1>3. got[f] \in [Chats -> Nat] /\ got' = [got EXCEPT ![f] = got[f]]
  BY <1>1
<1>4. SentOnce(r, got[f], f \in lost')
  BY <1>2 DEF SentOnce
<1> QED  BY <1>1, <1>3, <1>4, FlowMoves


LEMMA RowsRest ==
    ASSUME TelegramInv, UNCHANGED <<cand, moved>>
    PROVE  cand' \in [Rows -> Row] /\ RowsSeeded' /\ RowsStand
<1>1. cand \in [Rows -> Row] /\ RowsSeeded
  BY TelegramTypes DEF TelegramInv
<1> QED  BY <1>1 DEF RowsSeeded, RowsStand, StandsFor, Now

\* One row is written, and stands for what it stood for.
LEMMA RowWritten ==
    ASSUME TelegramInv, UNCHANGED moved, NEW i \in Rows, NEW row \in Row,
           cand' = [cand EXCEPT ![i] = row],
           row = NoRow \/ \E s \in Seeds : row.seed = {s},
           cand[i].seed # {} =>
               row.seed # {} /\ Now(Reference(row)) = Now(Reference(cand[i]))
    PROVE  cand' \in [Rows -> Row] /\ RowsSeeded' /\ RowsStand
<1>1. cand \in [Rows -> Row] /\ RowsSeeded
  BY TelegramTypes DEF TelegramInv
<1>2. cand'[i] = row /\ \A j \in Rows \ {i} : cand'[j] = cand[j]
  BY <1>1
<1>3. RowsSeeded'
  BY <1>1, <1>2 DEF RowsSeeded
<1>4. \A r \in MaybeRef : Now(r)' = Now(r)
  BY DEF Now
<1>5. ASSUME NEW j \in Rows, NEW ref \in MaybeRef, StandsFor(j, ref)
      PROVE  StandsFor(j, ref)'
  <2>1. Now(ref)' = Now(ref)
    BY <1>4
  <2>2. CASE j = i
    <3>1. cand'[j].seed # {} /\ Now(Reference(cand'[j])) = Now(ref)
      BY <1>2, <1>5, <2>2 DEF StandsFor
    <3> QED  BY <2>1, <3>1 DEF StandsFor, Now
  <2>3. CASE j # i
    BY <1>2, <1>5, <2>3 DEF StandsFor, Now
  <2> QED  BY <2>2, <2>3
<1> QED  BY <1>1, <1>3, <1>5 DEF RowsStand

\* A row that says something else of itself than what it stands for.
LEMMA RowMarked ==
    ASSUME TelegramInv, NEW i \in Rows, NEW row \in Row, row.seed = cand[i].seed,
           row.chat = cand[i].chat, cand' = [cand EXCEPT ![i] = row], cand[i].seed # {},
           UNCHANGED moved
    PROVE  cand' \in [Rows -> Row] /\ RowsSeeded' /\ RowsStand
<1>1. cand[i] = NoRow \/ \E s \in Seeds : cand[i].seed = {s}
  BY DEF TelegramInv, RowsSeeded
<1>2. \E s \in Seeds : row.seed = {s}
  BY <1>1, RowsTyped
<1>3. Reference(row) = Reference(cand[i])
  BY DEF Reference
<1> QED  BY <1>2, <1>3, RowWritten

\* What the invariant says of a call that has not begun to send.
LEMMA Unsent ==
    ASSUME TelegramInv, NEW f \in Flows
    PROVE  /\ flow[f] \in FlowRecord /\ flow[f].sends \subseteq flow[f].goals
           /\ flow[f].at # "send" => flow[f].to = NoRef
           /\ \A next \in flow[f].list : /\ next \in ListEntry
                                         /\ next.row \in Rows /\ next.ref \in MaybeRef
                                         /\ StandsFor(next.row, next.ref)
BY TelegramTypes DEF TelegramInv, SentOnce, ListCurrent, FlowRecord, ListEntry

LEMMA BeginsKeeps ==
    ASSUME TelegramInv, NEW f \in Flows, BeginsFlow(f)
    PROVE  TelegramInv'
<1> DEFINE fl == flow[f]
<1>1. fl.at = "new" /\ UNCHANGED <<moved, got, lost>>
  BY DEF BeginsFlow, FlowAt
<1>2. /\ fl \in FlowRecord /\ fl.sends \subseteq fl.goals /\ fl.to = NoRef
      /\ \A next \in fl.list : StandsFor(next.row, next.ref) /\ next.row \in Rows
                               /\ next.ref \in MaybeRef
  BY <1>1, Unsent
<1>3. CASE Flows2(f, [fl EXCEPT !.at = "seed", !.seeds = Seeds]) /\ UNCHANGED cand
  <2> DEFINE r == [fl EXCEPT !.at = "seed", !.seeds = Seeds]
  <2>1. /\ r \in FlowRecord /\ r.at = "seed" /\ r.sends = fl.sends /\ r.goals = fl.goals
        /\ r.to = NoRef /\ r.list = fl.list
    BY <1>2 DEF FlowRecord
  <2>2. cand' \in [Rows -> Row] /\ RowsSeeded' /\ RowsStand
    BY <1>1, <1>3, RowsRest
  <2>3. Flows2(f, r) /\ fl.at # "send"
    BY <1>1, <1>3
  <2> HIDE DEF r
  <2>4. \A next \in r.list : StandsFor(next.row, next.ref)'
    BY <1>2, <2>1, <2>2 DEF RowsStand
  <2> QED  BY <1>1, <1>2, <2>1, <2>2, <2>3, <2>4, FlowMovesUnsent
<1>4. ASSUME Flows2(f, [fl EXCEPT !.at = "read"]), NEW i \in Rows, cand[i].seed # {},
             cand' = [cand EXCEPT ![i].approved = TRUE]
      PROVE  TelegramInv'
  <2> DEFINE r == [fl EXCEPT !.at = "read"]
             row == [cand[i] EXCEPT !.approved = TRUE]
  <2>1. /\ r \in FlowRecord /\ r.at = "read" /\ r.sends = fl.sends /\ r.goals = fl.goals
        /\ r.to = NoRef /\ r.list = fl.list
    BY <1>2 DEF FlowRecord
  <2>2. cand[i] \in Row
    BY TelegramTypes DEF TelegramInv
  <2>3. row \in Row /\ row.seed = cand[i].seed /\ row.chat = cand[i].chat
    BY <2>2 DEF Row
  <2>4. Flows2(f, r) /\ fl.at # "send" /\ cand' = [cand EXCEPT ![i] = row]
    BY <1>1, <1>4
  <2> HIDE DEF r, row
  <2>5. cand' \in [Rows -> Row] /\ RowsSeeded' /\ RowsStand
    BY <1>1, <1>4, <2>3, <2>4, RowMarked
  <2>6. \A next \in r.list : StandsFor(next.row, next.ref)'
    BY <1>2, <2>1, <2>5 DEF RowsStand
  <2> QED  BY <1>1, <1>2, <2>1, <2>4, <2>5, <2>6, FlowMovesUnsent
<1> QED  BY <1>3, <1>4 DEF BeginsFlow

LEMMA SyncsKeeps ==
    ASSUME TelegramInv, NEW f \in Flows, SyncsSeed(f)
    PROVE  TelegramInv'
<1> DEFINE fl == flow[f]
<1>1. fl.at = "seed" /\ UNCHANGED <<moved, got, lost>>
  BY DEF SyncsSeed, FlowAt
<1>2. /\ fl \in FlowRecord /\ fl.sends \subseteq fl.goals /\ fl.to = NoRef
      /\ \A next \in fl.list : StandsFor(next.row, next.ref) /\ next.row \in Rows
                               /\ next.ref \in MaybeRef
  BY <1>1, Unsent
<1>3. PICK s \in fl.seeds :
        /\ IF \E i \in Rows : Finds(cand[i], s) THEN UNCHANGED cand
           ELSE \E i \in Rows : cand[i] = NoRow /\ cand' = [cand EXCEPT ![i] = SeedRow(s)]
        /\ Flows2(f, [fl EXCEPT !.seeds = @ \ {s},
                                !.at = IF fl.seeds = {s} THEN "read" ELSE @])
  BY DEF SyncsSeed
<1> DEFINE at == IF fl.seeds = {s} THEN "read" ELSE fl.at
           left == fl.seeds \ {s}
           r == [fl EXCEPT !.seeds = left, !.at = at]
<1>4. Flows2(f, r) /\ s \in Seeds /\ left \in SUBSET Seeds /\ at \in {"read", "seed"}
  BY <1>1, <1>2, <1>3 DEF FlowRecord
<1> HIDE DEF at, left
<1>5. /\ r \in FlowRecord /\ r.at \in {"read", "seed"} /\ r.sends = fl.sends
      /\ r.goals = fl.goals /\ r.to = NoRef /\ r.list = fl.list
  BY <1>2, <1>4 DEF FlowRecord
<1> HIDE DEF r
<1>6. cand' \in [Rows -> Row] /\ RowsSeeded' /\ RowsStand
  <2>1. CASE UNCHANGED cand
    BY <1>1, <2>1, RowsRest
  <2>2. ASSUME NEW i \in Rows, cand[i] = NoRow, cand' = [cand EXCEPT ![i] = SeedRow(s)]
        PROVE  cand' \in [Rows -> Row] /\ RowsSeeded' /\ RowsStand
    <3>1. SeedRow(s) \in Row /\ SeedRow(s).seed = {s} /\ cand[i].seed = {}
      BY <1>4, <2>2, RowsTyped
    <3> QED  BY <1>1, <1>4, <2>2, <3>1, RowWritten
  <2> QED  BY <1>3, <2>1, <2>2
<1>7. \A next \in r.list : StandsFor(next.row, next.ref)'
  BY <1>2, <1>5, <1>6 DEF RowsStand
<1> QED  BY <1>1, <1>2, <1>4, <1>5, <1>6, <1>7, FlowMovesUnsent

LEMMA ReadsKeeps ==
    ASSUME TelegramInv, NEW f \in Flows, ReadsCandidates(f)
    PROVE  TelegramInv'
<1> DEFINE fl == flow[f]
           list == {[row |-> i, ref |-> Reference(cand[i])] :
                        i \in {j \in Rows : cand[j].approved /\ ~cand[j].rests}}
           r == [fl EXCEPT !.at = "join", !.list = list]
<1>1. fl.at = "read" /\ Flows2(f, r) /\ UNCHANGED <<cand, moved, got, lost>>
  BY DEF ReadsCandidates, FlowAt
<1>2. fl \in FlowRecord /\ fl.sends \subseteq fl.goals /\ fl.to = NoRef
  BY <1>1, Unsent
<1>3. ASSUME NEW i \in Rows, cand[i].approved
      PROVE  cand[i].seed # {} /\ Reference(cand[i]) \in MaybeRef
  <2>1. cand[i] \in Row /\ (cand[i] = NoRow \/ \E s \in Seeds : cand[i].seed = {s})
    BY TelegramTypes DEF TelegramInv, RowsSeeded
  <2>2. cand[i] # NoRow
    BY <1>3 DEF NoRow
  <2> QED  BY <2>1, <2>2, ReferenceOf
<1>4. \A next \in list : next \in ListEntry /\ StandsFor(next.row, next.ref)
                         /\ next.row \in Rows /\ next.ref \in MaybeRef
  BY <1>3 DEF ListEntry, StandsFor
<1> HIDE DEF list
<1>5. /\ r \in FlowRecord /\ r.at = "join" /\ r.sends = fl.sends /\ r.goals = fl.goals
      /\ r.to = NoRef /\ r.list = list
  BY <1>2, <1>4 DEF FlowRecord
<1> HIDE DEF r
<1>6. cand' \in [Rows -> Row] /\ RowsSeeded' /\ RowsStand
  BY <1>1, RowsRest
<1>7. \A next \in r.list : StandsFor(next.row, next.ref)'
  BY <1>4, <1>5, <1>6 DEF RowsStand
<1> QED  BY <1>1, <1>2, <1>5, <1>6, <1>7, FlowMovesUnsent


LEMMA JoinsKeeps ==
    ASSUME TelegramInv, NEW f \in Flows, Joins(f)
    PROVE  TelegramInv'
<1> DEFINE fl == flow[f]
<1>1. fl.at = "join" /\ UNCHANGED <<moved, got, lost>>
  BY DEF Joins, FlowAt
<1>2. /\ fl \in FlowRecord /\ fl.sends \subseteq fl.goals /\ fl.to = NoRef
      /\ \A next \in fl.list : next \in ListEntry /\ StandsFor(next.row, next.ref)
                               /\ next.row \in Rows /\ next.ref \in MaybeRef
  BY <1>1, Unsent
<1>3. cand \in [Rows -> Row] /\ moved \subseteq DOMAIN MovesTo
  BY TelegramTypes DEF TelegramInv
<1>4. ASSUME NEW next \in fl.list, Flows2(f, [fl EXCEPT !.list = @ \ {next}]),
             cand' \in [Rows -> Row], RowsSeeded', RowsStand
      PROVE  TelegramInv'
  <2> DEFINE rest == fl.list \ {next}
             r == [fl EXCEPT !.list = rest]
  <2>1. rest \in SUBSET ListEntry /\ rest \subseteq fl.list /\ Flows2(f, r)
    BY <1>2, <1>4
  <2> HIDE DEF rest
  <2>2. /\ r \in FlowRecord /\ r.at = "join" /\ r.sends = fl.sends /\ r.goals = fl.goals
        /\ r.to = NoRef /\ r.list = rest
    BY <1>1, <1>2, <2>1 DEF FlowRecord
  <2> HIDE DEF r
  <2>3. \A other \in r.list : StandsFor(other.row, other.ref)'
    BY <1>2, <1>4, <2>1, <2>2 DEF RowsStand
  <2> QED  BY <1>1, <1>2, <1>4, <2>1, <2>2, <2>3, FlowMovesUnsent
<1>5. ASSUME NEW next \in fl.list, next.ref = NoRef,
             cand' = [cand EXCEPT ![next.row].joined = FALSE, ![next.row].rests = TRUE],
             Flows2(f, [fl EXCEPT !.list = @ \ {next}])
      PROVE  TelegramInv'
  <2> DEFINE i == next.row
             row == [cand[i] EXCEPT !.joined = FALSE, !.rests = TRUE]
  <2>1. i \in Rows /\ cand[i].seed # {} /\ cand[i] \in Row
    BY <1>2, <1>3, <1>5 DEF StandsFor
  <2>2. row \in Row /\ row.seed = cand[i].seed /\ row.chat = cand[i].chat
    BY <2>1 DEF Row
  <2>3. cand' = [cand EXCEPT ![i] = row]
    BY <1>3, <1>5, <2>1
  <2> HIDE DEF row, i
  <2>4. cand' \in [Rows -> Row] /\ RowsSeeded' /\ RowsStand
    BY <1>1, <2>1, <2>2, <2>3, RowMarked
  <2> QED  BY <1>4, <1>5, <2>4
<1>6. ASSUME NEW next \in fl.list, next.ref # NoRef, NEW found \in Inspected(next.ref)
      PROVE  /\ found.ref \in Refs /\ found.reached \in BOOLEAN
             /\ Now(found.ref) = Now(next.ref)
  <2>1. found.ref \in {next.ref, Now(next.ref)} /\ found.reached \in BOOLEAN
    <3>1. \E ref \in {next.ref, Now(next.ref)}, reached \in BOOLEAN :
             found = [ref |-> ref, reached |-> reached]
      BY <1>6 DEF Inspected
    <3> QED  BY <3>1
  <2>2. /\ Now(next.ref) \in MaybeRef /\ Now(next.ref) # NoRef
        /\ Now(Now(next.ref)) = Now(next.ref)
    BY <1>2, <1>3, <1>6, NowFinal
  <2> QED  BY <1>2, <1>6, <2>1, <2>2 DEF MaybeRef
<1>7. ASSUME NEW next \in fl.list, next.ref # NoRef, NEW found \in Inspected(next.ref),
             NEW j \in Rows \ {next.row}, cand[j].chat = found.ref,
             Flows2(f, Thrown(next)), UNCHANGED cand
      PROVE  TelegramInv'
  <2> DEFINE r == Thrown(next)
  <2>1. /\ r \in FlowRecord /\ r.at = "failed" /\ r.sends = {} /\ r.goals = {}
        /\ r.to = NoRef /\ r.list = {next}
    <3> DEFINE list == {next}
    <3>1. list \in SUBSET ListEntry /\ r = [NewFlow EXCEPT !.at = "failed", !.list = list]
      BY <1>2 DEF Thrown
    <3> HIDE DEF list, r
    <3>2. r.list = list /\ r \in FlowRecord
      BY <3>1, NewFlowTyped DEF FlowRecord
    <3> QED  BY <3>1, <3>2, NewFlowTyped DEF FlowRecord, list
  <2> HIDE DEF r
  <2>2. cand' \in [Rows -> Row] /\ RowsSeeded' /\ RowsStand
    BY <1>1, <1>7, RowsRest
  <2>3. cand[j].chat # NoRef
    BY <1>6, <1>7, TelegramConstants
  <2>4. PICK s \in Seeds : cand[j].seed = {s}
    BY <2>3 DEF TelegramInv, RowsSeeded, NoRow
  <2>5. Reference(cand[j]) = found.ref
    BY <1>3, <1>7, <2>3, <2>4, ReferenceOf
  <2>6. StandsFor(j, next.ref)
    BY <1>6, <1>7, <2>4, <2>5 DEF StandsFor
  <2>7. StandsFor(j, next.ref)' /\ StandsFor(next.row, next.ref)'
    BY <1>2, <1>7, <2>2, <2>6 DEF RowsStand
  <2>8. Flows2(f, r)
    BY <1>7 DEF r
  <2> QED  BY <1>1, <2>1, <2>2, <2>7, <2>8, FlowMovesUnsent
<1>8. ASSUME NEW next \in fl.list, next.ref # NoRef, NEW found \in Inspected(next.ref),
             cand' = [cand EXCEPT ![next.row].chat = found.ref,
                                  ![next.row].joined = found.reached,
                                  ![next.row].rests = ~found.reached],
             Flows2(f, [fl EXCEPT !.list = @ \ {next}])
      PROVE  TelegramInv'
  <2> DEFINE i == next.row
             rests == ~found.reached
             row == [cand[i] EXCEPT !.chat = found.ref, !.joined = found.reached,
                                    !.rests = rests]
  <2>1. /\ i \in Rows /\ cand[i].seed # {} /\ cand[i] \in Row /\ rests \in BOOLEAN
        /\ Now(Reference(cand[i])) = Now(next.ref)
    BY <1>2, <1>3, <1>8 DEF StandsFor
  <2>2. found.ref \in MaybeRef /\ found.ref # NoRef /\ found.reached \in BOOLEAN
    BY <1>6, <1>8, TelegramConstants DEF MaybeRef
  <2>3. cand' = [cand EXCEPT ![i] = row]
    BY <1>3, <1>8, <2>1
  <2> HIDE DEF rests
  <2>4. row \in Row /\ row.seed = cand[i].seed /\ row.chat = found.ref
    BY <2>1, <2>2 DEF Row
  <2> HIDE DEF row, i
  <2>5. PICK s \in Seeds : row.seed = {s}
    BY <2>1, <2>4, RowsTyped DEF TelegramInv, RowsSeeded
  <2>6. Reference(row) = found.ref
    BY <2>2, <2>4, <2>5, ReferenceOf
  <2>7. Now(Reference(row)) = Now(Reference(cand[i]))
    BY <1>6, <1>8, <2>1, <2>6
  <2>8. cand' \in [Rows -> Row] /\ RowsSeeded' /\ RowsStand
    BY <1>1, <2>1, <2>3, <2>4, <2>5, <2>7, RowWritten
  <2> QED  BY <1>4, <1>8, <2>8
<1> QED  BY <1>5, <1>7, <1>8 DEF Joins

LEMMA TargetsKeeps ==
    ASSUME TelegramInv, NEW f \in Flows, Targets(f)
    PROVE  TelegramInv'
<1>1. flow[f].at = "join" /\ UNCHANGED <<cand, moved, got, lost>>
  BY DEF Targets, FlowAt
<1>2. cand \in [Rows -> Row]
  BY TelegramTypes DEF TelegramInv
<1>3. cand' \in [Rows -> Row] /\ RowsSeeded' /\ RowsStand
  BY <1>1, RowsRest
<1>4. ASSUME NEW r \in FlowRecord, Flows2(f, r), r.list = {}, r.sends = r.goals, r.to = NoRef
      PROVE  TelegramInv'
  BY <1>1, <1>3, <1>4, FlowMovesUnsent
<1>5. CASE Flows2(f, [NewFlow EXCEPT !.at = "done"])
  BY <1>4, <1>5, RestingFlow
<1> DEFINE goals == Defaults \cup
             ({cand[i].chat : i \in {j \in Rows : cand[j].approved /\ cand[j].joined}} \ {NoRef})
<1>6. CASE Flows2(f, [NewFlow EXCEPT !.at = "send", !.sends = goals, !.goals = goals])
  <2> DEFINE r == [NewFlow EXCEPT !.at = "send", !.sends = goals, !.goals = goals]
  <2>1. goals \in SUBSET Refs
    BY <1>2, TelegramConstants DEF Row, MaybeRef
  <2>2. Flows2(f, r)
    BY <1>6
  <2> HIDE DEF goals
  <2>3. r \in FlowRecord /\ r.list = {} /\ r.sends = goals /\ r.goals = goals /\ r.to = NoRef
    BY <2>1, NewFlowTyped DEF FlowRecord
  <2> HIDE DEF r
  <2> QED  BY <1>4, <2>2, <2>3
<1> QED  BY <1>5, <1>6 DEF Targets


LEMMA NextTargetKeeps ==
    ASSUME TelegramInv, NEW f \in Flows, NextTarget(f)
    PROVE  TelegramInv'
<1> DEFINE fl == flow[f]
<1>1. fl.at = "send" /\ fl.to = NoRef /\ UNCHANGED <<cand, moved>>
  BY DEF NextTarget, FlowAt
<1>2. /\ fl \in FlowRecord /\ fl.sends \subseteq fl.goals
      /\ \A next \in fl.list : StandsFor(next.row, next.ref) /\ next.row \in Rows
                               /\ next.ref \in MaybeRef
  BY Unsent
<1>3. /\ got \in [Flows -> [Chats -> Nat]] /\ lost \subseteq Flows
      /\ SentOnce(fl, got[f], f \in lost)
  BY TelegramTypes DEF TelegramInv
<1>4. cand' \in [Rows -> Row] /\ RowsSeeded' /\ RowsStand
  BY <1>1, RowsRest
<1>5. ASSUME NEW ref \in fl.sends, UNCHANGED <<got, lost>>,
             Flows2(f, [fl EXCEPT !.to = ref, !.sends = @ \ {ref}, !.tries = 1, !.hops = 0])
      PROVE  TelegramInv'
  <2> DEFINE left == fl.sends \ {ref}
             r == [fl EXCEPT !.to = ref, !.sends = left, !.tries = 1, !.hops = 0]
  <2>1. left \in SUBSET Refs /\ ref \in MaybeRef /\ Flows2(f, r) /\ 1 \in 0 .. MaxTries
    BY <1>2, <1>5, TelegramConstants DEF FlowRecord, MaybeRef
  <2>2. ref \in fl.goals /\ fl.goals \ left = (fl.goals \ fl.sends) \cup {ref}
    BY <1>2, <1>5
  <2>3. left \subseteq fl.goals /\ ref \notin fl.goals \ fl.sends
    BY <1>2, <1>5
  <2> HIDE DEF left
  <2>4. /\ r \in FlowRecord /\ r.at = "send" /\ r.sends = left /\ r.goals = fl.goals
        /\ r.to = ref /\ r.list = fl.list
    BY <1>1, <1>2, <2>1 DEF FlowRecord
  <2> HIDE DEF r
  <2>5. SentOnce(r, got[f], f \in lost')
    BY <1>3, <1>5, <2>2, <2>3, <2>4 DEF SentOnce, NamedTwice
  <2>6. \A next \in r.list : StandsFor(next.row, next.ref)'
    BY <1>2, <1>4, <2>4 DEF RowsStand
  <2>7. got[f] \in [Chats -> Nat] /\ got' = [got EXCEPT ![f] = got[f]]
    BY <1>3, <1>5
  <2> QED  BY <1>1, <1>3, <1>4, <1>5, <2>1, <2>4, <2>5, <2>6, <2>7, FlowMoves
<1>6. CASE /\ Flows2(f, [NewFlow EXCEPT !.at = "done"])
           /\ got' = [got EXCEPT ![f] = [c \in Chats |-> 0]] /\ lost' = lost \ {f}
  <2> DEFINE r == [NewFlow EXCEPT !.at = "done"]
             n == [c \in Chats |-> 0]
  <2>1. /\ r \in FlowRecord /\ r.at = "done" /\ r.list = {} /\ r.sends = {} /\ r.goals = {}
        /\ r.to = NoRef
    BY RestingFlow
  <2>2. n \in [Chats -> Nat] /\ \A c \in Chats : n[c] = 0
    OBVIOUS
  <2>3. Flows2(f, r) /\ got' = [got EXCEPT ![f] = n]
    BY <1>6
  <2> HIDE DEF r, n
  <2>4. SentOnce(r, n, f \in lost')
    BY <1>6, <2>1, <2>2 DEF SentOnce
  <2> QED  BY <1>1, <1>3, <1>4, <1>6, <2>1, <2>2, <2>3, <2>4, FlowMoves
<1> QED  BY <1>5, <1>6 DEF NextTarget

\* A step of a send: it may end, its target may change its name, and the chat of
\* the target may have received the message.
LEMMA SendsKeeps ==
    ASSUME TelegramInv, NEW f \in Flows, Sends(f)
    PROVE  TelegramInv'
<1> DEFINE fl == flow[f]
           c == ChatOf[fl.to]
           one == [got[f] EXCEPT ![c] = @ + 1]
           ends == SendEnds(f)
<1>1. fl.at = "send" /\ fl.to # NoRef /\ UNCHANGED <<cand, moved>>
  BY DEF Sends, FlowAt
<1>2. /\ fl \in FlowRecord /\ fl.sends \subseteq fl.goals
      /\ \A next \in fl.list : StandsFor(next.row, next.ref) /\ next.row \in Rows
                               /\ next.ref \in MaybeRef
  BY Unsent
<1>3. /\ got \in [Flows -> [Chats -> Nat]] /\ lost \subseteq Flows
      /\ moved \subseteq DOMAIN MovesTo /\ SentOnce(fl, got[f], f \in lost)
  BY TelegramTypes DEF TelegramInv
<1>4. cand' \in [Rows -> Row] /\ RowsSeeded' /\ RowsStand
  BY <1>1, RowsRest
<1>5. c \in Chats /\ fl.to \in Refs
  BY <1>1, <1>2, TelegramConstants DEF FlowRecord, MaybeRef
<1>6. /\ got[f] \in [Chats -> Nat] /\ one \in [Chats -> Nat]
      /\ one[c] = got[f][c] + 1 /\ \A d \in Chats \ {c} : one[d] = got[f][d]
  BY <1>3, <1>5
<1>7. /\ UNCHANGED got => got' = [got EXCEPT ![f] = got[f]]
      /\ Receives(f) => got' = [got EXCEPT ![f] = one]
  BY <1>3 DEF Receives
<1> HIDE DEF one, c
<1>8. ASSUME NEW r \in FlowRecord, Flows2(f, r), r.at = "send", r.sends = fl.sends,
             r.goals = fl.goals, r.list = fl.list, r.to # NoRef => ChatOf[r.to] = c,
             NEW n \in {got[f], one}, got' = [got EXCEPT ![f] = n],
             \/ lost' = lost \cup {f}
             \/ lost' = lost /\ (n = got[f] \/ r.to = NoRef)
      PROVE  TelegramInv'
  <2>1. n \in [Chats -> Nat] /\ lost' \subseteq Flows
        /\ \A g \in Flows \ {f} : g \in lost' <=> g \in lost
    BY <1>3, <1>6, <1>8
  <2>2. \A next \in r.list : StandsFor(next.row, next.ref)'
    BY <1>2, <1>4, <1>8 DEF RowsStand
  <2>3. \E g \in r.goals \ r.sends : ChatOf[g] = c
    BY <1>1, <1>3, <1>8 DEF SentOnce, c
  <2>4. ASSUME f \in lost'  PROVE SentOnce(r, n, TRUE)
    BY <1>2, <1>8, <2>3, <2>4 DEF SentOnce
  <2>5. ASSUME f \notin lost'  PROVE SentOnce(r, n, FALSE)
    <3>1. f \notin lost /\ (n = got[f] \/ (r.to = NoRef /\ n = one))
      BY <1>8, <2>5
    <3>2. ASSUME NEW d \in Chats
          PROVE  /\ got[f][d] > 0 => \E g \in r.goals \ r.sends : ChatOf[g] = d
                 /\ got[f][d] > 0 /\ d = c => NamedTwice(r, d)
                 /\ got[f][d] > 1 => NamedTwice(r, d)
      BY <1>1, <1>3, <1>8, <3>1 DEF SentOnce, NamedTwice, c
    <3>3. CASE n = got[f]
      BY <1>2, <1>8, <2>3, <3>2, <3>3 DEF SentOnce
    <3>4. CASE r.to = NoRef /\ n = one
      <4>1. ASSUME NEW d \in Chats
            PROVE  /\ n[d] > 0 => \E g \in r.goals \ r.sends : ChatOf[g] = d
                   /\ n[d] > 1 => NamedTwice(r, d)
        <5>1. CASE d = c
          <6>1. n[d] > 1 => got[f][d] > 0
            BY <1>3, <1>5, <1>6, <3>4, <5>1
          <6> QED  BY <2>3, <3>2, <5>1, <6>1
        <5>2. CASE d # c
          BY <1>6, <3>2, <3>4, <5>2
        <5> QED  BY <5>1, <5>2
      <4> QED  BY <1>2, <1>8, <3>4, <4>1 DEF SentOnce
    <3> QED  BY <3>1, <3>3, <3>4
  <2>6. SentOnce(r, n, f \in lost')
    BY <2>4, <2>5 DEF SentOnce
  <2> QED  BY <1>1, <1>4, <1>8, <2>1, <2>2, <2>6, FlowMoves
<1>9. /\ ends \in FlowRecord /\ ends.at = "send" /\ ends.sends = fl.sends
      /\ ends.goals = fl.goals /\ ends.list = fl.list /\ ends.to = NoRef
  <2>1. 0 \in 0 .. MaxTries /\ NoRef \in MaybeRef
    BY TelegramConstants DEF MaybeRef
  <2> QED  BY <1>1, <1>2, <2>1 DEF SendEnds, FlowRecord
<1> HIDE DEF ends
<1>10. CASE Answered(f) /\ UNCHANGED lost
  BY <1>7, <1>8, <1>9, <1>10 DEF Answered, ends
<1>11. CASE Redirected(f) /\ UNCHANGED lost
  <2> DEFINE to == MovesTo[fl.to]
             r == [fl EXCEPT !.to = to, !.tries = 1, !.hops = 1]
  <2>1. /\ to \in MaybeRef /\ 1 \in 0 .. MaxTries /\ ChatOf[to] = c
        /\ Flows2(f, r) \/ Flows2(f, ends)
    BY <1>3, <1>11, TelegramConstants DEF Redirected, MaybeRef, ends, c
  <2> HIDE DEF to
  <2>2. /\ r \in FlowRecord /\ r.at = "send" /\ r.sends = fl.sends
        /\ r.goals = fl.goals /\ r.list = fl.list /\ r.to = to
    BY <1>1, <1>2, <2>1 DEF FlowRecord
  <2>3. UNCHANGED got
    BY <1>11 DEF Redirected
  <2> HIDE DEF r
  <2> QED  BY <1>7, <1>8, <1>9, <1>11, <2>1, <2>2, <2>3
<1>12. CASE Unanswered(f) /\ lost' = lost \cup {f}
  <2> DEFINE k == fl.tries + 1
             r == [fl EXCEPT !.tries = k]
  <2>1. (Again(f) /\ Flows2(f, r)) \/ Flows2(f, ends)
    BY <1>12 DEF Unanswered, ends
  <2>2. Again(f) => k \in 0 .. MaxTries
    BY <1>2, TelegramConstants DEF Again, FlowRecord
  <2> HIDE DEF k
  <2>3. Again(f) => /\ r \in FlowRecord /\ r.at = "send" /\ r.sends = fl.sends
                    /\ r.goals = fl.goals /\ r.list = fl.list /\ r.to = fl.to
    BY <1>1, <1>2, <2>2 DEF FlowRecord
  <2>4. UNCHANGED got \/ Receives(f)
    BY <1>12 DEF Unanswered
  <2>5. ChatOf[fl.to] = c
    BY DEF c
  <2> HIDE DEF r
  <2> QED  BY <1>7, <1>8, <1>9, <1>12, <2>1, <2>3, <2>4, <2>5
<1> QED  BY <1>10, <1>11, <1>12 DEF Sends


LEMMA MoveKeeps == TelegramInv /\ GroupMoves => TelegramInv'
<1> SUFFICES ASSUME TelegramInv, GroupMoves  PROVE TelegramInv'
  OBVIOUS
<1>1. PICK r \in DOMAIN MovesTo \ moved : moved' = moved \cup {r}
  BY DEF GroupMoves
<1>2. UNCHANGED <<cand, flow, got, lost>>
  BY DEF GroupMoves
<1>3. /\ cand \in [Rows -> Row] /\ moved \subseteq DOMAIN MovesTo /\ RowsSeeded
      /\ flow \in [Flows -> FlowRecord]
  BY TelegramTypes DEF TelegramInv
<1>4. ASSUME NEW i \in Rows, NEW ref \in MaybeRef, StandsFor(i, ref)
      PROVE  StandsFor(i, ref)'
  <2>1. \E s \in Seeds : cand[i].seed = {s}
    BY <1>3, <1>4, RowsTyped DEF RowsSeeded, StandsFor
  <2>2. Reference(cand[i]) \in MaybeRef
    BY <1>3, <2>1, ReferenceOf
  <2> DEFINE own == Reference(cand[i])
  <2>3. own \in MaybeRef /\ Now(own) = Now(ref) /\ Reference(cand'[i]) = own
    BY <1>2, <1>4, <2>2 DEF StandsFor
  <2> HIDE DEF own
  <2>4. (IF own \in moved' THEN MovesTo[own] ELSE own)
        = (IF ref \in moved' THEN MovesTo[ref] ELSE ref)
    BY <1>1, <1>3, <2>3, TelegramConstants DEF Now, MaybeRef
  <2> QED  BY <1>2, <1>4, <2>3, <2>4 DEF StandsFor, Now
<1>5. TelegramTypeOK' /\ RowsSeeded'
  BY <1>1, <1>2, <1>3 DEF TelegramInv, TelegramTypeOK, RowsSeeded
<1>6. ASSUME NEW f \in Flows  PROVE ListCurrent(flow[f])'
  <2>1. flow[f].list \subseteq ListEntry
    BY <1>3 DEF FlowRecord
  <2>2. \A next \in ListEntry : next.row \in Rows /\ next.ref \in MaybeRef
    BY DEF ListEntry
  <2>3. ListCurrent(flow[f])
    BY DEF TelegramInv
  <2> QED  BY <1>2, <1>4, <2>1, <2>2, <2>3 DEF ListCurrent
<1>7. \A f \in Flows : SentOnce(flow[f], got[f], f \in lost)'
  BY <1>2 DEF TelegramInv, SentOnce, NamedTwice
<1> QED  BY <1>5, <1>6, <1>7 DEF TelegramInv

\* A step that marks a row and nothing else.
LEMMA RestedKeeps ==
    ASSUME TelegramInv, NEW i \in Rows, Rested(i)
    PROVE  TelegramInv'
<1> DEFINE row == [cand[i] EXCEPT !.rests = FALSE]
<1>1. cand' = [cand EXCEPT ![i] = row] /\ UNCHANGED <<moved, flow, got, lost>>
  BY DEF Rested
<1>2. /\ cand[i] \in Row /\ moved \subseteq DOMAIN MovesTo
      /\ flow \in [Flows -> FlowRecord]
  BY TelegramTypes DEF TelegramInv
<1>3. cand[i].seed # {}
  BY RowsTyped DEF TelegramInv, RowsSeeded, Rested
<1>4. row \in Row /\ row.seed = cand[i].seed /\ row.chat = cand[i].chat
  BY <1>2 DEF Row
<1> HIDE DEF row
<1>5. cand' \in [Rows -> Row] /\ RowsSeeded' /\ RowsStand
  BY <1>1, <1>3, <1>4, RowMarked
<1>6. TelegramTypeOK'
  BY <1>1, <1>5 DEF TelegramInv, TelegramTypeOK
<1>7. ASSUME NEW f \in Flows  PROVE ListCurrent(flow[f])'
  <2>1. flow[f].list \subseteq ListEntry
    BY <1>2 DEF FlowRecord
  <2>2. \A next \in ListEntry : next.row \in Rows /\ next.ref \in MaybeRef
    BY DEF ListEntry
  <2>3. ListCurrent(flow[f])
    BY DEF TelegramInv
  <2> QED  BY <1>1, <1>5, <2>1, <2>2, <2>3 DEF ListCurrent, RowsStand
<1>8. \A f \in Flows : SentOnce(flow[f], got[f], f \in lost)'
  BY <1>1 DEF TelegramInv, SentOnce, NamedTwice
<1> QED  BY <1>5, <1>6, <1>7, <1>8 DEF TelegramInv

LEMMA TelegramKeeps == TelegramInv /\ [TelegramNext]_telegramVars => TelegramInv'
<1> SUFFICES ASSUME TelegramInv, [TelegramNext]_telegramVars  PROVE TelegramInv'
  OBVIOUS
<1>1. CASE UNCHANGED telegramVars
  <2>1. UNCHANGED <<cand, moved, flow, got, lost>>
    BY <1>1 DEF telegramVars
  <2>2. TelegramTypeOK' /\ RowsSeeded'
    BY <2>1 DEF TelegramInv, TelegramTypeOK, RowsSeeded
  <2>3. \A f \in Flows : ListCurrent(flow[f])'
    BY <2>1 DEF TelegramInv, ListCurrent, StandsFor, Now
  <2>4. \A f \in Flows : SentOnce(flow[f], got[f], f \in lost)'
    BY <2>1 DEF TelegramInv, SentOnce, NamedTwice
  <2> QED  BY <2>2, <2>3, <2>4 DEF TelegramInv
<1>2. CASE TelegramNext
  BY <1>2, BeginsKeeps, SyncsKeeps, ReadsKeeps, JoinsKeeps, TargetsKeeps, NextTargetKeeps,
     SendsKeeps, MoveKeeps, RestedKeeps DEF TelegramNext
<1> QED  BY <1>1, <1>2

\* Every call, and every group that moves, keeps the invariant.
THEOREM TelegramInvariant == TelegramSpec => []TelegramInv
BY TelegramStarts, TelegramKeeps, PTL DEF TelegramSpec

\* Rows, calls and counts keep to their types; in particular no send is tried
\* more often than executeWithRetry allows.
THEOREM TelegramTyped == TelegramSpec => []TelegramTypeOK
<1>1. TelegramInv => TelegramTypeOK
  BY DEF TelegramInv
<1> QED  BY <1>1, TelegramInvariant, PTL

LEMMA TwinsBlock == TelegramInv => BlockedOnlyByTwins
BY DEF TelegramInv, ListCurrent, StandsFor, BlockedOnlyByTwins, FlowAt

LEMMA LossRepeats == TelegramInv => TwiceOnlyWhenLost
BY DEF TelegramInv, SentOnce, NamedTwice, TwiceOnlyWhenLost

\* attemptApprovedTelegramJoins: a call throws at a candidate only when another
\* row stands for the same chat by the same reference, whatever other calls
\* and the groups have done since.
THEOREM OnlyTwinsBlock == TelegramSpec => []BlockedOnlyByTwins
BY TwinsBlock, TelegramInvariant, PTL

\* resolveTelegramTargets, TelegramPublisher: a chat gets the message of a call
\* twice only if an answer was lost or two references sent to name the chat.
THEOREM RepeatsExplained == TelegramSpec => []TwiceOnlyWhenLost
BY LossRepeats, TelegramInvariant, PTL

-----------------------------------------------------------------------------
(* The components beside each other.                                       *)

ServicesInv == IngestionInv /\ PipelineInv /\ ManualInv /\ TelegramInv

\* Whichever component a behaviour follows, the invariants of all hold.
THEOREM ServicesInvariant == ServicesSpec => []ServicesInv
<1>1. ServicesInit => ServicesInv
  BY IngestionStarts, InitPipeline, InitHolds, TelegramStarts DEF ServicesInit, ServicesInv
<1>2. ServicesInv /\ [ServicesNext]_servicesVars => ServicesInv'
  <2>1. \/ [IngestionNext]_ingestionVars /\ UNCHANGED <<pipelineVars, manualVars, telegramVars>>
        \/ [PipelineNext]_pipelineVars /\ UNCHANGED <<ingestionVars, manualVars, telegramVars>>
        \/ ManualNext /\ UNCHANGED <<ingestionVars, pipelineVars, telegramVars>>
        \/ [TelegramNext]_telegramVars /\ UNCHANGED <<ingestionVars, pipelineVars, manualVars>>
        => (ServicesInv => ServicesInv')
    BY IngestionKeeps, PipelineStepKeeps, ManualStepKeeps, ManualStutterKeeps, TelegramKeeps
       DEF ServicesInv
  <2>2. [ServicesNext]_servicesVars =>
        \/ [IngestionNext]_ingestionVars /\ UNCHANGED <<pipelineVars, manualVars, telegramVars>>
        \/ [PipelineNext]_pipelineVars /\ UNCHANGED <<ingestionVars, manualVars, telegramVars>>
        \/ ManualNext /\ UNCHANGED <<ingestionVars, pipelineVars, telegramVars>>
        \/ [TelegramNext]_telegramVars /\ UNCHANGED <<ingestionVars, pipelineVars, manualVars>>
    BY DEF ServicesNext, servicesVars
  <2> QED  BY <2>1, <2>2
<1> QED  BY <1>1, <1>2, PTL DEF ServicesSpec

\* Every variable of the component that is followed keeps its type.
THEOREM ServicesTyped == ServicesSpec => []ServicesTypeOK
<1>1. ServicesInv => ServicesTypeOK
  BY DEF ServicesInv, ServicesTypeOK, IngestionInv, PipelineInv, ManualInv, TelegramInv
<1> QED  BY <1>1, ServicesInvariant, PTL
=============================================================================
