--------------------------- MODULE PipelineProofs ---------------------------
(***************************************************************************)
(* Proofs about PipelineRuns, for any runs, connections, signals, windows  *)
(* and limits.                                                             *)
(*                                                                         *)
(* Three arguments are independent of each other: the lock and the runs it *)
(* covers, the trends and what a run knows of them, the drafts and who is  *)
(* to hand them on.  Each has its conjunct of the invariant and a lemma    *)
(* for the steps that do not concern it.                                   *)
(***************************************************************************)
EXTENDS PipelineRuns, FiniteSetTheorems, TLAPS

MaybeBody == {<<>>} \cup (PSymbols \X Bodies)
RunRecord == [at : RunSteps, proc : Processes \cup {0}, now : Nat, seen : SUBSET Signals,
              left : SUBSET Windows, fresh : SUBSET Trends, todo : SUBSET PSymbols,
              body : MaybeBody]

\* The runs at work that are sure of the lock.
Sure == {r \in Runs : AtWork(r) /\ prun[r].proc \notin dropped}

\* They are of the process that holds the lock, which is nested at least as
\* often as there are such runs.
LockCovers ==
    /\ Sure # {} => plock["pipeline"].conn \in PipeConns
    /\ \A r \in Sure : prun[r].proc = Process[plock["pipeline"].conn]
    /\ Cardinality(Sure) <= plock["pipeline"].depth

\* Runs that work at the same time have met.
AllMet == \A r, q \in Runs : AtWork(r) /\ AtWork(q) /\ r # q => {r, q} \in met

\* The evidence of a trend is stored, and lies in its window.
Dated(t) ==
    /\ t.evidence # {} /\ t.evidence \subseteq DOMAIN stored /\ t.end <= clock
    /\ \A g \in t.evidence : t.start <= stored[g] /\ stored[g] <= t.end

Alike(t, u) == t.sym = u.sym /\ t.window = u.window /\ t.evidence = u.evidence

Early == {"queued", "ingest", "read"}
Computing == {"window", "rows"}

\* What a run knows of the trends: those of runs it has not met are older than
\* its reading of the time, and it has none itself for windows it has not done.
Knows(r) ==
    /\ prun[r].at \in Early => \A t \in trends : t.by # r
    /\ prun[r].at \in Computing =>
          /\ prun[r].seen \subseteq DOMAIN stored /\ prun[r].now <= clock
          /\ \A t \in trends : /\ t.by # r => t.end <= prun[r].now \/ {t.by, r} \in met
                               /\ t.by = r => t.window \notin prun[r].left
    /\ prun[r].at = "rows" =>
          /\ \A f \in prun[r].fresh : f.by = r /\ f.window \notin prun[r].left /\ Dated(f)
          /\ \A f \in prun[r].fresh, t \in trends :
                /\ t.by = r => t.window # f.window
                /\ Alike(f, t) => {t.by, r} \in met
          /\ \A f, g \in prun[r].fresh : f.sym = g.sym => f = g

TrendsDated == \A t \in trends : Dated(t)

TrendsAccounted ==
    AllMet /\ TrendsDated /\ (\A r \in Runs : Knows(r)) /\ TrendOncePerEvidence

\* Only an operator approves what the policy has not, and a run that closes
\* has handed on what it wrote.
DraftsAccounted ==
    \A d \in drafts :
        /\ d.approved /\ ~d.asked => d.body \in Clean
        /\ d.body \in Clean /\ ~d.handed => prun[d.by].at \notin {"close", "done"}

\* A run that inserts a draft has a body for it.
BodyReady(x) == x.at = "insert" => x.body \in PSymbols \X Bodies

BodiesReady == \A r \in Runs : BodyReady(prun[r])

PipelineInv ==
    PipelineTypeOK /\ LockCovers /\ TrendsAccounted /\ DraftsAccounted /\ BodiesReady

-----------------------------------------------------------------------------
(* Steps that do not concern one of the arguments.                         *)

LEMMA SureFinite == IsFiniteSet(Sure) /\ Cardinality(Sure) \in Nat
BY PipelineConstants, FS_Subset, FS_CardinalityType DEF Sure

LEMMA SureSmaller ==
    ASSUME Sure' \subseteq Sure
    PROVE  Cardinality(Sure') \in Nat /\ Cardinality(Sure') <= Cardinality(Sure)
BY SureFinite, FS_Subset, FS_CardinalityType

\* No run begins or ends its work, the lock stays as it is.
LEMMA LockKept ==
    ASSUME LockCovers, UNCHANGED <<plock, dropped>>,
           \A q \in Runs : AtWork(q)' = AtWork(q) /\ prun'[q].proc = prun[q].proc
    PROVE  LockCovers'
<1>1. Sure' = Sure
  BY DEF Sure
<1> QED BY <1>1 DEF LockCovers, Sure

\* Time may pass, events and meetings come; only the runs of a set begin to
\* compute trends.
LEMMA TrendsKeptBut ==
    ASSUME TrendsAccounted, NEW but, UNCHANGED trends, met \subseteq met', clock <= clock',
           clock \in Nat, clock' \in Nat, trends \subseteq Trends, prun \in [Runs -> RunRecord],
           DOMAIN stored \subseteq DOMAIN stored',
           \A g \in DOMAIN stored : stored'[g] = stored[g],
           AllMet',
           \A q \in Runs \ but : \/ prun'[q] = prun[q]
                                 \/ prun'[q].at \notin Early \cup Computing
                                 \/ prun[q].at \in Early /\ prun'[q].at \in Early,
           \A q \in Runs \cap but : Knows(q)'
    PROVE  TrendsAccounted'
<1>1. \A t \in Trends : Dated(t) => Dated(t)'
  BY DEF Dated, Trends
<1>2. TrendsDated' /\ TrendOncePerEvidence'
  BY <1>1 DEF TrendsAccounted, TrendsDated, TrendOncePerEvidence
<1>3. ASSUME NEW q \in Runs \ but
      PROVE  Knows(q)'
  <2>1. CASE prun'[q] = prun[q]
    <3>1. Knows(q) /\ prun[q] \in RunRecord
      BY DEF TrendsAccounted
    <3>2. prun[q].fresh \subseteq Trends /\ prun[q].now \in Nat
      BY <3>1 DEF RunRecord
    <3>3. ASSUME prun[q].at \in Computing
          PROVE  /\ prun[q].seen \subseteq DOMAIN stored' /\ prun[q].now <= clock'
                 /\ \A t \in trends' : /\ t.by # q => t.end <= prun[q].now \/ {t.by, q} \in met'
                                       /\ t.by = q => t.window \notin prun[q].left
      <4>1. prun[q].seen \subseteq DOMAIN stored /\ prun[q].now <= clock
        BY <3>1, <3>3 DEF Knows
      <4>2. prun[q].now <= clock'
        BY <3>2, <4>1
      <4>3. \A t \in trends' : /\ t.by # q => t.end <= prun[q].now \/ {t.by, q} \in met'
                               /\ t.by = q => t.window \notin prun[q].left
        BY <3>1, <3>3 DEF Knows
      <4> QED BY <4>1, <4>2, <4>3
    <3>4. ASSUME prun[q].at = "rows", NEW f \in prun[q].fresh
          PROVE  f.by = q /\ f.window \notin prun[q].left /\ Dated(f)'
      <4>1. Dated(f) /\ f.by = q /\ f.window \notin prun[q].left
        BY <3>1, <3>4 DEF Knows
      <4>2. f \in Trends
        BY <3>2
      <4> QED BY <1>1, <4>1, <4>2
    <3>5. prun[q].at = "rows" =>
              /\ \A f \in prun[q].fresh, t \in trends' :
                    /\ t.by = q => t.window # f.window
                    /\ Alike(f, t) => {t.by, q} \in met'
              /\ \A f, g \in prun[q].fresh : f.sym = g.sym => f = g
      BY <3>1 DEF Knows
    <3>6. prun[q].at \in Early => \A t \in trends' : t.by # q
      BY <3>1 DEF Knows
    <3> QED BY <2>1, <3>3, <3>4, <3>5, <3>6 DEF Knows, Alike
  <2>2. CASE prun'[q].at \notin Early \cup Computing
    BY <2>2 DEF Knows, Computing
  <2>3. CASE prun[q].at \in Early /\ prun'[q].at \in Early
    <3>1. Knows(q)
      BY DEF TrendsAccounted
    <3>2. \A t \in trends' : t.by # q
      BY <2>3, <3>1 DEF Knows
    <3>3. prun'[q].at \notin Computing
      BY <2>3 DEF Computing, Early
    <3> QED BY <3>2, <3>3 DEF Knows, Computing
  <2> QED BY <2>1, <2>2, <2>3
<1> QED BY <1>2, <1>3 DEF TrendsAccounted

LEMMA TrendsKept ==
    ASSUME TrendsAccounted, UNCHANGED trends, met \subseteq met', clock <= clock',
           clock \in Nat, clock' \in Nat, trends \subseteq Trends, prun \in [Runs -> RunRecord],
           DOMAIN stored \subseteq DOMAIN stored',
           \A g \in DOMAIN stored : stored'[g] = stored[g],
           AllMet',
           \A q \in Runs : \/ prun'[q] = prun[q]
                           \/ prun'[q].at \notin Early \cup Computing
                           \/ prun[q].at \in Early /\ prun'[q].at \in Early
    PROVE  TrendsAccounted'
<1> DEFINE none == {}
<1>1. Runs \ none = Runs /\ Runs \cap none = {}
  OBVIOUS
<1> HIDE DEF none
<1> QED BY <1>1, TrendsKeptBut

\* No run that works meets another one.
LEMMA MetKept ==
    ASSUME AllMet, met \subseteq met', \A q \in Runs : AtWork(q)' => AtWork(q)
    PROVE  AllMet'
BY DEF AllMet

\* No run closes.
LEMMA DraftsKept ==
    ASSUME DraftsAccounted, UNCHANGED drafts,
           drafts \subseteq [body : Bodies, approved : BOOLEAN, handed : BOOLEAN, by : Runs,
                             asked : BOOLEAN],
           \A q \in Runs : prun'[q].at \in {"close", "done"} => prun[q].at \in {"close", "done"}
    PROVE  DraftsAccounted'
BY DEF DraftsAccounted

\* The types, one by one.
LEMMA PipelineTypesApart ==
    PipelineTypeOK <=>
        /\ prun \in [Runs -> RunRecord] /\ plock \in PL!LockTables /\ clock \in 0 .. MaxTime
        /\ DOMAIN stored \subseteq Signals /\ \A g \in DOMAIN stored : stored[g] \in -1 .. clock
        /\ trends \subseteq Trends
        /\ drafts \subseteq [body : Bodies, approved : BOOLEAN, handed : BOOLEAN, by : Runs,
                             asked : BOOLEAN]
        /\ met \subseteq SUBSET Runs /\ crashes \subseteq Processes
        /\ dropped \subseteq Processes
BY DEF PipelineTypeOK, RunRecord, MaybeBody

LEMMA TypesKept ==
    ASSUME PipelineTypeOK, prun' \in [Runs -> RunRecord],
           UNCHANGED <<plock, clock, stored, trends, drafts, met, crashes, dropped>>
    PROVE  PipelineTypeOK'
BY DEF PipelineTypeOK, RunRecord, MaybeBody

-----------------------------------------------------------------------------
\* A run that goes on to a step, and keeps what it knows.
LEMMA GotoRecord ==
    ASSUME PipelineTypeOK, NEW r \in Runs, NEW step \in RunSteps, Goto(r, step)
    PROVE  /\ prun' \in [Runs -> RunRecord] /\ prun'[r].at = step
           /\ prun'[r].proc = prun[r].proc
           /\ \A q \in Runs \ {r} : prun'[q] = prun[q]
<1>1. prun \in [Runs -> RunRecord] /\ prun[r] \in RunRecord
  BY PipelineTypesApart
<1>2. /\ [prun[r] EXCEPT !.at = step] \in RunRecord
      /\ [prun[r] EXCEPT !.at = step].at = step
      /\ [prun[r] EXCEPT !.at = step].proc = prun[r].proc
  BY <1>1 DEF RunRecord
<1>3. prun' = [prun EXCEPT ![r] = [prun[r] EXCEPT !.at = step]]
  BY DEF Goto
<1> QED BY <1>1, <1>2, <1>3

LEMMA TickKeeps ==
    ASSUME PipelineInv, Tick
    PROVE  PipelineInv'
<1>1. PipelineTypeOK'
  BY PipelineConstants DEF PipelineInv, PipelineTypeOK, Tick
<1>2. UNCHANGED <<prun, plock, stored, trends, drafts, met, crashes, dropped>>
      /\ clock \in Nat /\ clock' = clock + 1
  BY PipelineConstants DEF Tick, PipelineInv, PipelineTypeOK
<1>3. LockCovers' /\ DraftsAccounted' /\ BodiesReady'
  BY <1>2, LockKept, DraftsKept DEF PipelineInv, PipelineTypeOK, AtWork, BodiesReady
<1>4. AllMet'
  BY <1>2 DEF PipelineInv, TrendsAccounted, AllMet, AtWork
<1>5. TrendsAccounted'
  BY <1>2, <1>4, TrendsKept, PipelineTypesApart DEF PipelineInv
<1> QED BY <1>1, <1>3, <1>5 DEF PipelineInv

\* The steps of a run between its lock and its release.
Idle == {"queued", "done", "failed", "lost"}

LEMMA WorksOn ==
    ASSUME PipelineInv, NEW r \in Runs, NEW x \in RunRecord, prun' = [prun EXCEPT ![r] = x],
           prun[r].at \notin Idle, x.at \notin Idle, x.proc = prun[r].proc, BodyReady(x),
           UNCHANGED <<plock, dropped>>
    PROVE  /\ LockCovers' /\ BodiesReady' /\ prun' \in [Runs -> RunRecord]
           /\ UNCHANGED met => AllMet'
           /\ x.at # "close" /\ UNCHANGED drafts => DraftsAccounted'
<1>1. prun \in [Runs -> RunRecord] /\ prun' \in [Runs -> RunRecord]
  BY PipelineTypesApart DEF PipelineInv
<1>2. prun'[r] = x /\ \A q \in Runs \ {r} : prun'[q] = prun[q]
  BY <1>1
<1>3. \A q \in Runs : AtWork(q)' = AtWork(q) /\ prun'[q].proc = prun[q].proc
  BY <1>2 DEF AtWork, Idle
<1>4. LockCovers' /\ (UNCHANGED met => AllMet')
  BY <1>3, LockKept, MetKept DEF PipelineInv, TrendsAccounted
<1>5. x.at # "close" /\ UNCHANGED drafts => DraftsAccounted'
  BY <1>2, DraftsKept, PipelineTypesApart DEF PipelineInv, Idle
<1>6. BodiesReady'
  BY <1>2 DEF PipelineInv, BodiesReady, BodyReady
<1> QED BY <1>1, <1>4, <1>5, <1>6

\* The same, for a run that computes no trends.
LEMMA WorksBeside ==
    ASSUME PipelineInv, NEW r \in Runs, NEW x \in RunRecord, prun' = [prun EXCEPT ![r] = x],
           prun[r].at \notin Idle, x.at \notin Idle \cup Early \cup Computing,
           x.proc = prun[r].proc, BodyReady(x),
           UNCHANGED <<plock, clock, stored, trends, met, crashes, dropped>>
    PROVE  /\ LockCovers' /\ TrendsAccounted' /\ BodiesReady' /\ prun' \in [Runs -> RunRecord]
           /\ x.at # "close" /\ UNCHANGED drafts => PipelineInv'
<1>1. LockCovers' /\ BodiesReady' /\ prun' \in [Runs -> RunRecord] /\ AllMet'
      /\ (x.at # "close" /\ UNCHANGED drafts => DraftsAccounted')
  BY WorksOn
<1>2. \A q \in Runs : prun'[q] = prun[q] \/ prun'[q].at \notin Early \cup Computing
  BY <1>1, PipelineTypesApart DEF PipelineInv
<1>3. clock \in Nat /\ clock' \in Nat /\ clock <= clock'
  BY PipelineConstants, PipelineTypesApart DEF PipelineInv
<1>4. TrendsAccounted'
  BY <1>1, <1>2, <1>3, TrendsKept, PipelineTypesApart DEF PipelineInv
<1>5. UNCHANGED drafts => PipelineTypeOK'
  BY <1>1, TypesKept DEF PipelineInv
<1> QED BY <1>1, <1>4, <1>5 DEF PipelineInv

LEMMA ThrowsKeeps ==
    ASSUME PipelineInv, NEW r \in Runs, Throws(r)
    PROVE  PipelineInv'
<1> DEFINE x == [prun[r] EXCEPT !.at = "release"]
<1>1. prun[r] \in RunRecord
  BY PipelineTypesApart DEF PipelineInv
<1>2. x \in RunRecord /\ x.at = "release" /\ x.proc = prun[r].proc
  BY <1>1 DEF RunRecord, RunSteps
<1>3. prun[r].at \notin Idle /\ prun' = [prun EXCEPT ![r] = x]
      /\ UNCHANGED <<plock, clock, stored, trends, drafts, met, crashes, dropped>>
  BY DEF Throws, Goto, RunAt, Idle
<1> QED BY <1>2, <1>3, WorksBeside DEF Idle, Early, Computing, BodyReady

LEMMA WritesKeeps ==
    ASSUME PipelineInv, NEW r \in Runs, Writes(r)
    PROVE  PipelineInv'
<1>1. prun[r] \in RunRecord
  BY PipelineTypesApart DEF PipelineInv
<1>2. prun[r].at = "draft"
      /\ UNCHANGED <<plock, clock, stored, trends, drafts, met, crashes, dropped>>
  BY DEF Writes, RunAt
<1>3. ASSUME NEW x \in RunRecord, x.at \in {"draft", "insert", "schedule"},
             x.proc = prun[r].proc, BodyReady(x), prun' = [prun EXCEPT ![r] = x]
      PROVE  PipelineInv'
  BY <1>2, <1>3, WorksBeside DEF Idle, Early, Computing
<1>4. CASE prun[r].todo = {}
  <2> DEFINE x == [prun[r] EXCEPT !.at = "schedule"]
  <2>1. x \in RunRecord /\ x.at = "schedule" /\ x.proc = prun[r].proc
    BY <1>1 DEF RunRecord, RunSteps
  <2>2. prun' = [prun EXCEPT ![r] = x]
    BY <1>4 DEF Writes, Goto
  <2> QED BY <1>3, <2>1, <2>2 DEF BodyReady
<1>5. ASSUME NEW s \in prun[r].todo, NEW b \in Bodies,
             prun' = [prun EXCEPT ![r].at = "insert", ![r].body = <<s, b>>]
      PROVE  PipelineInv'
  <2> DEFINE x == [prun[r] EXCEPT !.at = "insert", !.body = <<s, b>>]
  <2>1. <<s, b>> \in MaybeBody /\ <<s, b>> \in PSymbols \X Bodies
    BY <1>1 DEF MaybeBody, RunRecord
  <2>2. x \in RunRecord /\ x.at = "insert" /\ x.proc = prun[r].proc /\ x.body = <<s, b>>
    BY <1>1, <2>1 DEF RunRecord, RunSteps
  <2>3. prun' = [prun EXCEPT ![r] = x]
    BY <1>5
  <2> QED BY <1>3, <2>1, <2>2, <2>3 DEF BodyReady
<1>6. ASSUME NEW s \in prun[r].todo, prun' = [prun EXCEPT ![r].todo = @ \ {s}]
      PROVE  PipelineInv'
  <2> DEFINE x == [prun[r] EXCEPT !.todo = @ \ {s}]
  <2>1. x \in RunRecord /\ x.at = "draft" /\ x.proc = prun[r].proc
    BY <1>1, <1>2 DEF RunRecord
  <2>2. prun' = [prun EXCEPT ![r] = x]
    BY <1>6
  <2> QED BY <1>3, <2>1, <2>2 DEF BodyReady
<1> QED BY <1>4, <1>5, <1>6 DEF Writes

Draft == [body : Bodies, approved : BOOLEAN, handed : BOOLEAN, by : Runs, asked : BOOLEAN]

\* A draft takes the place of another one, or comes in addition.
LEMMA DraftTypes ==
    ASSUME PipelineTypeOK, prun' \in [Runs -> RunRecord], NEW d \in Draft, NEW old,
           drafts' = (drafts \ old) \cup {d},
           UNCHANGED <<plock, clock, stored, trends, met, crashes, dropped>>
    PROVE  PipelineTypeOK'
BY DEF PipelineTypeOK, RunRecord, MaybeBody, Draft

LEMMA InsertsKeeps ==
    ASSUME PipelineInv, NEW r \in Runs, Inserts(r)
    PROVE  PipelineInv'
<1> DEFINE s == prun[r].body[1]
           b == prun[r].body[2]
<1>1. prun[r] \in RunRecord /\ drafts \subseteq Draft /\ DraftsAccounted
  BY PipelineTypesApart DEF PipelineInv, Draft
<1>2. prun[r].at = "insert" /\ UNCHANGED <<plock, clock, stored, trends, met, crashes, dropped>>
  BY DEF Inserts, RunAt
<1>3. CASE Taken(b)
  <2> DEFINE x == [prun[r] EXCEPT !.at = "release"]
  <2>1. x \in RunRecord /\ x.at = "release" /\ x.proc = prun[r].proc
    BY <1>1 DEF RunRecord, RunSteps
  <2>2. prun' = [prun EXCEPT ![r] = x] /\ UNCHANGED drafts
    BY <1>3 DEF Inserts, Goto
  <2> QED BY <1>2, <2>1, <2>2, WorksBeside DEF Idle, Early, Computing, BodyReady
<1>4. CASE ~Taken(b)
  <2> DEFINE x == [prun[r] EXCEPT !.at = "draft", !.todo = @ \ {s}, !.body = <<>>]
             d == [body |-> b, approved |-> b \in Clean, handed |-> FALSE, by |-> r,
                   asked |-> FALSE]
  <2>1. <<>> \in MaybeBody
    BY DEF MaybeBody
  <2>2. x \in RunRecord /\ x.at = "draft" /\ x.proc = prun[r].proc
    BY <1>1, <2>1 DEF RunRecord, RunSteps
  <2>3. drafts' = drafts \cup {d}
    BY <1>4 DEF Inserts
  <2>5. prun' = [prun EXCEPT ![r] = x]
    BY <1>4 DEF Inserts
  <2>6. prun[r].body \in PSymbols \X Bodies
    BY <1>2 DEF PipelineInv, BodiesReady, BodyReady
  <2>7. d \in Draft
    BY <2>6 DEF Draft
  <2>8. LockCovers' /\ TrendsAccounted' /\ BodiesReady' /\ prun' \in [Runs -> RunRecord]
    BY <1>2, <2>2, <2>5, WorksBeside DEF Idle, Early, Computing, BodyReady
  <2>9. PipelineTypeOK'
    BY <1>2, <2>3, <2>7, <2>8, DraftTypes DEF PipelineInv
  <2>10. \A q \in Runs : q # r => prun'[q] = prun[q]
    BY <2>5, PipelineTypesApart DEF PipelineInv
  <2>11. prun'[r].at = "draft"
    BY <2>2, <2>5, PipelineTypesApart DEF PipelineInv
  <2>12. d.approved => d.body \in Clean
    BY DEF Draft
  <2>13. d.by = r
    OBVIOUS
  <2> HIDE DEF d, x
  <2>14. DraftsAccounted'
    BY <1>1, <2>3, <2>10, <2>11, <2>12, <2>13 DEF DraftsAccounted, Draft
  <2> QED BY <2>8, <2>9, <2>14 DEF PipelineInv
<1> QED BY <1>3, <1>4

LEMMA SchedulesKeeps ==
    ASSUME PipelineInv, NEW r \in Runs, Schedules(r)
    PROVE  PipelineInv'
<1>1. prun[r] \in RunRecord /\ drafts \subseteq Draft /\ DraftsAccounted
      /\ prun \in [Runs -> RunRecord]
  BY PipelineTypesApart DEF PipelineInv, Draft
<1>2. prun[r].at = "schedule" /\ UNCHANGED <<plock, clock, stored, trends, met, crashes, dropped>>
  BY DEF Schedules, RunAt
<1>3. ASSUME NEW x \in RunRecord, x.at \notin Idle \cup Early \cup Computing, BodyReady(x),
             x.proc = prun[r].proc, prun' = [prun EXCEPT ![r] = x]
      PROVE  /\ LockCovers' /\ TrendsAccounted' /\ BodiesReady' /\ prun' \in [Runs -> RunRecord]
             /\ x.at # "close" /\ UNCHANGED drafts => PipelineInv'
  BY <1>2, <1>3, WorksBeside DEF Idle, Early, Computing
<1>4. ASSUME NEW d \in drafts, Pending(r, d),
             drafts' = (drafts \ {d}) \cup {[d EXCEPT !.handed = TRUE]}, UNCHANGED prun
      PROVE  PipelineInv'
  <2>1. d \in Draft /\ [d EXCEPT !.handed = TRUE] \in Draft
    BY <1>1 DEF Draft
  <2>2. PipelineTypeOK'
    BY <1>1, <1>2, <1>4, <2>1, DraftTypes DEF PipelineInv
  <2>3. LockCovers' /\ TrendsAccounted' /\ BodiesReady'
    <3>1. prun' = [prun EXCEPT ![r] = prun[r]] /\ BodyReady(prun[r])
      BY <1>1, <1>2, <1>4 DEF BodyReady
    <3> QED BY <1>1, <1>2, <1>3, <3>1 DEF Idle, Early, Computing
  <2>4. DraftsAccounted'
    BY <1>1, <1>4, <2>1 DEF DraftsAccounted, Draft
  <2> QED BY <2>2, <2>3, <2>4 DEF PipelineInv
<1>5. ASSUME ~(\E d \in drafts : Pending(r, d)), Goto(r, "close"), UNCHANGED drafts
      PROVE  PipelineInv'
  <2> DEFINE x == [prun[r] EXCEPT !.at = "close"]
  <2>1. x \in RunRecord /\ x.at = "close" /\ x.proc = prun[r].proc
    BY <1>1 DEF RunRecord, RunSteps
  <2>2. prun' = [prun EXCEPT ![r] = x]
    BY <1>5 DEF Goto
  <2>3. LockCovers' /\ TrendsAccounted' /\ BodiesReady' /\ prun' \in [Runs -> RunRecord]
    BY <1>3, <2>1, <2>2 DEF Idle, Early, Computing, BodyReady
  <2>4. PipelineTypeOK'
    BY <1>2, <1>5, <2>3, TypesKept DEF PipelineInv
  <2>5. \A q \in Runs : q # r => prun'[q] = prun[q]
    BY <1>1, <2>2
  <2>6. \A d \in drafts : d.body \in Clean /\ ~d.handed => d.by # r /\ d.by \in Runs
    BY <1>1, <1>5 DEF Pending, Draft
  <2>7. DraftsAccounted'
    BY <1>1, <1>5, <2>5, <2>6 DEF DraftsAccounted, Draft
  <2> QED BY <2>3, <2>4, <2>7 DEF PipelineInv
<1>6. ASSUME Goto(r, "release"), UNCHANGED drafts
      PROVE  PipelineInv'
  <2> DEFINE x == [prun[r] EXCEPT !.at = "release"]
  <2>1. x \in RunRecord /\ x.at = "release" /\ x.proc = prun[r].proc
    BY <1>1 DEF RunRecord, RunSteps
  <2>2. prun' = [prun EXCEPT ![r] = x]
    BY <1>6 DEF Goto
  <2> QED BY <1>3, <1>6, <2>1, <2>2 DEF Idle, Early, Computing, BodyReady
<1> QED BY <1>4, <1>5, <1>6 DEF Schedules

LEMMA OperatorKeeps ==
    ASSUME PipelineInv, NEW d \in drafts, Approves(d) \/ HandsApproved(d)
    PROVE  PipelineInv'
<1>1. drafts \subseteq Draft /\ DraftsAccounted /\ prun \in [Runs -> RunRecord]
  BY PipelineTypesApart DEF PipelineInv, Draft
<1>2. UNCHANGED <<prun, plock, clock, stored, trends, met, crashes, dropped>>
  BY DEF Approves, HandsApproved
<1>3. PICK e \in Draft : /\ drafts' = (drafts \ {d}) \cup {e}
                         /\ e.by = d.by /\ e.body = d.body
                         /\ (e.asked \/ (e.approved = d.approved /\ e.asked = d.asked))
                         /\ (d.handed => e.handed)
  <2>1. d \in Draft /\ [d EXCEPT !.approved = TRUE, !.asked = TRUE] \in Draft
        /\ [d EXCEPT !.handed = TRUE] \in Draft
    BY <1>1 DEF Draft
  <2>2. CASE Approves(d)
    BY <2>1, <2>2 DEF Approves, Draft
  <2>3. CASE HandsApproved(d)
    BY <2>1, <2>3 DEF HandsApproved, Draft
  <2> QED BY <2>2, <2>3
<1>4. PipelineTypeOK'
  BY <1>1, <1>2, <1>3, DraftTypes DEF PipelineInv
<1>5. LockCovers' /\ BodiesReady'
  BY <1>2, LockKept DEF PipelineInv, AtWork, BodiesReady
<1>6. AllMet'
  BY <1>2 DEF PipelineInv, TrendsAccounted, AllMet, AtWork
<1>7. clock \in Nat
  BY PipelineConstants, PipelineTypesApart DEF PipelineInv
<1>8. TrendsAccounted'
  BY <1>2, <1>6, <1>7, TrendsKept, PipelineTypesApart DEF PipelineInv
<1>9. DraftsAccounted'
  BY <1>1, <1>2, <1>3 DEF DraftsAccounted, Draft
<1> QED BY <1>4, <1>5, <1>8, <1>9 DEF PipelineInv

-----------------------------------------------------------------------------
(* The lock is taken, released and lost.                                   *)

LEMMA LockTypes ==
    ASSUME PipelineTypeOK, prun' \in [Runs -> RunRecord], plock' \in PL!LockTables,
           met' \subseteq SUBSET Runs, crashes' \subseteq Processes, dropped' \subseteq Processes,
           UNCHANGED <<clock, stored, trends, drafts>>
    PROVE  PipelineTypeOK'
BY DEF PipelineTypeOK, RunRecord, MaybeBody

\* Where no run computes anything new, the lock is all that is left to show.
LEMMA LockStep ==
    ASSUME PipelineInv, prun' \in [Runs -> RunRecord], plock' \in PL!LockTables,
           met' \subseteq SUBSET Runs, crashes' \subseteq Processes, dropped' \subseteq Processes,
           UNCHANGED <<clock, stored, trends, drafts>>, met \subseteq met',
           LockCovers', AllMet',
           \A q \in Runs : \/ prun'[q] = prun[q]
                           \/ /\ prun'[q].at \notin Early \cup Computing
                              /\ prun'[q].at \in {"failed", "lost"}
                                   \/ (prun'[q].at = "done" /\ prun[q].at = "close")
                           \/ prun[q].at \in Early /\ prun'[q].at \in Early
    PROVE  PipelineInv'
<1>1. PipelineTypeOK'
  BY LockTypes DEF PipelineInv
<1>2. clock \in Nat /\ clock' \in Nat /\ clock <= clock'
  BY PipelineConstants, PipelineTypesApart DEF PipelineInv
<1>3. TrendsAccounted'
  BY <1>2, TrendsKept, PipelineTypesApart DEF PipelineInv
<1>4. DraftsAccounted'
  BY DraftsKept, PipelineTypesApart DEF PipelineInv, Early
<1>5. BodiesReady'
  BY DEF PipelineInv, BodiesReady, BodyReady, Early
<1> QED BY <1>1, <1>3, <1>4, <1>5 DEF PipelineInv

LEMMA PipelineTable ==
    ASSUME plock \in PL!LockTables
    PROVE  /\ plock["pipeline"] \in [conn : PipeConns \cup {NoPipeConn}, depth : Nat]
           /\ plock["pipeline"].conn \in PipeConns \cup {NoPipeConn}
           /\ plock["pipeline"].depth \in Nat
BY DEF PL!LockTables

LEMMA TakesKeeps ==
    ASSUME PipelineInv, NEW r \in Runs, NEW k \in PipeConns, Takes(r, k)
    PROVE  PipelineInv'
<1>1. prun[r] \in RunRecord /\ prun \in [Runs -> RunRecord] /\ plock \in PL!LockTables
      /\ met \subseteq SUBSET Runs /\ crashes \subseteq Processes /\ dropped \subseteq Processes
  BY PipelineTypesApart DEF PipelineInv
<1>2. prun[r].at = "queued" /\ UNCHANGED <<clock, stored, trends, drafts, crashes, dropped>>
      /\ LockCovers /\ AllMet
  BY DEF Takes, RunAt, PipelineInv, TrendsAccounted
<1>3. CASE PL!Granted(plock, "pipeline", k)
  <2> DEFINE x == [prun[r] EXCEPT !.at = "ingest", !.proc = Process[k]]
  <2>1. x \in RunRecord /\ x.at = "ingest" /\ x.proc = Process[k]
    BY <1>1, PipelineConstants DEF RunRecord, RunSteps, Processes
  <2>2. prun' = [prun EXCEPT ![r] = x]
    BY <1>3 DEF Takes
  <2>3. prun' \in [Runs -> RunRecord] /\ prun'[r] = x /\ \A q \in Runs \ {r} : prun'[q] = prun[q]
    BY <1>1, <2>1, <2>2
  <2>4. plock' = [plock EXCEPT !["pipeline"] = [conn |-> k, depth |-> plock["pipeline"].depth + 1]]
        /\ met' = met \cup {{r, q} : q \in {y \in Runs : AtWork(y)}}
    BY <1>3 DEF Takes, PL!Locked
  <2>5. plock["pipeline"].conn \in {NoPipeConn, k} /\ plock["pipeline"].depth \in Nat
    BY <1>1, <1>3, PipelineTable DEF PL!Granted
  <2>6. plock' \in PL!LockTables /\ plock'["pipeline"].conn = k
        /\ plock'["pipeline"].depth = plock["pipeline"].depth + 1
    BY <1>1, <2>4, <2>5 DEF PL!LockTables
  <2>7. AllMet' /\ met' \subseteq SUBSET Runs
    <3>1. met' \subseteq SUBSET Runs
      BY <1>1, <2>4
    <3>2. \A q \in Runs \ {r} : AtWork(q)' = AtWork(q)
      BY <2>3 DEF AtWork
    <3>3. ASSUME NEW p \in Runs, NEW q \in Runs, AtWork(p)', AtWork(q)', p # q
          PROVE  {p, q} \in met'
      <4>1. CASE p = r
        BY <2>4, <3>2, <3>3, <4>1
      <4>2. CASE q = r
        <5>1. {p, q} = {r, p} /\ AtWork(p)
          BY <3>2, <3>3, <4>2
        <5> QED BY <2>4, <5>1
      <4>3. CASE p # r /\ q # r
        BY <1>2, <2>4, <3>2, <3>3, <4>3 DEF AllMet
      <4> QED BY <4>1, <4>2, <4>3
    <3> QED BY <3>1, <3>3 DEF AllMet
  <2>8. Sure # {} => plock["pipeline"].conn = k
    BY <1>2, <2>5, PipelineConstants DEF LockCovers
  <2>9. CASE Process[k] \in dropped
    <3>1. Sure = {}
      BY <1>2, <2>8, <2>9 DEF LockCovers, Sure
    <3>2. Sure' = {}
      BY <1>2, <2>1, <2>3, <2>9, <3>1 DEF Sure, AtWork
    <3>3. Cardinality(Sure') = 0
      BY <3>2, FS_EmptySet
    <3>4. LockCovers'
      BY <2>5, <2>6, <3>2, <3>3 DEF LockCovers
    <3> HIDE DEF x
    <3> QED BY <1>1, <1>2, <2>1, <2>3, <2>4, <2>6, <2>7, <3>4, LockStep DEF Early
  <2>10. CASE Process[k] \notin dropped
    <3>1. Sure' = Sure \cup {r} /\ r \notin Sure
      BY <1>2, <2>1, <2>3, <2>10 DEF Sure, AtWork
    <3>2. Cardinality(Sure') = Cardinality(Sure) + 1
      BY <3>1, SureFinite, FS_AddElement
    <3>3. \A q \in Sure' : prun'[q].proc = Process[k]
      BY <1>2, <2>1, <2>3, <2>8, <3>1 DEF LockCovers, Sure
    <3>4. LockCovers'
      BY <1>2, <2>5, <2>6, <3>2, <3>3, SureFinite DEF LockCovers
    <3> HIDE DEF x
    <3> QED BY <1>1, <1>2, <2>1, <2>3, <2>4, <2>6, <2>7, <3>4, LockStep DEF Early
  <2> QED BY <2>9, <2>10
<1>4. CASE ~PL!Granted(plock, "pipeline", k)
  <2>1. Goto(r, "failed") /\ UNCHANGED <<plock, met>>
    BY <1>4 DEF Takes
  <2>2. prun' \in [Runs -> RunRecord] /\ prun'[r].at = "failed"
        /\ \A q \in Runs \ {r} : prun'[q] = prun[q]
    BY <2>1, GotoRecord DEF PipelineInv, RunSteps
  <2>3. \A q \in Runs : AtWork(q)' = AtWork(q) /\ (AtWork(q) => prun'[q].proc = prun[q].proc)
    BY <1>2, <2>2 DEF AtWork
  <2>4. Sure' = Sure /\ \A q \in Sure : prun'[q].proc = prun[q].proc
    BY <1>2, <2>3 DEF Sure
  <2>5. LockCovers' /\ AllMet'
    BY <1>2, <2>1, <2>3, <2>4, MetKept DEF LockCovers
  <2>6. \A q \in Runs : \/ prun'[q] = prun[q]
                        \/ /\ prun'[q].at \notin Early \cup Computing
                           /\ prun'[q].at \in {"failed", "lost"}
                                \/ (prun'[q].at = "done" /\ prun[q].at = "close")
                        \/ prun[q].at \in Early /\ prun'[q].at \in Early
    BY <2>2 DEF Early, Computing
  <2>7. plock' \in PL!LockTables /\ met' \subseteq SUBSET Runs /\ crashes' \subseteq Processes
        /\ dropped' \subseteq Processes /\ met \subseteq met'
    BY <1>1, <1>2, <2>1
  <2>8. UNCHANGED <<clock, stored, trends, drafts>>
    BY <1>2
  <2> QED BY <2>2, <2>5, <2>6, <2>7, <2>8, LockStep
<1> QED BY <1>3, <1>4

LEMMA ReleasesKeeps ==
    ASSUME PipelineInv, NEW r \in Runs, NEW k \in PipeConns, Releases(r, k)
    PROVE  PipelineInv'
<1> DEFINE x == [Unstarted EXCEPT !.at = IF RunAt(r, "close") THEN "done" ELSE "failed",
                                  !.proc = Process[k]]
           c == plock["pipeline"].conn
           n == plock["pipeline"].depth
<1>1. prun[r] \in RunRecord /\ prun \in [Runs -> RunRecord] /\ plock \in PL!LockTables
      /\ met \subseteq SUBSET Runs /\ crashes \subseteq Processes /\ dropped \subseteq Processes
  BY PipelineTypesApart DEF PipelineInv
<1>2. /\ prun[r].at \in {"release", "close"} /\ prun[r].proc = Process[k]
      /\ UNCHANGED <<clock, stored, trends, drafts, met, crashes, dropped>>
      /\ LockCovers /\ AllMet
  BY DEF Releases, RunAt, PipelineInv, TrendsAccounted
<1>3. x \in RunRecord /\ x.at = IF prun[r].at = "close" THEN "done" ELSE "failed"
  BY PipelineConstants DEF RunRecord, RunSteps, Unstarted, MaybeBody, Processes, RunAt
<1>4. prun' = [prun EXCEPT ![r] = x]
  BY DEF Releases
<1>5. prun' \in [Runs -> RunRecord] /\ prun'[r] = x /\ \A q \in Runs \ {r} : prun'[q] = prun[q]
  BY <1>1, <1>3, <1>4
<1> HIDE DEF x
<1>6. \A q \in Runs : AtWork(q)' <=> AtWork(q) /\ q # r
  BY <1>3, <1>5 DEF AtWork
<1>7. Sure' = Sure \ {r} /\ \A q \in Sure' : prun'[q].proc = prun[q].proc
  BY <1>2, <1>5, <1>6 DEF Sure
<1>8. c \in PipeConns \cup {NoPipeConn} /\ n \in Nat
      /\ plock["pipeline"] \in [conn : PipeConns \cup {NoPipeConn}, depth : Nat]
  BY <1>1, PipelineTable
<1>9. Cardinality(Sure) \in Nat /\ Cardinality(Sure') \in Nat
      /\ Cardinality(Sure') <= Cardinality(Sure)
  BY <1>7, SureFinite, SureSmaller
<1>10. AllMet'
  BY <1>2, <1>6, MetKept
<1>11. r \in Sure => Cardinality(Sure') = Cardinality(Sure) - 1
  BY <1>7, SureFinite, FS_RemoveElement
<1>12. c = k /\ r \notin Sure => Sure = {}
  BY <1>2 DEF LockCovers, Sure, AtWork
<1>13. plock' \in PL!LockTables /\ LockCovers'
  <2>1. CASE c # k
    <3>1. plock' = plock
      BY <2>1 DEF Releases, PL!Unlocked
    <3> QED BY <1>1, <1>2, <1>7, <1>8, <1>9, <3>1 DEF LockCovers
  <2>2. CASE c = k /\ n > 1
    <3>1. plock' = [plock EXCEPT !["pipeline"] = [conn |-> k, depth |-> n - 1]]
      BY <2>2 DEF Releases, PL!Unlocked
    <3>2. plock' \in PL!LockTables /\ plock'["pipeline"].conn = k
          /\ plock'["pipeline"].depth = n - 1
      BY <1>1, <1>8, <2>2, <3>1 DEF PL!LockTables
    <3>3. Cardinality(Sure') <= n - 1
      <4>1. CASE r \in Sure
        BY <1>2, <1>8, <1>9, <1>11, <4>1 DEF LockCovers
      <4>2. CASE r \notin Sure
        <5>1. Sure' = {}
          BY <1>7, <1>12, <2>2, <4>2
        <5> QED BY <1>8, <2>2, <5>1, FS_EmptySet
      <4> QED BY <4>1, <4>2
    <3> QED BY <1>2, <1>7, <2>2, <3>2, <3>3 DEF LockCovers
  <2>3. CASE c = k /\ ~(n > 1)
    <3>1. plock' = [plock EXCEPT !["pipeline"] = PL!Free]
      BY <2>3 DEF Releases, PL!Unlocked
    <3>2. plock' \in PL!LockTables /\ plock'["pipeline"].depth = 0
      BY <1>1, <3>1 DEF PL!LockTables, PL!Free
    <3>3. Cardinality(Sure') = 0
      <4>1. CASE r \in Sure
        BY <1>2, <1>8, <1>9, <1>11, <2>3, <4>1 DEF LockCovers
      <4>2. CASE r \notin Sure
        <5>1. Sure' = {}
          BY <1>7, <1>12, <2>3, <4>2
        <5> QED BY <5>1, FS_EmptySet
      <4> QED BY <4>1, <4>2
    <3>4. Sure' = {}
      BY <1>7, <3>3, SureFinite, FS_Subset, FS_EmptySet
    <3> QED BY <3>2, <3>3, <3>4 DEF LockCovers
  <2> QED BY <2>1, <2>2, <2>3
<1>14. \A q \in Runs : \/ prun'[q] = prun[q]
                       \/ /\ prun'[q].at \notin Early \cup Computing
                          /\ prun'[q].at \in {"failed", "lost"}
                               \/ (prun'[q].at = "done" /\ prun[q].at = "close")
                       \/ prun[q].at \in Early /\ prun'[q].at \in Early
  BY <1>3, <1>5 DEF Early, Computing
<1> QED BY <1>1, <1>2, <1>5, <1>10, <1>13, <1>14, LockStep

\* What ends with a process, or breaks with a connection, covers no run.
LEMMA CrashesKeeps ==
    ASSUME PipelineInv, NEW p \in Processes, Crashes(p)
    PROVE  PipelineInv'
<1> DEFINE C == {k \in PipeConns : Process[k] = p}
           x == [Unstarted EXCEPT !.at = "lost", !.proc = p]
           c == plock["pipeline"].conn
<1>1. prun \in [Runs -> RunRecord] /\ plock \in PL!LockTables
      /\ met \subseteq SUBSET Runs /\ crashes \subseteq Processes /\ dropped \subseteq Processes
      /\ plock["pipeline"] \in [conn : PipeConns \cup {NoPipeConn}, depth : Nat]
  BY PipelineTypesApart, PipelineTable DEF PipelineInv
<1>2. /\ UNCHANGED <<clock, stored, trends, drafts, met, dropped>> /\ crashes' = {p}
      /\ LockCovers /\ AllMet
  BY DEF Crashes, PipelineInv, TrendsAccounted
<1>3. x \in RunRecord /\ x.at = "lost"
  BY PipelineConstants DEF RunRecord, RunSteps, Unstarted, MaybeBody
<1>4. prun' = [q \in Runs |-> IF AtWork(q) /\ prun[q].proc = p THEN x ELSE prun[q]]
  BY DEF Crashes
<1> HIDE DEF x
<1>5. prun' \in [Runs -> RunRecord]
      /\ \A q \in Runs : prun'[q] = IF AtWork(q) /\ prun[q].proc = p THEN x ELSE prun[q]
  BY <1>1, <1>3, <1>4
<1>6. \A q \in Runs : AtWork(q)' <=> AtWork(q) /\ prun[q].proc # p
  BY <1>3, <1>5 DEF AtWork
<1>7. Sure' = {q \in Sure : prun[q].proc # p} /\ \A q \in Sure' : prun'[q].proc = prun[q].proc
  BY <1>2, <1>5, <1>6 DEF Sure
<1>8. plock' = [key \in {"pipeline"} |-> IF plock[key].conn \in C THEN PL!Free ELSE plock[key]]
  BY DEF Crashes, PL!Closed
<1>9. plock' \in PL!LockTables
      /\ plock'["pipeline"] = IF c \in C THEN PL!Free ELSE plock["pipeline"]
  BY <1>1, <1>8 DEF PL!LockTables, PL!Free
<1>10. AllMet'
  BY <1>2, <1>6, MetKept
<1>11. LockCovers'
  <2>1. CASE c \in C
    <3>1. Sure' = {}
      BY <1>2, <1>7, <2>1 DEF LockCovers
    <3>2. plock'["pipeline"].depth = 0
      BY <1>9, <2>1 DEF PL!Free
    <3> QED BY <3>1, <3>2, FS_EmptySet DEF LockCovers
  <2>2. CASE c \notin C
    <3>1. Cardinality(Sure') <= Cardinality(Sure) /\ Cardinality(Sure') \in Nat
      BY <1>7, SureSmaller
    <3> QED BY <1>1, <1>2, <1>7, <1>9, <2>2, <3>1, SureFinite DEF LockCovers
  <2> QED BY <2>1, <2>2
<1>12. \A q \in Runs : \/ prun'[q] = prun[q]
                       \/ /\ prun'[q].at \notin Early \cup Computing
                          /\ prun'[q].at \in {"failed", "lost"}
                               \/ (prun'[q].at = "done" /\ prun[q].at = "close")
                       \/ prun[q].at \in Early /\ prun'[q].at \in Early
  BY <1>3, <1>5 DEF Early, Computing
<1>13. crashes' \subseteq Processes
  BY <1>2
<1> QED BY <1>1, <1>2, <1>5, <1>9, <1>10, <1>11, <1>12, <1>13, LockStep

LEMMA DropsKeeps ==
    ASSUME PipelineInv, NEW k \in PipeConns, Drops(k)
    PROVE  PipelineInv'
<1>1. prun \in [Runs -> RunRecord] /\ plock \in PL!LockTables
      /\ met \subseteq SUBSET Runs /\ crashes \subseteq Processes /\ dropped \subseteq Processes
  BY PipelineTypesApart DEF PipelineInv
<1>2. /\ UNCHANGED <<prun, clock, stored, trends, drafts, met, crashes>>
      /\ plock["pipeline"].conn = k /\ dropped = {} /\ dropped' = {Process[k]}
      /\ LockCovers /\ AllMet
  BY DEF Drops, PipelineInv, TrendsAccounted
<1>3. plock' = [key \in {"pipeline"} |-> IF plock[key].conn \in {k} THEN PL!Free ELSE plock[key]]
  BY DEF Drops, PL!Closed
<1>4. plock' \in PL!LockTables /\ plock'["pipeline"].depth = 0
  BY <1>1, <1>2, <1>3 DEF PL!LockTables, PL!Free
<1>5. Sure' = {}
  BY <1>2 DEF LockCovers, Sure, AtWork
<1>6. LockCovers'
  BY <1>4, <1>5, FS_EmptySet DEF LockCovers
<1>7. AllMet'
  BY <1>2, MetKept DEF AtWork
<1>8. dropped' \subseteq Processes
  BY <1>2 DEF Processes
<1> QED BY <1>1, <1>2, <1>4, <1>6, <1>7, <1>8, LockStep

-----------------------------------------------------------------------------
(* The trends.                                                             *)

LEMMA IngestsKeeps ==
    ASSUME PipelineInv, NEW r \in Runs, Ingests(r)
    PROVE  PipelineInv'
<1>1. prun[r] \in RunRecord /\ prun \in [Runs -> RunRecord] /\ DOMAIN stored \subseteq Signals
      /\ clock \in 0 .. MaxTime /\ trends \subseteq Trends
      /\ \A g \in DOMAIN stored : stored[g] \in -1 .. clock
  BY PipelineTypesApart DEF PipelineInv
<1>2. prun[r].at = "ingest" /\ UNCHANGED <<plock, clock, trends, drafts, met, crashes, dropped>>
  BY DEF Ingests, RunAt
<1>3. PICK new \in SUBSET (Signals \ DOMAIN stored), ago \in {0, 1}, step \in {"read", "release"} :
          /\ stored' = [g \in DOMAIN stored \cup new |->
                           IF g \in new THEN clock - ago ELSE stored[g]]
          /\ Goto(r, step)
  BY DEF Ingests
<1> DEFINE x == [prun[r] EXCEPT !.at = step]
<1>4. x \in RunRecord /\ x.at = step /\ x.proc = prun[r].proc
  BY <1>1 DEF RunRecord, RunSteps
<1>5. prun' = [prun EXCEPT ![r] = x]
  BY <1>3 DEF Goto
<1>6. /\ DOMAIN stored' \subseteq Signals /\ DOMAIN stored \subseteq DOMAIN stored'
      /\ \A g \in DOMAIN stored : stored'[g] = stored[g]
      /\ \A g \in DOMAIN stored' : stored'[g] \in -1 .. clock
  BY <1>1, <1>3, PipelineConstants
<1> HIDE DEF x
<1>7. LockCovers' /\ BodiesReady' /\ prun' \in [Runs -> RunRecord] /\ AllMet' /\ DraftsAccounted'
  BY <1>2, <1>4, <1>5, WorksOn DEF Idle, BodyReady
<1>8. PipelineTypeOK'
  BY <1>2, <1>6, <1>7 DEF PipelineInv, PipelineTypeOK, RunRecord, MaybeBody
<1>9. \A q \in Runs : \/ prun'[q] = prun[q]
                      \/ prun'[q].at \notin Early \cup Computing
                      \/ prun[q].at \in Early /\ prun'[q].at \in Early
  BY <1>1, <1>2, <1>4, <1>5 DEF Early, Computing
<1>10. clock \in Nat /\ clock' \in Nat /\ clock <= clock'
  BY <1>1, <1>2, PipelineConstants
<1>11. TrendsAccounted'
  BY <1>1, <1>2, <1>6, <1>7, <1>9, <1>10, TrendsKept DEF PipelineInv
<1> QED BY <1>7, <1>8, <1>11 DEF PipelineInv

LEMMA ReadsEventsKeeps ==
    ASSUME PipelineInv, NEW r \in Runs, ReadsEvents(r)
    PROVE  PipelineInv'
<1> DEFINE x == [prun[r] EXCEPT !.at = "window", !.now = clock, !.left = Windows,
                                !.seen = DOMAIN stored]
<1>1. prun[r] \in RunRecord /\ prun \in [Runs -> RunRecord] /\ DOMAIN stored \subseteq Signals
      /\ clock \in 0 .. MaxTime /\ trends \subseteq Trends /\ TrendsAccounted
  BY PipelineTypesApart DEF PipelineInv
<1>2. prun[r].at = "read"
      /\ UNCHANGED <<plock, clock, stored, trends, drafts, met, crashes, dropped>>
  BY DEF ReadsEvents, RunAt
<1>3. clock \in Nat
  BY <1>1, PipelineConstants
<1>4. x \in RunRecord
  BY <1>1, <1>3 DEF RunRecord, RunSteps
<1>5. x.at = "window" /\ x.proc = prun[r].proc /\ x.now = clock /\ x.seen = DOMAIN stored
  BY <1>1 DEF RunRecord
<1>6. prun' = [prun EXCEPT ![r] = x]
  BY DEF ReadsEvents
<1> HIDE DEF x
<1>7. LockCovers' /\ BodiesReady' /\ prun' \in [Runs -> RunRecord] /\ AllMet' /\ DraftsAccounted'
  BY <1>2, <1>4, <1>5, <1>6, WorksOn DEF Idle, BodyReady
<1>8. PipelineTypeOK'
  BY <1>2, <1>7, TypesKept DEF PipelineInv
<1>9. prun'[r] = x /\ \A q \in Runs \ {r} : prun'[q] = prun[q]
  BY <1>1, <1>6
<1>10. Knows(r)'
  <2>1. Knows(r) /\ TrendsDated
    BY <1>1 DEF TrendsAccounted
  <2>2. \A t \in trends : t.by # r /\ t.end <= clock
    BY <1>2, <2>1 DEF Knows, TrendsDated, Dated, Early
  <2>3. x.at \notin Early /\ x.at # "rows"
    BY <1>5 DEF Early
  <2>4. x.seen \subseteq DOMAIN stored' /\ x.now <= clock'
    BY <1>2, <1>3, <1>5
  <2>5. \A t \in trends' : t.by # r /\ t.end <= x.now
    BY <1>2, <1>5, <2>2
  <2> QED BY <1>9, <2>3, <2>4, <2>5 DEF Knows
<1>11. TrendsAccounted'
  <2> DEFINE only == {r}
  <2>1. \A q \in Runs \ only : prun'[q] = prun[q]
    BY <1>9
  <2>2. \A q \in Runs \cap only : Knows(q)'
    BY <1>10
  <2> HIDE DEF only
  <2> QED BY <1>1, <1>2, <1>3, <1>7, <2>1, <2>2, TrendsKeptBut
<1> QED BY <1>7, <1>8, <1>11 DEF PipelineInv

\* What a window brings that no row has yet.
Fresh(r, w, top) ==
    {[sym |-> s, window |-> w, start |-> Start(r, w), end |-> prun[r].now, by |-> r,
      evidence |-> Evidence(r, w, s)] : s \in {y \in top : ~Known(r, w, y)}}

LEMMA FreshTrends ==
    ASSUME PipelineInv, NEW r \in Runs, RunAt(r, "window"), NEW w \in prun[r].left,
           NEW top, top \in Top(r, w)
    PROVE  \A f \in Fresh(r, w, top) :
               /\ f \in Trends /\ f.by = r /\ f.window = w /\ Dated(f)
               /\ \A t \in trends : /\ t.by = r => t.window # w
                                    /\ Alike(f, t) => {t.by, r} \in met
               /\ \A g \in Fresh(r, w, top) : f.sym = g.sym => f = g
<1>1. prun[r] \in RunRecord /\ DOMAIN stored \subseteq Signals /\ clock \in 0 .. MaxTime
      /\ trends \subseteq Trends /\ Knows(r) /\ TrendsDated
      /\ \A g \in DOMAIN stored : stored[g] \in -1 .. clock
  BY PipelineTypesApart DEF PipelineInv, TrendsAccounted
<1>2. prun[r].now \in Nat /\ w \in Windows /\ w \in Nat /\ Start(r, w) \in Int
      /\ prun[r].seen \subseteq Signals
  <2>1. prun[r].now \in Nat /\ prun[r].left \subseteq Windows /\ prun[r].seen \subseteq Signals
    BY <1>1 DEF RunRecord
  <2>2. w \in Nat /\ w \in Windows
    BY <2>1, PipelineConstants
  <2>3. Start(r, w) \in Int
    BY <2>1, <2>2 DEF Start
  <2> QED BY <2>1, <2>2, <2>3
<1>3. prun[r].seen \subseteq DOMAIN stored /\ prun[r].now <= clock
  BY <1>1 DEF Knows, RunAt, Computing
<1>4. \A t \in trends : /\ t.by # r => t.end <= prun[r].now \/ {t.by, r} \in met
                        /\ t.by = r => t.window # w
  BY <1>1 DEF Knows, RunAt, Computing
<1>5. ASSUME NEW s \in top
      PROVE  /\ Evidence(r, w, s) # {} /\ Evidence(r, w, s) \subseteq prun[r].seen
             /\ s \in PSymbols
             /\ \A g \in Evidence(r, w, s) : Start(r, w) <= stored[g] /\ stored[g] <= prun[r].now
  <2>1. s \in PSymbols /\ Cardinality(Evidence(r, w, s)) >= MinEvents
    BY DEF Top, Trending
  <2>2. Evidence(r, w, s) # {}
    <3>1. Cardinality({}) = 0 /\ MinEvents \in Nat /\ MinEvents # 0
      BY PipelineConstants, FS_EmptySet
    <3>2. ~(0 >= MinEvents)
      BY <3>1
    <3> QED BY <2>1, <3>1, <3>2
  <2>3. \A g \in Evidence(r, w, s) : g \in prun[r].seen /\ stored[g] \in Int
                                     /\ stored[g] >= Start(r, w) /\ stored[g] <= prun[r].now
    BY <1>1, <1>3 DEF Evidence
  <2> QED BY <1>2, <2>1, <2>2, <2>3
<1>6. ASSUME NEW s \in top, ~Known(r, w, s), NEW t \in trends,
             t.sym = s, t.window = w, t.evidence = Evidence(r, w, s)
      PROVE  {t.by, r} \in met
  <2>1. PICK g \in Evidence(r, w, s) : TRUE
    BY <1>5
  <2>2. t \in Trends /\ t.end \in Nat /\ stored[g] <= t.end /\ g \in DOMAIN stored
    BY <1>1, <1>3, <1>5, <1>6, <2>1 DEF TrendsDated, Dated, Trends
  <2>3. Start(r, w) <= stored[g] /\ stored[g] \in Int
    BY <1>1, <1>5, <2>1, <2>2
  <2>4. t.end >= Start(r, w)
    BY <1>2, <2>2, <2>3
  <2>5. ~(t.end <= prun[r].now)
    BY <1>6, <2>4 DEF Known
  <2> QED BY <1>4, <1>6, <2>5
<1>7. ASSUME NEW s \in top, ~Known(r, w, s),
             NEW f, f = [sym |-> s, window |-> w, start |-> Start(r, w), end |-> prun[r].now,
                         by |-> r, evidence |-> Evidence(r, w, s)]
      PROVE  /\ f \in Trends /\ f.by = r /\ f.window = w /\ f.sym = s /\ Dated(f)
             /\ \A t \in trends : /\ t.by = r => t.window # w
                                  /\ Alike(f, t) => {t.by, r} \in met
  <2>1. Evidence(r, w, s) \in SUBSET Signals /\ s \in PSymbols
    BY <1>2, <1>5
  <2>2. f \in Trends
    BY <1>2, <1>7, <2>1 DEF Trends
  <2>3. f.by = r /\ f.window = w /\ f.sym = s /\ f.evidence = Evidence(r, w, s)
        /\ f.start = Start(r, w) /\ f.end = prun[r].now
    BY <1>7
  <2>4. Dated(f)
    BY <1>3, <1>5, <2>3 DEF Dated
  <2>5. \A t \in trends : Alike(f, t) => {t.by, r} \in met
    BY <1>6, <1>7, <2>3 DEF Alike
  <2> QED BY <1>4, <2>2, <2>3, <2>4, <2>5
<1>8. ASSUME NEW f \in Fresh(r, w, top)
      PROVE  \E s \in top : /\ ~Known(r, w, s)
                            /\ f = [sym |-> s, window |-> w, start |-> Start(r, w),
                                    end |-> prun[r].now, by |-> r,
                                    evidence |-> Evidence(r, w, s)]
  BY DEF Fresh
<1>9. ASSUME NEW f \in Fresh(r, w, top), NEW g \in Fresh(r, w, top), f.sym = g.sym
      PROVE  f = g
  <2>1. PICK s \in top : f = [sym |-> s, window |-> w, start |-> Start(r, w),
                              end |-> prun[r].now, by |-> r, evidence |-> Evidence(r, w, s)]
    BY <1>8
  <2>2. PICK y \in top : g = [sym |-> y, window |-> w, start |-> Start(r, w),
                              end |-> prun[r].now, by |-> r, evidence |-> Evidence(r, w, y)]
    BY <1>8
  <2>3. s = y
    <3>1. f.sym = s
      BY <2>1
    <3>2. g.sym = y
      BY <2>2
    <3> QED BY <1>9, <3>1, <3>2
  <2> QED BY <2>1, <2>2, <2>3
<1> QED BY <1>7, <1>8, <1>9

LEMMA ComparesWindowKeeps ==
    ASSUME PipelineInv, NEW r \in Runs, ComparesWindow(r)
    PROVE  PipelineInv'
<1>1. prun[r] \in RunRecord /\ prun \in [Runs -> RunRecord] /\ clock \in 0 .. MaxTime
      /\ trends \subseteq Trends /\ TrendsAccounted
  BY PipelineTypesApart DEF PipelineInv
<1>2. prun[r].at = "window"
      /\ UNCHANGED <<plock, clock, stored, trends, drafts, met, crashes, dropped>>
  BY DEF ComparesWindow, RunAt
<1>3. CASE prun[r].left = {}
  <2> DEFINE x == [prun[r] EXCEPT !.at = "draft", !.seen = {}, !.fresh = {}]
  <2>1. x \in RunRecord /\ x.at = "draft" /\ x.proc = prun[r].proc
    BY <1>1 DEF RunRecord, RunSteps
  <2>2. prun' = [prun EXCEPT ![r] = x]
    BY <1>3 DEF ComparesWindow
  <2> QED BY <1>2, <2>1, <2>2, WorksBeside DEF Idle, Early, Computing, BodyReady
<1>4. CASE prun[r].left # {}
  <2>1. PICK w \in prun[r].left, top \in SUBSET PSymbols :
            /\ top \in Top(r, w)
            /\ prun' = [prun EXCEPT ![r].at = "rows", ![r].left = @ \ {w},
                                    ![r].fresh = Fresh(r, w, top)]
    BY <1>4 DEF ComparesWindow, Fresh
  <2> DEFINE x == [prun[r] EXCEPT !.at = "rows", !.left = @ \ {w}, !.fresh = Fresh(r, w, top)]
  <2>2. \A f \in Fresh(r, w, top) :
            /\ f \in Trends /\ f.by = r /\ f.window = w /\ Dated(f)
            /\ \A t \in trends : /\ t.by = r => t.window # w
                                 /\ Alike(f, t) => {t.by, r} \in met
            /\ \A g \in Fresh(r, w, top) : f.sym = g.sym => f = g
    BY <1>2, <2>1, FreshTrends DEF RunAt
  <2>3. Fresh(r, w, top) \in SUBSET Trends
    BY <2>2
  <2>4. x \in RunRecord
    BY <1>1, <2>3 DEF RunRecord, RunSteps
  <2>5. x.at = "rows" /\ x.proc = prun[r].proc /\ x.now = prun[r].now /\ x.seen = prun[r].seen
        /\ x.left = prun[r].left \ {w} /\ x.fresh = Fresh(r, w, top)
    BY <1>1 DEF RunRecord
  <2>6. prun' = [prun EXCEPT ![r] = x]
    BY <2>1
  <2> HIDE DEF x
  <2>7. LockCovers' /\ BodiesReady' /\ prun' \in [Runs -> RunRecord] /\ AllMet'
        /\ DraftsAccounted'
    BY <1>2, <2>4, <2>5, <2>6, WorksOn DEF Idle, BodyReady
  <2>8. PipelineTypeOK'
    BY <1>2, <2>7, TypesKept DEF PipelineInv
  <2>9. prun'[r] = x /\ \A q \in Runs \ {r} : prun'[q] = prun[q]
    BY <1>1, <2>6
  <2>10. Knows(r)'
    <3>1. Knows(r) /\ "window" \in Computing /\ "rows" \in Computing /\ "rows" \notin Early
      BY <1>1 DEF TrendsAccounted, Computing, Early
    <3>2. /\ x.seen \subseteq DOMAIN stored /\ x.now <= clock
          /\ \A t \in trends : /\ t.by # r => t.end <= x.now \/ {t.by, r} \in met
                               /\ t.by = r => t.window \notin x.left
      BY <1>2, <2>5, <3>1 DEF Knows
    <3>3. \A f \in x.fresh : f.by = r /\ f.window \notin x.left /\ Dated(f)'
      BY <1>2, <2>2, <2>5 DEF Dated
    <3>4. /\ \A f \in x.fresh, t \in trends : /\ t.by = r => t.window # f.window
                                              /\ Alike(f, t) => {t.by, r} \in met
          /\ \A f, g \in x.fresh : f.sym = g.sym => f = g
      BY <2>2, <2>5
    <3> QED BY <1>2, <2>5, <2>9, <3>1, <3>2, <3>3, <3>4 DEF Knows, Alike
  <2>11. TrendsAccounted'
    <3> DEFINE only == {r}
    <3>1. \A q \in Runs \ only : prun'[q] = prun[q]
      BY <2>9
    <3>2. \A q \in Runs \cap only : Knows(q)'
      BY <2>10
    <3>3. clock \in Nat
      BY <1>1, PipelineConstants
    <3> HIDE DEF only
    <3> QED BY <1>1, <1>2, <2>7, <3>1, <3>2, <3>3, TrendsKeptBut
  <2> QED BY <2>7, <2>8, <2>11 DEF PipelineInv
<1> QED BY <1>3, <1>4

LEMMA WritesRowsKeeps ==
    ASSUME PipelineInv, NEW r \in Runs, WritesRows(r)
    PROVE  PipelineInv'
<1>1. prun[r] \in RunRecord /\ prun \in [Runs -> RunRecord] /\ trends \subseteq Trends
      /\ TrendsAccounted /\ Knows(r)
  BY PipelineTypesApart DEF PipelineInv, TrendsAccounted
<1>2. prun[r].at = "rows" /\ UNCHANGED <<plock, clock, stored, drafts, met, crashes, dropped>>
  BY DEF WritesRows, RunAt
<1>3. PICK written \in SUBSET prun[r].fresh :
          /\ trends' = trends \cup written
          /\ \/ prun' = [prun EXCEPT ![r].at = "window",
                                     ![r].todo = @ \cup {t.sym : t \in written}]
             \/ Goto(r, "release")
  BY DEF WritesRows
<1>4. /\ \A f \in written : /\ f \in Trends /\ f.by = r /\ f.window \notin prun[r].left /\ Dated(f)
                            /\ \A t \in trends : Alike(f, t) => {t.by, r} \in met
                            /\ \A g \in written : f.sym = g.sym => f = g
  BY <1>1, <1>2, <1>3 DEF Knows, RunRecord
<1>5. PICK x \in RunRecord :
          /\ prun' = [prun EXCEPT ![r] = x] /\ x.at \in {"window", "release"}
          /\ x.proc = prun[r].proc /\ x.now = prun[r].now /\ x.seen = prun[r].seen
          /\ x.left = prun[r].left
  <2>1. CASE prun' = [prun EXCEPT ![r].at = "window",
                                  ![r].todo = @ \cup {t.sym : t \in written}]
    <3> DEFINE y == [prun[r] EXCEPT !.at = "window", !.todo = @ \cup {t.sym : t \in written}]
    <3>1. {t.sym : t \in written} \subseteq PSymbols
      BY <1>4 DEF Trends
    <3>2. y \in RunRecord
      BY <1>1, <3>1 DEF RunRecord, RunSteps
    <3>3. y.at = "window" /\ y.proc = prun[r].proc /\ y.now = prun[r].now /\ y.seen = prun[r].seen
          /\ y.left = prun[r].left
      BY <1>1 DEF RunRecord
    <3>4. prun' = [prun EXCEPT ![r] = y]
      BY <2>1
    <3> HIDE DEF y
    <3> QED BY <3>2, <3>3, <3>4
  <2>2. CASE Goto(r, "release")
    <3> DEFINE y == [prun[r] EXCEPT !.at = "release"]
    <3>1. y \in RunRecord
      BY <1>1 DEF RunRecord, RunSteps
    <3>2. y.at = "release" /\ y.proc = prun[r].proc /\ y.now = prun[r].now /\ y.seen = prun[r].seen
          /\ y.left = prun[r].left
      BY <1>1 DEF RunRecord
    <3>3. prun' = [prun EXCEPT ![r] = y]
      BY <2>2 DEF Goto
    <3> HIDE DEF y
    <3> QED BY <3>1, <3>2, <3>3
  <2> QED BY <1>3, <2>1, <2>2
<1>6. LockCovers' /\ BodiesReady' /\ prun' \in [Runs -> RunRecord] /\ AllMet' /\ DraftsAccounted'
  BY <1>2, <1>5, WorksOn DEF Idle, BodyReady
<1>7. PipelineTypeOK'
  <2>1. trends' \subseteq Trends
    BY <1>1, <1>3, <1>4
  <2> QED BY <1>2, <1>6, <2>1 DEF PipelineInv, PipelineTypeOK, RunRecord, MaybeBody
<1>8. prun'[r] = x /\ \A q \in Runs \ {r} : prun'[q] = prun[q]
  BY <1>1, <1>5
<1>9. TrendsDated'
  BY <1>1, <1>2, <1>3, <1>4 DEF TrendsAccounted, TrendsDated, Dated
<1>10. TrendOncePerEvidence'
  <2> SUFFICES ASSUME NEW t \in trends', NEW u \in trends', t # u, Alike(t, u)
               PROVE  {t.by, u.by} \in met
    BY <1>2 DEF TrendOncePerEvidence, Alike
  <2>1. CASE t \in trends /\ u \in trends
    BY <1>1, <2>1 DEF TrendsAccounted, TrendOncePerEvidence, Alike
  <2>2. CASE t \in written /\ u \in written
    BY <1>4, <2>2 DEF Alike
  <2>3. CASE t \in written /\ u \in trends
    <3>1. {u.by, r} \in met /\ t.by = r
      BY <1>4, <2>3
    <3>2. {t.by, u.by} = {u.by, r}
      BY <3>1
    <3> QED BY <3>1, <3>2
  <2>4. CASE t \in trends /\ u \in written
    <3>1. Alike(u, t)
      BY DEF Alike
    <3>2. {t.by, r} \in met /\ u.by = r
      BY <1>4, <2>4, <3>1
    <3> QED BY <3>2
  <2> QED BY <1>3, <2>1, <2>2, <2>3, <2>4
<1>11. Knows(r)'
  <2>1. x.at \notin Early /\ x.at # "rows" /\ "rows" \in Computing
    BY <1>5 DEF Early, Computing
  <2>2. x.seen \subseteq DOMAIN stored' /\ x.now <= clock'
    BY <1>1, <1>2, <1>5, <2>1 DEF Knows
  <2>3. \A t \in trends' : /\ t.by # r => t.end <= x.now \/ {t.by, r} \in met'
                           /\ t.by = r => t.window \notin x.left
    <3>1. \A t \in trends : /\ t.by # r => t.end <= x.now \/ {t.by, r} \in met
                            /\ t.by = r => t.window \notin x.left
      BY <1>1, <1>2, <1>5, <2>1 DEF Knows
    <3>2. \A t \in written : t.by = r /\ t.window \notin x.left
      BY <1>4, <1>5
    <3> QED BY <1>2, <1>3, <3>1, <3>2
  <2> QED BY <1>8, <2>1, <2>2, <2>3 DEF Knows
<1>12. ASSUME NEW q \in Runs \ {r}
       PROVE  Knows(q)'
  <2>1. Knows(q) /\ prun'[q] = prun[q] /\ prun[q] \in RunRecord
    BY <1>1, <1>8 DEF TrendsAccounted
  <2>2. \A t \in written : t.by = r /\ t.by # q
    BY <1>4
  <2>3. prun[q].at \in Computing => {r, q} \in met
    BY <1>1, <1>2 DEF TrendsAccounted, AllMet, AtWork, Computing
  <2>4. prun[q].at \in Early => \A t \in trends' : t.by # q
    BY <1>3, <2>1, <2>2 DEF Knows
  <2>5. ASSUME prun[q].at \in Computing
        PROVE  /\ prun[q].seen \subseteq DOMAIN stored' /\ prun[q].now <= clock'
               /\ \A t \in trends' : /\ t.by # q => t.end <= prun[q].now \/ {t.by, q} \in met'
                                     /\ t.by = q => t.window \notin prun[q].left
    <3>1. prun[q].seen \subseteq DOMAIN stored' /\ prun[q].now <= clock'
      BY <1>2, <2>1, <2>5 DEF Knows
    <3>2. \A t \in trends : /\ t.by # q => t.end <= prun[q].now \/ {t.by, q} \in met
                            /\ t.by = q => t.window \notin prun[q].left
      BY <2>1, <2>5 DEF Knows
    <3>3. \A t \in written : {t.by, q} \in met
      BY <2>2, <2>3, <2>5
    <3> QED BY <1>2, <1>3, <2>2, <3>1, <3>2, <3>3
  <2>6. ASSUME prun[q].at = "rows"
        PROVE  /\ \A f \in prun[q].fresh : f.by = q /\ f.window \notin prun[q].left /\ Dated(f)'
               /\ \A f, g \in prun[q].fresh : f.sym = g.sym => f = g
    BY <1>2, <2>1, <2>6 DEF Knows, Dated
  <2>7. ASSUME prun[q].at = "rows", NEW f \in prun[q].fresh, NEW t \in trends'
        PROVE  /\ t.by = q => t.window # f.window
               /\ Alike(f, t) => {t.by, q} \in met'
    <3>1. CASE t \in trends
      BY <1>2, <2>1, <2>7, <3>1 DEF Knows
    <3>2. CASE t \in written
      <4>1. {r, q} \in met
        BY <2>3, <2>7 DEF Computing
      <4> QED BY <1>2, <2>2, <3>2, <4>1
    <3> QED BY <1>3, <3>1, <3>2
  <2> QED BY <2>1, <2>4, <2>5, <2>6, <2>7 DEF Knows, Alike
<1>13. TrendsAccounted'
  BY <1>6, <1>9, <1>10, <1>11, <1>12 DEF TrendsAccounted
<1> QED BY <1>6, <1>7, <1>13 DEF PipelineInv

-----------------------------------------------------------------------------
LEMMA InitPipeline == PipelineInit => PipelineInv
<1> SUFFICES ASSUME PipelineInit
             PROVE  PipelineInv
  OBVIOUS
<1>1. Unstarted \in RunRecord /\ Unstarted.at = "queued"
  BY DEF Unstarted, RunRecord, RunSteps, MaybeBody
<1>2. prun \in [Runs -> RunRecord] /\ \A r \in Runs : prun[r].at = "queued"
  BY <1>1 DEF PipelineInit
<1>3. plock \in PL!LockTables /\ plock["pipeline"].depth = 0
  BY DEF PipelineInit, PL!LockTables, PL!Free
<1>4. clock \in 0 .. MaxTime /\ DOMAIN stored = {}
  BY PipelineConstants DEF PipelineInit
<1>5. PipelineTypeOK
  BY <1>2, <1>3, <1>4, PipelineTypesApart DEF PipelineInit
<1>6. Sure = {} /\ AllMet
  BY <1>2 DEF Sure, AllMet, AtWork
<1>7. LockCovers
  BY <1>3, <1>6, FS_EmptySet DEF LockCovers
<1>8. TrendsAccounted
  BY <1>2, <1>6 DEF TrendsAccounted, TrendsDated, TrendOncePerEvidence, Knows, Early, Computing,
                    PipelineInit
<1>9. DraftsAccounted /\ BodiesReady
  BY <1>2 DEF PipelineInit, DraftsAccounted, BodiesReady, BodyReady
<1> QED BY <1>5, <1>7, <1>8, <1>9 DEF PipelineInv

LEMMA PipelineStutterKeeps ==
    ASSUME PipelineInv, UNCHANGED pipelineVars
    PROVE  PipelineInv'
<1>1. UNCHANGED <<prun, plock, clock, stored, trends, drafts, met, crashes, dropped>>
  BY DEF pipelineVars
<1>2. PipelineTypeOK'
  BY <1>1, TypesKept, PipelineTypesApart DEF PipelineInv
<1>3. LockCovers' /\ DraftsAccounted' /\ BodiesReady'
  BY <1>1, LockKept, DraftsKept, PipelineTypesApart DEF PipelineInv, AtWork, BodiesReady
<1>4. AllMet'
  BY <1>1, MetKept DEF PipelineInv, TrendsAccounted, AtWork
<1>5. clock \in Nat
  BY PipelineTypesApart, PipelineConstants DEF PipelineInv
<1>6. TrendsAccounted'
  BY <1>1, <1>4, <1>5, TrendsKept, PipelineTypesApart DEF PipelineInv
<1> QED BY <1>2, <1>3, <1>6 DEF PipelineInv

LEMMA PipelineStepKeeps == PipelineInv /\ [PipelineNext]_pipelineVars => PipelineInv'
<1> SUFFICES ASSUME PipelineInv, [PipelineNext]_pipelineVars
             PROVE  PipelineInv'
  OBVIOUS
<1>1. ASSUME NEW r \in Runs, RunStep(r)
      PROVE  PipelineInv'
  BY <1>1, TakesKeeps, ReleasesKeeps, IngestsKeeps, ReadsEventsKeeps, ComparesWindowKeeps,
     WritesRowsKeeps, WritesKeeps, InsertsKeeps, SchedulesKeeps, ThrowsKeeps DEF RunStep
<1>2. ASSUME NEW p \in Processes, Crashes(p)
      PROVE  PipelineInv'
  BY <1>2, CrashesKeeps
<1>3. ASSUME NEW k \in PipeConns, Drops(k)
      PROVE  PipelineInv'
  BY <1>3, DropsKeeps
<1>4. ASSUME NEW d \in drafts, Approves(d) \/ HandsApproved(d)
      PROVE  PipelineInv'
  BY <1>4, OperatorKeeps
<1> QED BY <1>1, <1>2, <1>3, <1>4, TickKeeps, PipelineStutterKeeps DEF PipelineNext

\* The invariant holds in every run of the pipelines: the lock covers the runs
\* at work, their trends and their drafts are accounted for.
THEOREM PipelineInvariant == PipelineSpec => []PipelineInv
BY InitPipeline, PipelineStepKeeps, PTL DEF PipelineSpec

\* Every variable keeps to its type.
THEOREM PipelineTypeCorrect == PipelineSpec => []PipelineTypeOK
<1>1. PipelineInv => PipelineTypeOK
  BY DEF PipelineInv
<1> QED BY <1>1, PipelineInvariant, PTL

\* Runs of two processes never work at once, on whatever connections the lock
\* is tried and released, and whatever crashes, unless the connection that
\* held the lock for one of them broke (acquirePipelineRunLock).
THEOREM ProcessesExcluded == PipelineSpec => []ProcessesExclude
<1>1. PipelineInv => ProcessesExclude
  BY DEF PipelineInv, LockCovers, Sure, ProcessesExclude
<1> QED BY <1>1, PipelineInvariant, PTL

\* The rows of a trend tell one piece of evidence once per window, unless the
\* runs that wrote them were at work together (computeWindowTrends).
THEOREM EvidenceOnce == PipelineSpec => []TrendOncePerEvidence
<1>1. PipelineInv => TrendOncePerEvidence
  BY DEF PipelineInv, TrendsAccounted
<1> QED BY <1>1, PipelineInvariant, PTL

\* A run that is done has handed on every draft it approved itself, whatever
\* the operators do meanwhile (runPipeline).
THEOREM DraftsHandedOn == PipelineSpec => []StrandedDraftsExplained
<1>1. PipelineInv => StrandedDraftsExplained
  BY DEF PipelineInv, DraftsAccounted, StrandedDraftsExplained, RunAt
<1> QED BY <1>1, PipelineInvariant, PTL
=============================================================================
