---------------------------- MODULE PipelineRuns ----------------------------
(***************************************************************************)
(* A run of the pipeline: orchestration.service.ts takes the lock, lets    *)
(* the sources be ingested, computes the trends (trends.service.ts),       *)
(* writes a draft for each (content.service.ts), hands the approved drafts *)
(* to the scheduling and releases the lock.  The queue's worker and the    *)
(* operator's HTTP request start runs, in any process.                     *)
(*                                                                         *)
(* What the sources bring is in IngestionCycles, what scheduling does with *)
(* a draft in Scheduling; here a cycle brings signals and may fail.        *)
(***************************************************************************)
EXTENDS Integers, FiniteSets

CONSTANTS Runs,        \* runs of the pipeline
          PipeConns,   \* database connections of the processes
          Process,     \* connection -> its process
          NoPipeConn,
          Signals,     \* what the sources bring
          SymbolOf,    \* signal -> its symbol
          Windows,     \* lengths of the trend windows
          MinEvents,   \* events that make a trend
          TopLimit,    \* trends kept per window
          Bodies,      \* what the language model writes
          Clean,       \* bodies the policy and the score approve
          MaxTime

ASSUME PipelineConstants ==
    /\ IsFiniteSet(Runs) /\ NoPipeConn \notin PipeConns /\ DOMAIN Process = PipeConns
    /\ DOMAIN SymbolOf = Signals /\ Windows \subseteq Nat /\ MaxTime \in Nat
    /\ MinEvents \in Nat \ {0} /\ TopLimit \in Nat /\ Clean \subseteq Bodies

PL == INSTANCE AdvisoryLocks WITH Keys <- {"pipeline"}, Conns <- PipeConns, NoConn <- NoPipeConn

VARIABLES prun,     \* run -> how far it is
          plock,    \* the lock of the pipeline
          clock,    \* the time
          stored,   \* signal -> when it occurred, for those that are events
          trends,   \* the rows of trends
          drafts,   \* the rows of drafts
          met,      \* the pairs of runs that were at work at the same time
          crashes,  \* processes that have crashed
          dropped   \* the processes a connection of which broke

pipelineVars == <<prun, plock, clock, stored, trends, drafts, met, crashes, dropped>>

Processes == {Process[k] : k \in PipeConns}
PSymbols == {SymbolOf[g] : g \in Signals}
Trends == [sym : PSymbols, window : Windows, start : Int, end : Nat,
           evidence : SUBSET Signals, by : Runs]

Unstarted == [at |-> "queued", proc |-> 0, now |-> 0, seen |-> {}, left |-> {}, fresh |-> {},
              todo |-> {}, body |-> <<>>]

PipelineInit ==
    /\ prun = [r \in Runs |-> Unstarted]
    /\ plock = [k \in {"pipeline"} |-> PL!Free]
    /\ clock = 0 /\ stored = <<>> /\ trends = {} /\ drafts = {} /\ met = {} /\ crashes = {}
    /\ dropped = {}

RunAt(r, step) == prun[r].at = step
AtWork(r) == prun[r].at \notin {"queued", "done", "failed", "lost"}
Goto(r, step) == prun' = [prun EXCEPT ![r].at = step]
Up(p) == p \notin crashes

\* Fault: the answer of the lock is not looked at.
TakesAnyway(r, k) ==
    /\ RunAt(r, "queued") /\ Up(Process[k])
    /\ plock' = IF PL!Granted(plock, "pipeline", k) THEN PL!Locked(plock, "pipeline", k) ELSE plock
    /\ prun' = [prun EXCEPT ![r].at = "ingest", ![r].proc = Process[k]]
    /\ met' = met \cup {{r, q} : q \in {x \in Runs : AtWork(x)}}
    /\ UNCHANGED <<clock, stored, trends, drafts, crashes, dropped>>

\* acquirePipelineRunLock: the lock is tried on some connection of a process,
\* and the run ends at once if it is taken.
Takes(r, k) ==
    /\ RunAt(r, "queued") /\ Up(Process[k])
    /\ IF PL!Granted(plock, "pipeline", k)
       THEN /\ plock' = PL!Locked(plock, "pipeline", k)
            /\ prun' = [prun EXCEPT ![r].at = "ingest", ![r].proc = Process[k]]
            /\ met' = met \cup {{r, q} : q \in {x \in Runs : AtWork(x)}}
       ELSE Goto(r, "failed") /\ UNCHANGED <<plock, met>>
    /\ UNCHANGED <<clock, stored, trends, drafts, crashes, dropped>>

\* The cycle of ingestion: new signals are stored once, with the time they
\* occurred; too few active sources, or an error, end the run.
Ingests(r) ==
    /\ RunAt(r, "ingest")
    /\ \E new \in SUBSET (Signals \ DOMAIN stored), ago \in {0, 1}, step \in {"read", "release"} :
          /\ stored' = [g \in DOMAIN stored \cup new |->
                           IF g \in new THEN clock - ago ELSE stored[g]]
          /\ Goto(r, step)
    /\ UNCHANGED <<plock, clock, trends, drafts, met, crashes, dropped>>

\* computeTrends: the time and the events, for all the windows.
ReadsEvents(r) ==
    /\ RunAt(r, "read")
    /\ prun' = [prun EXCEPT ![r].at = "window", ![r].now = clock, ![r].left = Windows,
                            ![r].seen = DOMAIN stored]
    /\ UNCHANGED <<plock, clock, stored, trends, drafts, met, crashes, dropped>>

Start(r, w) == prun[r].now - w

\* The events of a window that name the symbol; of more than twenty the code
\* keeps twenty.
Evidence(r, w, s) == {g \in prun[r].seen : SymbolOf[g] = s /\ stored[g] >= Start(r, w)
                                                          /\ stored[g] <= prun[r].now}

\* The symbols with events enough; weights, engagement and sentiment decide
\* which of them pass the other limits and come first.
Trending(r, w) == {s \in PSymbols : Cardinality(Evidence(r, w, s)) >= MinEvents}
Top(r, w) == {t \in SUBSET Trending(r, w) : Cardinality(t) <= TopLimit}

\* Fault: rows count as existing only if their whole window lies in this one.
KnownWithin(r, w, s) ==
    \E t \in trends : /\ t.sym = s /\ t.window = w /\ t.evidence = Evidence(r, w, s)
                      /\ t.start >= Start(r, w) /\ t.end <= prun[r].now

\* A row of the window that ends inside it has the same fingerprint.
Known(r, w, s) ==
    \E t \in trends : /\ t.sym = s /\ t.window = w /\ t.evidence = Evidence(r, w, s)
                      /\ t.end >= Start(r, w) /\ t.end <= prun[r].now

\* computeWindowTrends: the existing rows are read before the first row is
\* written; the windows follow one another.
ComparesWindow(r) ==
    /\ RunAt(r, "window")
    /\ IF prun[r].left = {}
       THEN prun' = [prun EXCEPT ![r].at = "draft", ![r].seen = {}, ![r].fresh = {}]
       ELSE \E w \in prun[r].left, top \in SUBSET PSymbols :
               /\ \A v \in prun[r].left : w <= v
               /\ top \in Top(r, w)
               /\ prun' = [prun EXCEPT ![r].at = "rows", ![r].left = @ \ {w},
                              ![r].fresh = {[sym |-> s, window |-> w, start |-> Start(r, w),
                                             end |-> prun[r].now, by |-> r,
                                             evidence |-> Evidence(r, w, s)] :
                                               s \in {x \in top : ~Known(r, w, x)}}]
    /\ UNCHANGED <<plock, clock, stored, trends, drafts, met, crashes, dropped>>

\* The rows are written one by one: an error leaves those before it.
WritesRows(r) ==
    /\ RunAt(r, "rows")
    /\ \E written \in SUBSET prun[r].fresh :
          /\ trends' = trends \cup written
          /\ \/ /\ written = prun[r].fresh
                /\ prun' = [prun EXCEPT ![r].at = "window",
                                        ![r].todo = @ \cup {t.sym : t \in written}]
             \/ Goto(r, "release")
    /\ UNCHANGED <<plock, clock, stored, drafts, met, crashes, dropped>>

\* A query of the run fails: runPipeline throws, after it has released the lock.
Throws(r) ==
    /\ \E step \in {"read", "window", "draft", "insert"} : RunAt(r, step)
    /\ Goto(r, "release")
    /\ UNCHANGED <<plock, clock, stored, trends, drafts, met, crashes, dropped>>

Taken(b) == \E d \in drafts : d.body = b

\* generateDraftsForTrends: one draft per symbol; attempts whose body is known
\* are repeated, and given up.
Writes(r) ==
    /\ RunAt(r, "draft")
    /\ IF prun[r].todo = {} THEN Goto(r, "schedule")
       ELSE \E s \in prun[r].todo :
               \/ \E b \in Bodies : /\ ~Taken(b)
                                    /\ prun' = [prun EXCEPT ![r].at = "insert",
                                                            ![r].body = <<s, b>>]
               \/ prun' = [prun EXCEPT ![r].todo = @ \ {s}]
    /\ UNCHANGED <<plock, clock, stored, trends, drafts, met, crashes, dropped>>

\* The draft is written, unless another run has written the same body since:
\* the unique hash then ends the run.
Inserts(r) ==
    LET s == prun[r].body[1]
        b == prun[r].body[2]
    IN  /\ RunAt(r, "insert")
        /\ IF Taken(b) THEN Goto(r, "release") /\ UNCHANGED drafts
           ELSE /\ drafts' = drafts \cup {[body |-> b, approved |-> b \in Clean,
                                           handed |-> FALSE, by |-> r,
                                           asked |-> FALSE]}
                /\ prun' = [prun EXCEPT ![r].at = "draft", ![r].todo = @ \ {s},
                                        ![r].body = <<>>]
        /\ UNCHANGED <<plock, clock, stored, trends, met, crashes, dropped>>

Pending(r, d) == d.by = r /\ d.body \in Clean /\ ~d.handed

\* Fault: an error of the scheduling is swallowed.
SchedulesQuietly(r) ==
    /\ RunAt(r, "schedule")
    /\ Goto(r, "close")
    /\ UNCHANGED <<plock, clock, stored, trends, drafts, met, crashes, dropped>>

\* scheduleDraftPublishes: the approved drafts of the run one by one; an error
\* ends the run.
Schedules(r) ==
    /\ RunAt(r, "schedule")
    /\ \/ \E d \in drafts : /\ Pending(r, d)
                            /\ drafts' = (drafts \ {d}) \cup {[d EXCEPT !.handed = TRUE]}
                            /\ UNCHANGED prun
       \/ ~(\E d \in drafts : Pending(r, d)) /\ Goto(r, "close") /\ UNCHANGED drafts
       \/ Goto(r, "release") /\ UNCHANGED drafts
    /\ UNCHANGED <<plock, clock, stored, trends, met, crashes, dropped>>

\* An operator approves a draft, and then has it scheduled, which may fail.
Approves(d) ==
    /\ ~d.asked
    /\ drafts' = (drafts \ {d}) \cup {[d EXCEPT !.approved = TRUE, !.asked = TRUE]}
    /\ UNCHANGED <<prun, plock, clock, stored, trends, met, crashes, dropped>>

HandsApproved(d) ==
    /\ d.asked /\ ~d.handed
    /\ drafts' = (drafts \ {d}) \cup {[d EXCEPT !.handed = TRUE]}
    /\ UNCHANGED <<prun, plock, clock, stored, trends, met, crashes, dropped>>

\* The lock is released on some connection of the process, which may be
\* another one than took it.
Releases(r, k) ==
    /\ RunAt(r, "release") \/ RunAt(r, "close")
    /\ Process[k] = prun[r].proc
    /\ plock' = PL!Unlocked(plock, "pipeline", k)
    /\ prun' = [prun EXCEPT ![r] = [Unstarted EXCEPT
                   !.at = IF RunAt(r, "close") THEN "done" ELSE "failed", !.proc = Process[k]]]
    /\ UNCHANGED <<clock, stored, trends, drafts, met, crashes, dropped>>

\* A process ends, and with it its runs and its connections.
Crashes(p) ==
    /\ crashes = {} /\ dropped = {} /\ crashes' = {p}
    /\ plock' = PL!Closed(plock, {k \in PipeConns : Process[k] = p})
    /\ prun' = [r \in Runs |-> IF AtWork(r) /\ prun[r].proc = p
                               THEN [Unstarted EXCEPT !.at = "lost", !.proc = p] ELSE prun[r]]
    /\ UNCHANGED <<clock, stored, trends, drafts, met, dropped>>

\* The connection that holds the lock breaks, and the lock is free; the pool
\* opens another connection.
Drops(k) ==
    /\ crashes = {} /\ dropped = {} /\ dropped' = {Process[k]}
    /\ plock["pipeline"].conn = k /\ plock' = PL!Closed(plock, {k})
    /\ UNCHANGED <<prun, clock, stored, trends, drafts, met, crashes>>

Tick ==
    /\ clock < MaxTime /\ \E r \in Runs : RunAt(r, "queued") \/ AtWork(r)
    /\ clock' = clock + 1
    /\ UNCHANGED <<prun, plock, stored, trends, drafts, met, crashes, dropped>>

RunStep(r) ==
    \/ \E k \in PipeConns : Takes(r, k) \/ Releases(r, k)
    \/ Ingests(r) \/ ReadsEvents(r) \/ ComparesWindow(r) \/ WritesRows(r)
    \/ Writes(r) \/ Inserts(r) \/ Schedules(r) \/ Throws(r)

PipelineNext ==
    \/ Tick
    \/ \E p \in Processes : Crashes(p)
    \/ \E k \in PipeConns : Drops(k)
    \/ \E d \in drafts : Approves(d) \/ HandsApproved(d)
    \/ \E r \in Runs : RunStep(r)

PipelineSpec == PipelineInit /\ [][PipelineNext]_pipelineVars

----------------------------------------------------------------------------
RunSteps == {"queued", "ingest", "read", "window", "rows", "draft", "insert", "schedule",
             "close", "release", "done", "failed", "lost"}

PipelineTypeOK ==
    /\ prun \in [Runs -> [at : RunSteps, proc : Processes \cup {0}, now : Nat,
                          seen : SUBSET Signals, left : SUBSET Windows, fresh : SUBSET Trends,
                          todo : SUBSET PSymbols, body : {<<>>} \cup (PSymbols \X Bodies)]]
    /\ plock \in PL!LockTables /\ clock \in 0 .. MaxTime
    /\ DOMAIN stored \subseteq Signals /\ \A g \in DOMAIN stored : stored[g] \in -1 .. clock
    /\ trends \subseteq Trends
    /\ drafts \subseteq [body : Bodies, approved : BOOLEAN, handed : BOOLEAN, by : Runs,
                  asked : BOOLEAN]
    /\ met \subseteq SUBSET Runs /\ crashes \subseteq Processes
    /\ dropped \subseteq Processes

\* The runs of two processes never work at the same time, though a run may
\* leave the lock behind on a connection it does not release, unless the
\* connection that held the lock for one of them broke.
ProcessesExclude ==
    \A r, q \in Runs : AtWork(r) /\ AtWork(q) =>
        prun[r].proc = prun[q].proc \/ {prun[r].proc, prun[q].proc} \cap dropped # {}

\* The same evidence makes a trend once per window, however the window moves
\* on, unless two runs worked at the same time.
TrendOncePerEvidence ==
    \A t, u \in trends :
        t # u /\ t.sym = u.sym /\ t.window = u.window /\ t.evidence = u.evidence
            => {t.by, u.by} \in met

\* An approved draft that was never handed to the scheduling belongs to a run
\* that is still at work, or has failed after it wrote the draft, or was lost;
\* or to a request of an operator.  A run that is done leaves none behind.
StrandedDraftsExplained ==
    \A d \in drafts : d.approved /\ ~d.handed => ~RunAt(d.by, "done") \/ d.asked
=============================================================================
