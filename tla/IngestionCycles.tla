-------------------------- MODULE IngestionCycles ---------------------------
(***************************************************************************)
(* ingestion.service.ts: a cycle of the pipeline runs the three connectors *)
(* at once.  A connector asks for its batches one after the other (the     *)
(* subreddits, the symbols of the watchlist, the one page of the news),    *)
(* stores the rows it selects and writes its state to the database.        *)
(*                                                                         *)
(* The cycle ends when all its connectors have, or when the first is       *)
(* rejected: the others then go on, while the next cycle may start.  Two   *)
(* cycles may also run at once: the pipeline's lock keeps a run out that   *)
(* asks on another connection, but nests on its own, where a run that the  *)
(* API waits for meets one of the queue, and is lost with it.              *)
(***************************************************************************)
EXTENDS Naturals, Sequences, SequencesExt, FiniteSets

CONSTANTS Sources,     \* the connectors
          Setups,      \* the sets of them that are configured
          Caught,      \* those that go on after a batch that failed
          Searching,   \* those that try several plans per batch
          Batches,     \* source -> number of its batches
          Items,       \* what the sites offer
          Home,        \* item -> the source and the batch that offers it
          Meaningful,  \* items a search keeps
          BadDate,     \* items whose date the database refuses
          EventKey,    \* item -> its external id
          MinQualified,
          TimeRanges, Words,
          Searches,    \* what a search may be configured to: see FetchPlans
          MaxCycles

ASSUME IngestionConstants ==
    /\ Setups \subseteq SUBSET Sources /\ Caught \subseteq Sources /\ Searching \subseteq Sources
    /\ Batches \in [Sources -> Nat] /\ MinQualified \in Nat \ {0} /\ MaxCycles \in Nat
    /\ Home \in [Items -> Sources \X Nat] /\ DOMAIN EventKey = Items
    /\ Meaningful \subseteq Items /\ BadDate \subseteq Items
    /\ Searches \subseteq [times : Seq(TimeRanges) \ {<<>>}, explicit : Seq(Words),
                           watchlist : Seq(Words), themes : Seq(Words),
                           limit : Nat \ {0}, size : Nat \ {0}, extra : Nat]

VARIABLES cycle,      \* number -> how the cycle stands
          beside,     \* cycle -> the earlier ones that ran when it started
          task,       \* <<cycle, source>> -> its connector
          events,     \* the stored events: <<source, external id>>
          connector,  \* source -> what its row shows
          search,     \* the configuration of the searches
          plans       \* its plans

ingestionVars == <<cycle, beside, task, events, connector, search, plans>>

----------------------------------------------------------------------------
\* The plans of a search: what a batch is asked for until it answers enough.

\* sliceKeywords.
Slices(words, size) ==
    [i \in 1 .. (Len(words) + size - 1) \div size |->
        SubSeq(words, (i - 1) * size + 1, IF i * size < Len(words) THEN i * size ELSE Len(words))]

\* Fault: a plan that was pushed before is pushed again.
PushAgain(list) == list

\* Where each value of a list is first.
Firsts(list) == {i \in DOMAIN list : \A j \in 1 .. i - 1 : list[j] # list[i]}

\* How many have been pushed when the list has been read so far.
Pushed(list, i) == Cardinality({j \in Firsts(list) : j <= i})

\* Each value once, where it is first.
PushOnce(list) ==
    [n \in 1 .. Cardinality(Firsts(list)) |->
        list[CHOOSE i \in Firsts(list) : Pushed(list, i) = n]]

Shortened(list, most) == SubSeq(list, 1, IF most < Len(list) THEN most ELSE Len(list))

\* resolveRedditQueryKeywords: the configured keywords, those of the watchlist,
\* those of the themes, each once, as many as are allowed.
Keywords(c) == Shortened(PushOnce(c.explicit \o c.watchlist \o c.themes), c.limit)

\* The slices of the keywords over one time range, then no keyword at all.
OverRange(time, slices) ==
    [i \in 1 .. Len(slices) |-> [time |-> time, words |-> slices[i]]]
    \o <<[time |-> time, words |-> <<>>]>>

OverRanges(times, slices) ==
    LET width == Len(slices) + 1
    IN  [i \in 1 .. Len(times) * width |->
            OverRange(times[(i - 1) \div width + 1], slices)[((i - 1) % width) + 1]]

\* buildRedditFetchPlans: the keywords at once, then in slices, then none; the
\* same again for every time range, the first of which is tried already.
FetchPlans(c) ==
    LET slices == Slices(Keywords(c), c.size)
        first == [time |-> c.times[1], words |-> Keywords(c)]
    IN  Shortened(PushOnce(<<first>> \o OverRange(c.times[1], slices)
                                    \o OverRanges(c.times, slices)), 1 + c.extra)

----------------------------------------------------------------------------
Cycles == 1 .. MaxCycles
Tasks == Cycles \X Sources
Offered(s, k) == {i \in Items : Home[i] = <<s, k>>}
Key(s, i) == <<s, EventKey[i]>>

Resting == [step |-> "idle", at |-> 1, plan |-> 1, best |-> {}, chosen |-> {}, ok |-> 0,
            errs |-> {}, outcome |-> "none"]

IngestionInit ==
    /\ cycle = [c \in Cycles |-> "ready"] /\ beside = [c \in Cycles |-> {}]
    /\ task = [t \in Tasks |-> Resting]
    /\ events = {}
    /\ connector = [s \in Sources |-> [healthy |-> FALSE, by |-> 0]]
    /\ search \in Searches /\ plans = FetchPlans(search)

Stands(c, s, step) == task[<<c, s>>].step = step
Moves(c, s, t) == task' = [task EXCEPT ![<<c, s>>] = t]

Starts(s) == [Resting EXCEPT !.step = "fetch"]
ReportsUnconfigured(s) == [Resting EXCEPT !.step = "report", !.outcome = "unconfigured"]

\* runIngestionCycle: all connectors start; one that is not configured only
\* reports that.  Cycles of different processes may be configured differently.
\* A cycle starts whether or not those that started before it are over.
StartCycle(c) ==
    /\ cycle[c] = "ready" /\ \A b \in 1 .. c - 1 : cycle[b] # "ready"
    /\ cycle' = [cycle EXCEPT ![c] = "running"]
    /\ beside' = [beside EXCEPT ![c] = {b \in 1 .. c - 1 : cycle[b] = "running"}]
    /\ \E setup \in Setups :
          task' = [t \in Tasks |->
                      IF t[1] # c THEN task[t]
                      ELSE IF t[2] \in setup THEN Starts(t[2]) ELSE ReportsUnconfigured(t[2])]
    /\ UNCHANGED <<events, connector, search, plans>>

\* The next batch, or the outcome once there is none.
NextBatch(s, t) ==
    IF t.at < Batches[s]
    THEN [t EXCEPT !.step = "fetch", !.at = @ + 1, !.plan = 1, !.best = {}]
    ELSE [t EXCEPT !.step = "report", !.best = {},
                   !.outcome = IF t.ok = 0 /\ t.errs # {} THEN "failed" ELSE "healthy"]

\* The error of a subreddit or of a symbol is noted, and the next one tried.
ErrorNoted(s, t) == NextBatch(s, [t EXCEPT !.errs = @ \cup {t.at}])

\* The news connector catches nothing.
ErrorThrown(t) ==
    [t EXCEPT !.errs = @ \cup {t.at}, !.step = "report", !.outcome = "failed", !.best = {}]

BatchFails(s, t) == IF s \in Caught THEN ErrorNoted(s, t) ELSE ErrorThrown(t)

\* isMeaningfulRedditPayload keeps what is long enough, has an author and names
\* a symbol of the watchlist.
Kept(s, page) == IF s \in Searching THEN page \cap Meaningful ELSE page

\* The plan that has brought most so far.
Best(t, kept) == IF Cardinality(kept) > Cardinality(t.best) THEN kept ELSE t.best

\* One request, with its retries: it fails, whatever earlier plans brought, or
\* it answers some of what is offered.  A search tries its plans until one has
\* brought enough.
Fetch(c, s) ==
    LET t == task[<<c, s>>]
    IN  /\ Stands(c, s, "fetch")
        /\ \/ Moves(c, s, BatchFails(s, t))
           \/ \E page \in SUBSET Offered(s, t.at) :
                LET kept == Kept(s, page)
                    enough == Cardinality(kept) >= MinQualified
                IN  IF s \in Searching /\ ~enough /\ t.plan < Len(plans)
                    THEN Moves(c, s, [t EXCEPT !.plan = @ + 1, !.best = Best(t, kept)])
                    ELSE Moves(c, s, [t EXCEPT !.step = "store", !.best = Best(t, kept),
                                               !.ok = @ + 1,
                                               !.chosen = @ \cup Best(t, kept)])
        /\ UNCHANGED <<cycle, beside, events, connector, search, plans>>

\* createMany with skipDuplicates: all rows but those already there; a date
\* that the database refuses refuses them all.
KeepsRows(s, rows) ==
    /\ rows \cap BadDate = {}
    /\ events' = events \cup {Key(s, i) : i \in rows}

\* Fault: an error of the database ends the batch without a note.
StoreUnnoted(c, s) ==
    LET t == task[<<c, s>>]
    IN  /\ Stands(c, s, "store")
        /\ KeepsRows(s, t.best) \/ UNCHANGED events
        /\ Moves(c, s, NextBatch(s, t))
        /\ UNCHANGED <<cycle, beside, connector, search, plans>>

\* The rows of a batch are stored, or an error of the database ends the batch.
Store(c, s) ==
    LET t == task[<<c, s>>]
    IN  /\ Stands(c, s, "store")
        /\ \/ KeepsRows(s, t.best) /\ Moves(c, s, NextBatch(s, t))
           \/ /\ t.best # {}
              /\ Moves(c, s, BatchFails(s, t)) /\ UNCHANGED events
        /\ UNCHANGED <<cycle, beside, connector, search, plans>>

\* What is left of a connector that has ended or thrown.
Past(t, step) == [Resting EXCEPT !.step = step, !.outcome = t.outcome]

\* persistConnectorState; its count of failures is left out.
Persists(c, s, healthy) ==
    connector' = [connector EXCEPT ![s] = [healthy |-> healthy, by |-> c]]

\* runConnector: a healthy outcome whose write fails is reported as a failure;
\* a failure that cannot be written, or audited, is thrown.
Report(c, s) ==
    LET t == task[<<c, s>>]
    IN  /\ Stands(c, s, "report")
        /\ \/ /\ Persists(c, s, t.outcome = "healthy")
              /\ \/ Moves(c, s, Past(t, "ended"))
                 \/ t.outcome = "failed" /\ Moves(c, s, Past(t, "thrown"))
           \/ /\ Moves(c, s, IF t.outcome = "healthy" THEN [t EXCEPT !.outcome = "failed"]
                                                      ELSE Past(t, "thrown"))
              /\ UNCHANGED connector
        /\ UNCHANGED <<cycle, beside, events, search, plans>>

\* Fault: the cycle goes on without the connectors that are late.
CycleLeavesLate(c) ==
    /\ cycle[c] = "running"
    /\ \E s \in Sources : Stands(c, s, "ended")
    /\ cycle' = [cycle EXCEPT ![c] = "done"]
    /\ UNCHANGED <<beside, task, events, connector, search, plans>>

\* Promise.all: every connector has ended, or one of them has thrown; the
\* audit of the cycle may throw as well.
CycleEnds(c) ==
    /\ cycle[c] = "running"
    /\ \/ /\ \A s \in Sources : Stands(c, s, "ended")
          /\ cycle' \in {[cycle EXCEPT ![c] = "done"], [cycle EXCEPT ![c] = "failed"]}
       \/ /\ \E s \in Sources : Stands(c, s, "thrown")
          /\ cycle' = [cycle EXCEPT ![c] = "failed"]
    /\ UNCHANGED <<beside, task, events, connector, search, plans>>

ConnectorStep(c, s) == Fetch(c, s) \/ Store(c, s) \/ Report(c, s)

IngestionNext ==
    \E c \in Cycles : StartCycle(c) \/ CycleEnds(c) \/ \E s \in Sources : ConnectorStep(c, s)

IngestionSpec == IngestionInit /\ [][IngestionNext]_ingestionVars

----------------------------------------------------------------------------
IngestionTypeOK ==
    /\ cycle \in [Cycles -> {"ready", "running", "done", "failed"}]
    /\ beside \in [Cycles -> SUBSET Cycles]
    /\ task \in [Tasks -> [step : {"idle", "fetch", "store", "report", "ended", "thrown"},
                           at : Nat, plan : Nat, best : SUBSET Items, chosen : SUBSET Items,
                           ok : Nat, errs : SUBSET Nat,
                           outcome : {"none", "healthy", "failed", "unconfigured"}]]
    /\ events \subseteq Sources \X {EventKey[i] : i \in Items}
    /\ connector \in [Sources -> [healthy : BOOLEAN, by : Nat]]
    /\ search \in Searches

\* What the health page shows of a source is at least as recent as the last
\* cycle that is done.  Only two connectors write over a younger cycle's state:
\* one that a failed cycle has left running, and one of a cycle that ran when
\* the younger one started.
StaleStateExplained ==
    \A c \in Cycles, s \in Sources :
        LET by == connector[s].by
        IN  cycle[c] = "done" /\ by < c =>
                by # 0 /\ (cycle[by] = "failed" \/ by \in beside[c])

\* A source is reported healthy, and counts as active, only if each row it
\* selected is an event now, or its batch is among the errors it has swallowed.
ActiveSourcesStored ==
    \A c \in Cycles, s \in Sources :
        LET t == task[<<c, s>>]
        IN  t.step = "report" /\ t.outcome = "healthy" =>
                \A i \in t.chosen : Key(s, i) \in events \/ Home[i][2] \in t.errs

\* The plans of a search are all different and start with all the keywords,
\* which are never more than allowed, over the given time range.  They leave
\* that range only when each slice of the keywords, and no keyword at all, have
\* been tried over it; and each keyword is in one of the slices.
PlansWidenInOrder ==
    LET first == search.times[1]
        words == Keywords(search)
        tried == ToSet(Slices(words, search.size)) \cup {<<>>}
    IN  /\ plans[1] = [time |-> first, words |-> words]
        /\ Len(plans) <= 1 + search.extra /\ Len(words) <= search.limit
        /\ \A i, j \in DOMAIN plans : plans[i] = plans[j] => i = j
        /\ \A i \in DOMAIN plans : plans[i].time # first =>
               \A w \in tried : \E j \in 1 .. i : plans[j] = [time |-> first, words |-> w]
        /\ \A i \in DOMAIN words : \E w \in tried : words[i] \in ToSet(w)
=============================================================================
