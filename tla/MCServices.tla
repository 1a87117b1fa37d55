----------------------------- MODULE MCServices -----------------------------
(***************************************************************************)
(* The ingestion, the runs of the pipeline, the manual posts and the chats *)
(* of Telegram.  They share no variable, so a behaviour follows one of     *)
(* them and leaves the others at rest; "searches" follows none, and looks  *)
(* at the plans of each configuration of a search.                         *)
(***************************************************************************)
EXTENDS TLC, IngestionCycles, PipelineRuns, ManualPosts, TelegramChats

CONSTANTS i1, i2, i3,              \* rows the sources offer
          r1, r2, k1, k2, k3, g1,  \* runs, connections, a signal
          p1, p2, d1, d2,          \* posts, channels
          f1, f2, s1, s2, s3, s4   \* calls and seeds of Telegram

VARIABLE part  \* the component this behaviour follows

\* Two batches of Reddit, one page of news.
TheHome == i1 :> <<"reddit", 1>> @@ i2 :> <<"reddit", 2>> @@ i3 :> <<"news", 1>>
TheBatches == "reddit" :> 2 @@ "news" :> 1
TheKeys == i1 :> 1 @@ i2 :> 2 @@ i3 :> 1
SearchOf(lists, limit, size, extra) ==
    [times |-> <<1, 2, 3, 2>>, explicit |-> lists[1], watchlist |-> lists[2],
     themes |-> lists[3], limit |-> limit, size |-> size, extra |-> extra]
AllSearches ==
    {SearchOf(lists, limit, size, extra) :
        lists \in {<<<<>>, <<>>, <<>>>>, <<<<1, 2>>, <<2, 3>>, <<4, 1, 5>>>>},
        limit \in 1 .. 5, size \in 1 .. 3, extra \in {0, 1, 2, 5, 15}}
\* A cycle needs two plans: one to fail or find too little, one to go on with.
OneSearch == SearchOf(<<<<>>, <<>>, <<>>>>, 1, 1, 1)

\* Two connections of one process, one of another.
TheProcess == k1 :> 1 @@ k2 :> 1 @@ k3 :> 2
TheSymbol == g1 :> "X"

\* A server and one of its channels; a link that is none; a request for Discord
\* without a link, and one for StockTwits only.
Request(path, pooled, items, discord, links) ==
    [path |-> path, pooled |-> pooled, items |-> items, discord |-> discord, links |-> links]
RequestMixes ==
    {p1 :> x[1] @@ p2 :> x[2] :
        x \in {<<Request("none", FALSE, 0, TRUE, <<{d1, d2}>>),
                 Request("none", FALSE, 0, TRUE, <<{d1}>>)>>,
               <<Request("none", FALSE, 0, TRUE, <<{}, {d1}, {d2}>>),
                 Request("none", FALSE, 0, TRUE, <<{}>>)>>,
               <<Request("dlvrit", TRUE, 2, TRUE, <<{d1}>>),
                 Request("none", FALSE, 0, TRUE, <<>>)>>,
               <<Request("browser", TRUE, 2, FALSE, <<>>),
                 Request("browser", FALSE, 1, FALSE, <<>>)>>}}
TheLogins == p1 :> "l1" @@ p2 :> "l2"

\* Two links to one chat, a chat id, a private invitation; the chat of the id
\* moves, and the environment names the first chat by its id.
TheRefs == s1 :> "@a" @@ s2 :> "@a" @@ s3 :> "old" @@ s4 :> NoRef
TheApproved == {{s1, s4}, {s2, s3}}
TheChats == "@a" :> "A" @@ "a" :> "A" @@ "old" :> "B" @@ "new" :> "B"
TheMoves == "old" :> "new"

\* The runs differ in nothing, nor do the connections of one process.
RunSymmetry == Permutations({r1, r2}) \cup Permutations({k1, k2})

servicesVars == <<part, ingestionVars, pipelineVars, manualVars, telegramVars>>

\* Where a component is not followed, one of its initial states stands for all.
ServicesInit ==
    /\ part \in {"ingestion", "searches", "pipeline", "manual", "telegram"}
    /\ IngestionInit /\ (part # "searches" => search = OneSearch)
    /\ PipelineInit
    /\ ManualInit /\ (part # "manual" => ask[p2].path = "browser")
    /\ TelegramInit /\ (part # "telegram" => \E i \in Rows : cand[i].seed = {s4}
                                                          /\ cand[i].approved)

ServicesNext ==
    \/ /\ part = "ingestion" /\ IngestionNext
       /\ UNCHANGED <<part, pipelineVars, manualVars, telegramVars>>
    \/ /\ part = "pipeline" /\ PipelineNext
       /\ UNCHANGED <<part, ingestionVars, manualVars, telegramVars>>
    \/ /\ part = "manual" /\ ManualNext
       /\ UNCHANGED <<part, ingestionVars, pipelineVars, telegramVars>>
    \/ /\ part = "telegram" /\ TelegramNext
       /\ UNCHANGED <<part, ingestionVars, pipelineVars, manualVars>>

ServicesSpec == ServicesInit /\ [][ServicesNext]_servicesVars

-----------------------------------------------------------------------------
\* Every variable of the component that is followed keeps its type: whatever
\* the sites and the database answer, no call gets into a state that the code
\* does not know.
ServicesTypeOK ==
    /\ part \in {"ingestion", "searches"} => IngestionTypeOK
    /\ part = "pipeline" => PipelineTypeOK
    /\ part = "manual" => ManualTypeOK
    /\ part = "telegram" => TelegramTypeOK
=============================================================================
