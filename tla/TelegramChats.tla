---------------------------- MODULE TelegramChats ----------------------------
(***************************************************************************)
(* Where Telegram messages go and how often.  publishing.service.ts keeps  *)
(* candidates: seeded from the environment, approved by operators, tried   *)
(* by every call that schedules or approves.  The chats the bot reaches,   *)
(* and those the environment names, get the drafts; telegram.publisher.ts  *)
(* sends, follows a group that has moved, and tries again when no answer   *)
(* came.  A chat has several references: its name, its id, and the id it   *)
(* gets when the group becomes a supergroup.                               *)
(***************************************************************************)
EXTENDS Naturals, FiniteSets

CONSTANTS Flows,     \* calls
          Approvals, \* those of approveTelegramCandidate, not scheduleDraftPublishes
          Seeds,     \* TELEGRAM_DISCOVERY_SEEDS
          IdSeeds,   \* those that are chat ids
          Approved,  \* the sets of them that operators have approved before
          Refs, NoRef,
          RefOf,     \* seed -> the reference it gives, or NoRef (a private invitation)
          Defaults,  \* TELEGRAM_DEFAULT_CHAT_IDS
          Chats,
          ChatOf,    \* reference -> the chat it names
          MovesTo,   \* reference -> the one Telegram gives instead, once the group moved
          Rows,      \* ids of candidate rows
          MaxTries   \* HTTP_MAX_RETRIES + 1

ASSUME TelegramConstants ==
    /\ Approvals \subseteq Flows /\ MaxTries \in Nat \ {0}
    /\ NoRef \notin Refs /\ Defaults \subseteq Refs
    /\ IdSeeds \subseteq Seeds /\ Approved \subseteq SUBSET Seeds
    /\ RefOf \in [Seeds -> Refs \cup {NoRef}] /\ ChatOf \in [Refs -> Chats]
    /\ DOMAIN MovesTo \subseteq Refs
    \* A supergroup is the chat that the group was, and does not move again.
    /\ \A r \in DOMAIN MovesTo : /\ MovesTo[r] \in Refs \ DOMAIN MovesTo
                                 /\ ChatOf[MovesTo[r]] = ChatOf[r]

VARIABLES cand,   \* the candidates' rows
          moved,  \* references of groups that have moved
          flow,   \* how far each call is, and what it sends
          got,    \* call -> chat -> how often the chat got its message
          lost    \* calls one of whose sends was not answered

telegramVars == <<cand, moved, flow, got, lost>>

\* A row without a seed is not there.
NoRow == [seed |-> {}, chat |-> NoRef, approved |-> FALSE, joined |-> FALSE, rests |-> FALSE]

SeedRow(s) == [NoRow EXCEPT !.seed = {s}, !.chat = IF s \in IdSeeds THEN RefOf[s] ELSE NoRef]

\* upsert looks for a chat id among the chat ids, for a link among the links.
Finds(row, s) == IF s \in IdSeeds THEN row.chat = RefOf[s] ELSE row.seed = {s}

\* resolveTelegramChatReference: the chat id, or else what the link says.
Reference(row) == IF row.chat # NoRef THEN row.chat ELSE RefOf[CHOOSE s \in row.seed : TRUE]

\* Telegram answers for a group that has moved with its new reference.
Now(ref) == IF ref \in moved THEN MovesTo[ref] ELSE ref

NewFlow == [at |-> "new", seeds |-> {}, list |-> {}, sends |-> {}, goals |-> {},
            to |-> NoRef, hops |-> 0, tries |-> 0]

\* A call that threw, at the candidate it threw on.
Thrown(next) == [NewFlow EXCEPT !.at = "failed", !.list = {next}]

TelegramInit ==
    /\ \E approved \in Approved :
          LET row == CHOOSE r \in [Seeds -> Rows] : \A s, t \in Seeds : r[s] = r[t] => s = t
          IN  cand = [i \in Rows |->
                         IF \E s \in Seeds : row[s] = i
                         THEN LET s == CHOOSE s \in Seeds : row[s] = i
                              IN  [SeedRow(s) EXCEPT !.approved = s \in approved]
                         ELSE NoRow]
    /\ moved = {} /\ lost = {}
    /\ flow = [f \in Flows |-> NewFlow]
    /\ got = [f \in Flows |-> [c \in Chats |-> 0]]

FlowAt(f, step) == flow[f].at = step
Flows2(f, r) == flow' = [flow EXCEPT ![f] = r]

\* A call that schedules drafts begins with the seeds, one that approves with
\* the approval.
BeginsFlow(f) ==
    /\ FlowAt(f, "new")
    /\ \/ /\ f \notin Approvals /\ Flows2(f, [flow[f] EXCEPT !.at = "seed", !.seeds = Seeds])
          /\ UNCHANGED cand
       \/ /\ f \in Approvals /\ Flows2(f, [flow[f] EXCEPT !.at = "read"])
          /\ \E i \in Rows : /\ cand[i].seed # {}
                             /\ cand' = [cand EXCEPT ![i].approved = TRUE]
    /\ UNCHANGED <<moved, got, lost>>

\* syncTelegramCandidatesFromSeed: a seed whose row is not found gets a new one.
SyncsSeed(f) ==
    /\ FlowAt(f, "seed")
    /\ \E s \in flow[f].seeds :
          /\ IF \E i \in Rows : Finds(cand[i], s) THEN UNCHANGED cand
             ELSE \E i \in Rows : /\ cand[i] = NoRow
                                  /\ cand' = [cand EXCEPT ![i] = SeedRow(s)]
          /\ Flows2(f, [flow[f] EXCEPT !.seeds = @ \ {s},
                                       !.at = IF flow[f].seeds = {s} THEN "read" ELSE @])
    /\ UNCHANGED <<moved, got, lost>>

\* attemptApprovedTelegramJoins reads the approved candidates that do not rest.
ReadsCandidates(f) ==
    /\ FlowAt(f, "read")
    /\ Flows2(f, [flow[f] EXCEPT !.at = "join",
                    !.list = {[row |-> i, ref |-> Reference(cand[i])] :
                                 i \in {j \in Rows : cand[j].approved /\ ~cand[j].rests}}])
    /\ UNCHANGED <<cand, moved, got, lost>>

\* inspectChatAccess: whether the bot reaches the chat, and by which reference;
\* without an account or its token, no chat is reached.
Inspected(ref) == {[ref |-> ref, reached |-> FALSE], [ref |-> Now(ref), reached |-> FALSE],
                   [ref |-> Now(ref), reached |-> TRUE]}

\* Fault: an error of Telegram's is not caught.
JoinsOrThrows(f) ==
    /\ FlowAt(f, "join")
    /\ \E next \in flow[f].list :
          \/ /\ Flows2(f, Thrown(next)) /\ UNCHANGED cand
          \/ /\ Flows2(f, [flow[f] EXCEPT !.list = @ \ {next}])
             /\ cand' = [cand EXCEPT ![next.row].joined = TRUE]
    /\ UNCHANGED <<moved, got, lost>>

\* One candidate of the list.  Its row gets the reference that Telegram gave,
\* as it was inspected: if another row has it, the unique key throws.
Joins(f) ==
    /\ FlowAt(f, "join")
    /\ \E next \in flow[f].list :
          LET done == [flow[f] EXCEPT !.list = @ \ {next}]
          IN  IF next.ref = NoRef
              THEN /\ cand' = [cand EXCEPT ![next.row].joined = FALSE, ![next.row].rests = TRUE]
                   /\ Flows2(f, done)
              ELSE \E found \in Inspected(next.ref) :
                      IF \E j \in Rows \ {next.row} : cand[j].chat = found.ref
                      THEN Flows2(f, Thrown(next)) /\ UNCHANGED cand
                      ELSE /\ cand' = [cand EXCEPT ![next.row].chat = found.ref,
                                                   ![next.row].joined = found.reached,
                                                   ![next.row].rests = ~found.reached]
                           /\ Flows2(f, done)
    /\ UNCHANGED <<moved, got, lost>>

\* resolveTelegramTargets: the environment's references and those of the
\* joined candidates; an approval ends here.
Targets(f) ==
    /\ FlowAt(f, "join") /\ flow[f].list = {}
    /\ Flows2(f, IF f \in Approvals THEN [NewFlow EXCEPT !.at = "done"]
                 ELSE LET joined == {i \in Rows : cand[i].approved /\ cand[i].joined}
                          goals == Defaults \cup ({cand[i].chat : i \in joined} \ {NoRef})
                      IN  [NewFlow EXCEPT !.at = "send", !.sends = goals, !.goals = goals])
    /\ UNCHANGED <<cand, moved, got, lost>>

\* The job of a target is executed; when the last is, the call is done with
\* and its counts are forgotten.
NextTarget(f) ==
    /\ FlowAt(f, "send") /\ flow[f].to = NoRef
    /\ \/ /\ \E ref \in flow[f].sends :
                Flows2(f, [flow[f] EXCEPT !.to = ref, !.sends = @ \ {ref},
                                          !.tries = 1, !.hops = 0])
          /\ UNCHANGED <<got, lost>>
       \/ /\ flow[f].sends = {} /\ Flows2(f, [NewFlow EXCEPT !.at = "done"])
          /\ got' = [got EXCEPT ![f] = [c \in Chats |-> 0]] /\ lost' = lost \ {f}
    /\ UNCHANGED <<cand, moved>>

\* The chat of the reference has received the message.
Receives(f) == got' = [got EXCEPT ![f][ChatOf[flow[f].to]] = @ + 1]
SendEnds(f) == [flow[f] EXCEPT !.to = NoRef, !.tries = 0, !.hops = 0]

\* Fault: the limit is compared with one too many.
AgainOnceMore(f) == flow[f].tries <= MaxTries

Again(f) == flow[f].tries < MaxTries

\* Fault: an answer with a status of 500 and above is tried again.
AnswersRetried(f) ==
    /\ flow[f].to \notin moved
    /\ \/ Flows2(f, SendEnds(f)) /\ Receives(f)
       \/ /\ Again(f) /\ Flows2(f, [flow[f] EXCEPT !.tries = @ + 1])
          /\ UNCHANGED got \/ Receives(f)
       \/ Flows2(f, SendEnds(f)) /\ UNCHANGED got

\* Telegram answers: the message is sent, or it is refused; an answer ends the
\* tries, even one that says the server failed after it had sent the message.
Answered(f) ==
    /\ flow[f].to \notin moved
    /\ Flows2(f, SendEnds(f))
    /\ Receives(f) \/ UNCHANGED got

\* The group has moved: the message goes to the new reference, once, with
\* tries of its own.
Redirected(f) ==
    /\ flow[f].to \in moved
    /\ Flows2(f, IF flow[f].hops = 0
                 THEN [flow[f] EXCEPT !.to = MovesTo[@], !.tries = 1, !.hops = 1]
                 ELSE SendEnds(f))
    /\ UNCHANGED got

\* executeWithRetry: no answer came, whether or not the message was sent.
Unanswered(f) ==
    /\ Flows2(f, IF Again(f) THEN [flow[f] EXCEPT !.tries = @ + 1] ELSE SendEnds(f))
    /\ \/ flow[f].to \notin moved /\ Receives(f)
       \/ UNCHANGED got

Sends(f) ==
    /\ FlowAt(f, "send") /\ flow[f].to # NoRef
    /\ \/ (Answered(f) \/ Redirected(f)) /\ UNCHANGED lost
       \/ Unanswered(f) /\ lost' = lost \cup {f}
    /\ UNCHANGED <<cand, moved>>

Going(steps) == \E f \in Flows : flow[f].at \in steps

\* A group becomes a supergroup.
GroupMoves ==
    /\ Going({"new", "seed", "read", "join", "send"})
    /\ \E r \in DOMAIN MovesTo \ moved : moved' = moved \cup {r}
    /\ UNCHANGED <<cand, flow, got, lost>>

\* The time to rest, 30 or 60 minutes, passes; nobody sees it who has read
\* the candidates.
Rested(i) ==
    /\ Going({"new", "seed", "read"})
    /\ cand[i].rests /\ cand' = [cand EXCEPT ![i].rests = FALSE]
    /\ UNCHANGED <<moved, flow, got, lost>>

TelegramNext ==
    \/ \E f \in Flows : \/ BeginsFlow(f) \/ SyncsSeed(f) \/ ReadsCandidates(f) \/ Joins(f)
                        \/ Targets(f) \/ NextTarget(f) \/ Sends(f)
    \/ GroupMoves
    \/ \E i \in Rows : Rested(i)

TelegramSpec == TelegramInit /\ [][TelegramNext]_telegramVars

-----------------------------------------------------------------------------
MaybeRef == Refs \cup {NoRef}
Row == [seed : SUBSET Seeds, chat : MaybeRef, approved : BOOLEAN, joined : BOOLEAN,
        rests : BOOLEAN]

TelegramTypeOK ==
    /\ cand \in [Rows -> Row] /\ moved \subseteq DOMAIN MovesTo /\ lost \subseteq Flows
    /\ flow \in [Flows -> [at : {"new", "seed", "read", "join", "send", "done", "failed"},
                           seeds : SUBSET Seeds, list : SUBSET [row : Rows, ref : MaybeRef],
                           sends : SUBSET Refs, goals : SUBSET Refs,
                           to : MaybeRef, hops : {0, 1}, tries : 0 .. MaxTries]]
    /\ got \in [Flows -> [Chats -> Nat]]

\* One candidate that the bot does not reach, has no reference, or has moved
\* holds up nobody: the scheduling of drafts fails on a candidate only if
\* another row has come to stand for the same reference.
BlockedOnlyByTwins ==
    \A f \in Flows : FlowAt(f, "failed") =>
        \A next \in flow[f].list : \E j \in Rows \ {next.row} :
            /\ cand[j].seed # {}
            /\ Now(Reference(cand[j])) = Now(next.ref)

\* A chat gets the message of a call twice only if an answer of Telegram's was
\* lost, or if two of the references sent to name the chat.
TwiceOnlyWhenLost ==
    \A f \in Flows, c \in Chats :
        got[f][c] > 1 =>
            \/ f \in lost
            \/ \E r, q \in flow[f].goals : r # q /\ ChatOf[r] = c /\ ChatOf[q] = c
=============================================================================
