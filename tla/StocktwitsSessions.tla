------------------------- MODULE StocktwitsSessions -------------------------
(***************************************************************************)
(* The browser sessions of stocktwits.publisher.ts: what a call opens, how *)
(* it logs in, how it submits a message and how it decides that the        *)
(* message was posted.  The page is the environment: what it shows and     *)
(* when it answers is chosen by the model, what the code concludes is not. *)
(*                                                                         *)
(* A browser is bound to a profile directory.  Opening one kills whatever  *)
(* browser still runs on that directory.  After the Post button is clicked *)
(* three things race: the API response of the page, the listener's timer,  *)
(* and the steps of the call itself.                                       *)
(***************************************************************************)
EXTENDS Naturals, FiniteSets

CONSTANTS Calls,      \* calls of the publisher
          Kinds,      \* the operations called: see OwnProfile and MessagesOf
          Accounts,   \* StockTwits accounts
          Mixes,      \* the calls that meet: call -> its operation and account
          NoAccount,  \* nobody: no cookies, or no handle found on the page
          NoCall,     \* no browser runs on the profile
          MaxForeign  \* messages of strangers that appear while the calls run

ASSUME SessionConstants ==
    /\ NoAccount \notin Accounts /\ NoCall \notin Calls
    /\ Kinds \subseteq {"publish", "manual", "batch", "engage", "discover", "bootstrap", "status"}
    /\ Kinds # {} /\ Mixes \subseteq [Calls -> [kind : Kinds, acct : Accounts]]
    /\ MaxForeign \in Nat

VARIABLES call,     \* the progress of each call
          browser,  \* profile -> the call whose browser runs on it
          cookies,  \* profile -> the account logged in there
          feed,     \* the messages StockTwits shows on the symbol pages
          up,       \* the process runs
          dry       \* STOCKTWITS_DRY_RUN

sessionVars == <<call, browser, cookies, feed, up, dry>>

\* The publisher's attempts at one message, the symbols of a batch.
PostAttempts == 2
BatchSize == 2

Default == NoAccount
Profiles == Accounts \cup {Default}

\* Only the manual posts and the warm-up endpoint pass the account's handle;
\* the others pass bare credentials, and run on the default profile.
OwnProfile(kind) == kind \in {"manual", "batch", "engage"}

\* Fault: the handle of a batch is not passed on.
ProfileForgotten(c) == IF call[c].kind \in {"manual", "engage"} THEN call[c].acct ELSE Default

Profile(c) == IF OwnProfile(call[c].kind) THEN call[c].acct ELSE Default

MessagesOf(kind) == CASE kind = "batch" -> BatchSize
                 [] kind \in {"publish", "manual"} -> 1
                 [] OTHER -> 0

Symbols == 1 .. BatchSize
Messages == [by : Accounts, call : Calls, item : Symbols, n : 1 .. PostAttempts]
Foreign == [by : {NoAccount}, call : {NoCall}, item : Symbols, n : 1 .. MaxForeign]

Own(m, c, i) == m.call = c /\ m.item = i

\* The messages on the page of symbol i.
Shown(i) == {m \in feed : m.item = i}

Steps == {"idle", "unlock", "launch", "login", "compose", "submit", "check", "await",
          "confirm", "shot", "next", "close", "done"}

Asked(r) == [pc |-> "idle", kind |-> r.kind, acct |-> r.acct, found |-> FALSE, item |-> 1,
             try |-> 1, before |-> {}, wire |-> "quiet", api |-> "off", heard |-> {},
             got |-> {}, ended |-> "no"]

Live(c) == browser[Profile(c)] = c

At(c, step) == up /\ call[c].pc = step

\* Call c continues with the record r, everything else is left alone.
Goes(c, r) == call' = [call EXCEPT ![c] = r]

\* The call is over as far as its caller is concerned; the finally block closes.
Ends(r, how) == [r EXCEPT !.pc = "close", !.before = {}, !.ended = how]

\* A throw while one message is handled: publish() fails, a batch notes the
\* failure of the symbol and goes on with the next one.
ItemFails(r) ==
    IF r.kind = "batch" THEN [r EXCEPT !.pc = "next", !.before = {}]
    ELSE Ends(r, "threw")

\* A message id is found for the symbol.
ItemPosted(r, m) ==
    [r EXCEPT !.pc = IF r.kind = "batch" THEN "next" ELSE "shot",
              !.before = {},
              !.got = @ \cup {[item |-> r.item, id |-> m, answered |-> r.heard # {}]}]

SessionInit ==
    /\ \E mix \in Mixes : call = [c \in Calls |-> Asked(mix[c])]
    /\ browser = [p \in Profiles |-> NoCall]
    /\ cookies = [p \in Profiles |-> NoAccount]
    /\ feed = {} /\ up = TRUE
    /\ dry \in BOOLEAN

Begin(c) ==
    /\ At(c, "idle")
    /\ Goes(c, [call[c] EXCEPT !.pc = "unlock"])
    /\ UNCHANGED <<browser, cookies, feed, up, dry>>

\* releaseStaleChromeProfileLock: whichever browser holds the profile is killed.
Unlock(c) ==
    /\ At(c, "unlock")
    /\ Goes(c, [call[c] EXCEPT !.pc = "launch"])
    /\ browser' = [browser EXCEPT ![Profile(c)] = NoCall]
    /\ UNCHANGED <<cookies, feed, up, dry>>

\* launchPersistentContext fails when a browser was started on the profile
\* since; getSessionStatus only looks at the page and closes.
Launch(c) ==
    /\ At(c, "launch")
    /\ \/ /\ Goes(c, [call[c] EXCEPT !.pc = "done", !.ended = "threw"])
          /\ UNCHANGED browser
       \/ /\ browser[Profile(c)] = NoCall
          /\ Goes(c, IF call[c].kind = "status" THEN Ends(call[c], "returned")
                     ELSE [call[c] EXCEPT !.pc = "login"])
          /\ browser' = [browser EXCEPT ![Profile(c)] = c]
    /\ UNCHANGED <<cookies, feed, up, dry>>

\* detectAccountMismatch: the page names somebody, and not the account.
Mismatch(c, read) == read \notin {NoAccount, call[c].acct}

\* readLoggedInHandle takes the first short profile link of the page, which is
\* the account's own, a stranger's, or not there.
HandlesRead == Accounts \cup {NoAccount}

\* warmUpSession reads and likes on pages of other symbols: whatever fails on
\* them is swallowed, and the call goes on to its messages.
WarmedUp(r) == [r EXCEPT !.pc = "compose"]

\* Discovery and the bootstrap may fail on the pages they visit next.
Visited(r) == {Ends(r, "returned"), Ends(r, "threw")}

\* After the login: the messages of publish() and of a batch, or nothing more.
LoggedIn(r) == IF MessagesOf(r.kind) > 0 THEN {WarmedUp(r)} ELSE Visited(r)

\* The session found on the profile is used as it is: the page looks logged in
\* (a page that is gone or has not rendered does too) and names nobody else;
\* or a challenge hid the page and it is not examined once the challenge is
\* gone; or the cookies of the other account could not be cleared.
UsesFound(c) ==
    /\ \E r \in LoggedIn([call[c] EXCEPT !.found = TRUE]) : Goes(c, r)
    /\ UNCHANGED cookies

\* forceLogoutAndReload has cleared the cookies of somebody else, or there were
\* none.
LoggedOut(c, read) == Live(c) /\ (Mismatch(c, read) \/ cookies[Profile(c)] = NoAccount)

\* Fault: the session of the other account is not logged out first.
SignsInBeside(c) ==
    /\ Live(c)
    /\ \E r \in LoggedIn([call[c] EXCEPT !.found = FALSE]) : Goes(c, r)
    /\ cookies' = [cookies EXCEPT ![Profile(c)] = IF @ = NoAccount THEN call[c].acct ELSE @]

\* The form of the sign-in page is filled in and accepted.
SignsIn(c) ==
    /\ \E read \in HandlesRead : LoggedOut(c, read)
    /\ \E r \in LoggedIn([call[c] EXCEPT !.found = FALSE]) : Goes(c, r)
    /\ cookies' = [cookies EXCEPT ![Profile(c)] = call[c].acct]

\* A challenge that nobody solves, no form, or a login that is not confirmed.
LoginStops(c) ==
    /\ Goes(c, Ends(call[c], "threw"))
    /\ cookies' \in {cookies} \cup {[cookies EXCEPT ![Profile(c)] = a] :
                        a \in {x \in {NoAccount, call[c].acct} :
                                 \E read \in HandlesRead : LoggedOut(c, read)}}

\* checkAccountMutedStatus, once the session is used.
Restricted(c) ==
    /\ MessagesOf(call[c].kind) > 0
    /\ Goes(c, Ends(call[c], "threw")) /\ UNCHANGED cookies

\* performLoginIfNeeded, with the challenges before and within it, and what
\* its callers check next.
Login(c) ==
    /\ At(c, "login")
    /\ UsesFound(c) \/ SignsIn(c) \/ LoginStops(c) \/ Restricted(c)
    /\ UNCHANGED <<browser, feed, up, dry>>

\* The page of the symbol, its composer or the text in it is not there.
NoComposer(c) == Goes(c, ItemFails(call[c]))

\* snapshotMessageIds: the ids on the page, or none when reading them fails.
Snapshots(c) == {Shown(call[c].item), {}}

\* The message is typed; the listener is put on, with its timer.
Typed(c) ==
    /\ Live(c)
    /\ \E ids \in Snapshots(c) :
         Goes(c, [call[c] EXCEPT !.pc = "submit", !.before = ids,
                                 !.wire = "quiet", !.api = "open"])

\* navigateToSymbolFeed and executeStrictSymbolComposerFlow.
Compose(c) ==
    /\ At(c, "compose")
    /\ NoComposer(c) \/ Typed(c)
    /\ UNCHANGED <<browser, cookies, feed, up, dry>>

Message(c) ==
    [by |-> cookies[Profile(c)], call |-> c, item |-> call[c].item, n |-> call[c].try]

Submitted(c) == [call[c] EXCEPT !.pc = "check"]

\* Neither the button beside the composer nor one near it is enabled.
NoButton(c) == ~dry /\ Goes(c, ItemFails(call[c])) /\ UNCHANGED feed

\* A dialog asks for a cashtag, and its button cannot be found.
CashtagAsked(c) == Goes(c, ItemFails(call[c])) /\ UNCHANGED feed

\* A dry run clicks no button; clickWithFallbacks swallows a click that fails.
NothingClicked(c) == Goes(c, Submitted(c)) /\ UNCHANGED feed

\* StockTwits takes the message; the response may be one the listener knows.
Accepted(c, r) ==
    /\ Live(c) /\ Message(c).by # NoAccount /\ Message(c) \notin feed
    /\ feed' = feed \cup {Message(c)}
    /\ \E w \in IF call[c].api = "open" THEN {"id", "quiet"} ELSE {"quiet"} :
         Goes(c, [r EXCEPT !.wire = w])

\* StockTwits refuses the message.
Refused(c) ==
    /\ Live(c)
    /\ Goes(c, [Submitted(c) EXCEPT !.wire = "refusal"]) /\ UNCHANGED feed

\* submitInlineSymbolPost, handlePostConfirmationModal and finalizeDialogPost.
\* A dry run leaves out the first only: a dialog that is open is posted still.
Submit(c) ==
    /\ At(c, "submit")
    /\ \/ NoButton(c) \/ CashtagAsked(c) \/ NothingClicked(c)
       \/ Accepted(c, Submitted(c)) \/ Refused(c)
    /\ UNCHANGED <<browser, cookies, up, dry>>

\* waitForPublishConfirmation clicks Post in a dialog that is still open.
PostsInDialog(c) ==
    /\ At(c, "confirm")
    /\ Accepted(c, call[c])
    /\ UNCHANGED <<browser, cookies, up, dry>>

\* interceptPostApiResponse: the response resolves or rejects the promise.
\* Until the call awaits it nobody handles a rejection, and an unhandled
\* rejection ends the process.
Respond(c) ==
    /\ up /\ Live(c) /\ call[c].api = "open" /\ call[c].wire # "quiet"
    /\ Goes(c, [call[c] EXCEPT !.api = call[c].wire, !.wire = "quiet",
                               !.heard = @ \cup {call[c].try}])
    /\ up' = (call[c].wire = "refusal" => call[c].pc = "await")
    /\ UNCHANGED <<browser, cookies, feed, dry>>

\* Fault: only the end of the page takes the listener off.
TimerForgotten(c) ==
    /\ At(c, "next") /\ call[c].api = "open"
    /\ Goes(c, [call[c] EXCEPT !.api = "timeout"])
    /\ UNCHANGED <<browser, cookies, feed, up, dry>>

\* The listener's timer: the promise resolves to null.  A timer that fires
\* before the call waits for it differs in nothing from an answer that is late.
TimerFires(c) ==
    /\ At(c, "await") \/ At(c, "next")
    /\ call[c].api = "open"
    /\ Goes(c, [call[c] EXCEPT !.api = "timeout"])
    /\ UNCHANGED <<browser, cookies, feed, up, dry>>

\* checkPostSubmitRestrictions searches the text of the whole page, strangers'
\* messages included, for the phrases of a restriction.
Check(c) ==
    /\ At(c, "check")
    /\ \/ Goes(c, [call[c] EXCEPT !.pc = "await"])
       \/ Goes(c, ItemFails(call[c]))
    /\ UNCHANGED <<browser, cookies, feed, up, dry>>

\* Fault: a rejected promise is caught and taken for "no id".
AwaitSwallowsRefusal(c) ==
    /\ At(c, "await") /\ call[c].api \in {"refusal", "timeout"}
    /\ Goes(c, [call[c] EXCEPT !.pc = "confirm"])
    /\ UNCHANGED <<browser, cookies, feed, up, dry>>

\* Fault: the page is searched although the API gave the id.
AwaitIgnoresId(c) ==
    /\ At(c, "await") /\ call[c].api \in {"id", "timeout"}
    /\ Goes(c, [call[c] EXCEPT !.pc = "confirm"])
    /\ UNCHANGED <<browser, cookies, feed, up, dry>>

\* await apiIdPromise: an id, a rejection, or null and the page is searched.
Await(c) ==
    /\ At(c, "await")
    /\ \/ /\ call[c].api = "id"
          /\ \E m \in feed : /\ Own(m, c, call[c].item) /\ m.n = call[c].try
                             /\ Goes(c, ItemPosted(call[c], m))
       \/ /\ call[c].api = "refusal"
          /\ Goes(c, ItemFails(call[c]))
       \/ /\ call[c].api = "timeout"
          /\ Goes(c, [call[c] EXCEPT !.pc = "confirm"])
    /\ UNCHANGED <<browser, cookies, feed, up, dry>>

\* Fault: the attempts are counted from one too low.
ConfirmOnceMore(c) ==
    /\ At(c, "confirm")
    /\ \/ Live(c) /\ call[c].try <= PostAttempts
          /\ Goes(c, [call[c] EXCEPT !.pc = "compose", !.try = @ + 1])
       \/ Goes(c, ItemFails(call[c]))
    /\ UNCHANGED <<browser, cookies, feed, up, dry>>

\* waitForPublishConfirmation takes any id that the snapshot does not hold.
\* No id before the timeout, or a transient error on the page, and the message
\* is submitted once more; another error, or an open dialog, throws.
Confirm(c) ==
    /\ At(c, "confirm")
    /\ \/ /\ Live(c)
          /\ \E m \in Shown(call[c].item) \ call[c].before : Goes(c, ItemPosted(call[c], m))
       \/ /\ Live(c) /\ call[c].try < PostAttempts
          /\ Goes(c, [call[c] EXCEPT !.pc = "compose", !.try = @ + 1])
       \/ Goes(c, ItemFails(call[c]))
    /\ UNCHANGED <<browser, cookies, feed, up, dry>>

\* publish() takes its screenshot inside the try: when that throws, the
\* message that was posted is reported as failed.
Screenshot(c) ==
    /\ At(c, "shot")
    /\ \/ Live(c) /\ Goes(c, Ends(call[c], "returned"))
       \/ Goes(c, [Ends(call[c], "threw") EXCEPT !.got = {}])
    /\ UNCHANGED <<browser, cookies, feed, up, dry>>

\* publishBatchForManual: the pause between symbols outlasts the listener.
NextItem(c) ==
    /\ At(c, "next") /\ call[c].api # "open"
    /\ Goes(c, IF call[c].item < MessagesOf(call[c].kind)
               THEN [call[c] EXCEPT !.pc = "compose", !.item = @ + 1, !.try = 1, !.heard = {}]
               ELSE Ends(call[c], "returned"))
    /\ UNCHANGED <<browser, cookies, feed, up, dry>>

\* finally: context.close().  What the call knew ends with it.
Close(c) ==
    /\ At(c, "close")
    /\ Goes(c, [Asked(call[c]) EXCEPT !.pc = "done", !.found = call[c].found,
                                      !.ended = call[c].ended])
    /\ browser' = [browser EXCEPT ![Profile(c)] = IF Live(c) THEN NoCall ELSE @]
    /\ UNCHANGED <<cookies, feed, up, dry>>

\* A stranger's message appears on a symbol page that is being looked at.
Stranger(i) ==
    /\ Cardinality({m \in feed : m.call = NoCall}) < MaxForeign
    /\ \E c \in Calls : call[c].item = i /\ call[c].pc \in {"submit", "check", "await", "confirm"}
    /\ feed' = feed \cup {[by |-> NoAccount, call |-> NoCall, item |-> i,
                           n |-> Cardinality({m \in feed : m.call = NoCall}) + 1]}
    /\ UNCHANGED <<call, browser, cookies, up, dry>>

CallStep(c) ==
    \/ Unlock(c) \/ Launch(c) \/ Login(c) \/ Compose(c) \/ Submit(c) \/ Check(c)
    \/ Await(c) \/ Confirm(c) \/ Screenshot(c) \/ NextItem(c) \/ Close(c) \/ TimerFires(c)

SessionNext ==
    \/ \E c \in Calls : Begin(c) \/ CallStep(c) \/ Respond(c) \/ PostsInDialog(c)
    \/ up /\ \E i \in Symbols : Stranger(i)

SessionSpec == SessionInit /\ [][SessionNext]_sessionVars

-----------------------------------------------------------------------------
\* Node runs every call that has a step to take, and every timer.
SessionFairness == \A c \in Calls : WF_sessionVars(CallStep(c))

SessionTypeOK ==
    /\ call \in [Calls -> [pc : Steps, kind : Kinds, acct : Accounts,
                           found : BOOLEAN, item : Symbols,
                           try : 1 .. PostAttempts, before : SUBSET (Messages \cup Foreign),
                           wire : {"quiet", "id", "refusal"},
                           api : {"off", "open", "id", "refusal", "timeout"},
                           heard : SUBSET (1 .. PostAttempts),
                           got : SUBSET [item : Symbols, id : Messages \cup Foreign,
                                         answered : BOOLEAN],
                           ended : {"no", "returned", "threw"}]]
    /\ browser \in [Profiles -> Calls \cup {NoCall}]
    /\ cookies \in [Profiles -> Accounts \cup {NoAccount}]
    /\ feed \subseteq Messages \cup Foreign
    /\ up \in BOOLEAN /\ dry \in BOOLEAN

\* A message that StockTwits accepted or refused within the listener's time is
\* not submitted again: the second attempt is for silence only, although
\* refusals and errors on the page come in any order with the steps of the call.
NoResubmitAfterAnswer ==
    \A m \in feed, c \in Calls :
        Own(m, c, call[c].item) /\ m.n = PostAttempts => call[c].heard \subseteq {PostAttempts}

\* A message appears under another account than the one the call was made for
\* only on the shared default profile, and only under a session that the call
\* found there and used; never once the call has signed in itself, however the
\* other calls on the profile come and go.
WrongAccountExplained ==
    \A m \in feed, c \in Calls :
        m.call = c /\ m.by # call[c].acct =>
            Profile(c) = Default /\ call[c].found

\* An id that is not the call's own message is reported as the post's id only
\* when the API never answered: an answer that came in time has precedence over
\* what the page shows.
ForeignIdExplained ==
    \A c \in Calls : \A g \in call[c].got :
        g.answered => Own(g.id, c, g.item)

Working == {"login", "compose", "submit", "check", "await", "confirm", "shot", "next", "close"}

\* A call on the profile of its account loses its browser only to another call
\* for that account: status checks, discovery and the jobs of the worker, which
\* all run on the default profile, leave manual posts alone.
OwnProfileUndisturbed ==
    \A c \in Calls :
        OwnProfile(call[c].kind) /\ call[c].pc \in Working /\ ~Live(c) =>
            \E d \in Calls \ {c} : OwnProfile(call[d].kind) /\ call[d].acct = call[c].acct

\* Every call ends, whatever the page does and whoever takes its browser,
\* unless the process ends first.
CallsEnd == \A c \in Calls : (call[c].pc = "unlock") ~> (call[c].pc = "done" \/ ~up)
=============================================================================
