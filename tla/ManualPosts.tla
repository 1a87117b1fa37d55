----------------------------- MODULE ManualPosts -----------------------------
(***************************************************************************)
(* publishManualPost of publishing.service.ts: an operator's post to       *)
(* StockTwits, through dlvr.it or in a browser, and then to the channels   *)
(* of Discord servers (discord-ui.publisher.ts).  It writes no publish     *)
(* job: what became of the post is known from the answer alone, and from   *)
(* the outcome charged to the account.                                     *)
(*                                                                         *)
(* A broadcast lasts minutes, in a visible window, on a profile that all   *)
(* broadcasts share; its window may be closed, and the next one opened.    *)
(***************************************************************************)
EXTENDS Naturals, Sequences, FiniteSets

CONSTANTS Posts,       \* operators' posts
          Requests,    \* the posts that meet: post -> what was asked for
          Channels,    \* Discord channels
          NoPost,      \* nobody's window
          LoginOf,     \* post -> the Discord login that comes with it, or the configured one
          NoLogin,     \* nobody is logged in
          MaxChannels  \* DISCORD_UI_MAX_CHANNELS_PER_SESSION

\* A request that asks for Discord may come without a link, when none is
\* configured either.  A link is the set of the channels it leads to: several
\* for a server, one for a channel, none if it is no link of Discord.
ASSUME ManualConstants ==
    /\ NoPost \notin Posts /\ MaxChannels \in Nat
    /\ DOMAIN LoginOf = Posts
    /\ \A p \in Posts : LoginOf[p] # NoLogin
    /\ Requests \subseteq [Posts -> [path : {"none", "dlvrit", "browser"}, pooled : BOOLEAN,
                                     items : Nat, discord : BOOLEAN,
                                     links : Seq(SUBSET Channels)]]

VARIABLES ask,       \* the requests
          post,      \* how far each is
          cleared,   \* <<post, item>>: sent off to StockTwits without an error
          said,      \* the messages the channels show
          user,      \* the login whose session the Discord profile holds
          window,    \* the post whose broadcast holds the Discord profile
          closed,    \* posts whose window was closed while they broadcast
          charges,   \* post -> outcomes written to its account
          noted      \* <<post, link, channel, how>>: what became of a channel (history)

manualVars == <<ask, post, cleared, said, user, window, closed, charges, noted>>

NewPost == [at |-> "new", item |-> 1, failed |-> FALSE, st |-> FALSE, ok |-> FALSE, link |-> 1,
            left |-> {}, sent |-> {}, here |-> {}, rows |-> {}, bad |-> FALSE,
            tries |-> 1, way |-> "found"]

Logins == {LoginOf[p] : p \in Posts}

\* Attempts at the channels of a server, each after a new login.
AuthAttempts == 3

ManualInit ==
    /\ ask \in Requests
    /\ post = [p \in Posts |-> NewPost]
    /\ cleared = {} /\ said = {} /\ user = NoLogin
    /\ window = NoPost /\ closed = {} /\ noted = {}
    /\ charges = [p \in Posts |-> <<>>]

PostAt(p, step) == post[p].at = step
Turns(p, r) == post' = [post EXCEPT ![p] = r]
LinksOf(p) == IF ask[p].discord THEN ask[p].links ELSE <<>>

\* On to Discord, if it is asked for; without a link it is an error.
AfterStocktwits(p, r) ==
    [r EXCEPT !.at = IF LinksOf(p) = <<>> THEN "audit" ELSE "open", !.item = 1, !.failed = FALSE,
              !.bad = ask[p].discord /\ LinksOf(p) = <<>>]

\* Fault: an outcome that cannot be written throws, and the throw is charged.
ChargeThrows(p, ok) ==
    \/ charges' = [charges EXCEPT ![p] = IF ask[p].pooled THEN Append(@, ok) ELSE @]
    \/ charges' = [charges EXCEPT ![p] = IF ask[p].pooled THEN @ \o <<ok, FALSE>> ELSE @]

\* recordAccountOutcomeSafe: written or not, it never throws.  Credentials
\* that came with the request belong to no account of the pool.
Charge(p, ok) ==
    \/ ask[p].pooled /\ charges' = [charges EXCEPT ![p] = Append(@, ok)]
    \/ UNCHANGED charges

\* A request that fails a check is rejected before anything is done.
Rejected(p) == Turns(p, [post[p] EXCEPT !.at = "thrown"])

\* The account, or Discord at once: a post that is for Discord only has nothing
\* that could fail on StockTwits.
CheckedOut(p) ==
    Turns(p, IF ask[p].path = "none" THEN [AfterStocktwits(p, post[p]) EXCEPT !.st = TRUE]
             ELSE [post[p] EXCEPT !.at = "pick"])

\* The checks of the request, and the synchronisation of the accounts.
Checks(p) ==
    /\ PostAt(p, "new")
    /\ Rejected(p) \/ CheckedOut(p)
    /\ UNCHANGED <<ask, cleared, said, user, window, closed, charges, noted>>

\* The account serves the post.
Serves(p) == Turns(p, [post[p] EXCEPT !.at = "item"]) /\ UNCHANGED charges

\* No account is eligible, or it is not linked to dlvr.it or has no
\* credentials, which is charged to it.
ServesNot(p) == ask[p].pooled /\ Turns(p, AfterStocktwits(p, post[p])) /\ Charge(p, FALSE)

Picks(p) ==
    /\ PostAt(p, "pick")
    /\ Serves(p) \/ ServesNot(p)
    /\ UNCHANGED <<ask, cleared, said, user, window, closed, noted>>

\* Fault: one message that went without an error makes the post a success.
AnySuccess(p, failed) == ~failed \/ \E i \in 1 .. ask[p].items : <<p, i>> \in cleared'

\* A post is a success if no message failed.
AllSucceed(p, failed) == ~failed

\* What is known of a message is whether it came back with an error: a dry run
\* sends nothing, dlvr.it answers a refusal it does not mark like a post it took,
\* and the browser may take a stranger's message for its own.
Comes(p, i, fails) == cleared' = IF fails THEN cleared ELSE cleared \cup {<<p, i>>}

\* One message; after the last one the outcome is charged.
PostsItem(p) ==
    LET i == post[p].item
    IN  /\ PostAt(p, "item")
        /\ \E fails \in BOOLEAN :
              LET failed == post[p].failed \/ fails
                  ok == AllSucceed(p, failed)
              IN  /\ Comes(p, i, fails)
                  /\ IF i < ask[p].items
                     THEN /\ Turns(p, [post[p] EXCEPT !.item = @ + 1, !.failed = failed])
                          /\ UNCHANGED charges
                     ELSE /\ Turns(p, [AfterStocktwits(p, post[p]) EXCEPT !.st = ok])
                          /\ Charge(p, ok)
        /\ UNCHANGED <<ask, said, user, window, closed, noted>>

\* The browser does not start, or the login fails: no message, one charge.
BrowserFails(p) ==
    /\ PostAt(p, "item") /\ post[p].item = 1 /\ ask[p].path = "browser"
    /\ Turns(p, AfterStocktwits(p, post[p])) /\ Charge(p, FALSE)
    /\ UNCHANGED <<ask, cleared, said, user, window, closed, noted>>

-----------------------------------------------------------------------------
\* The broadcast is over: what it found is kept for the answer.
Over(r) == [r EXCEPT !.at = "audit", !.link = 1, !.left = {}, !.here = {}, !.sent = {},
                     !.tries = 1, !.way = "found"]

\* On to the next link after a pause, or the window is closed.
NextLink(p, r) ==
    IF r.link < Len(LinksOf(p)) THEN [Over(r) EXCEPT !.at = "gap", !.link = r.link,
                                                       !.way = r.way] ELSE Over(r)

LinkDone(p, r) == NextLink(p, [r EXCEPT !.rows = @ \cup r.here])

\* Fault: a server that fails ends the broadcast.
LinkFailsAll(p, r) == Over([r EXCEPT !.bad = TRUE, !.rows = {}])

\* A server that fails is noted, without the rows it has had.
LinkFails(p, r) == NextLink(p, [r EXCEPT !.bad = TRUE])

\* The row of a channel; then the next channel, after a pause.
ChannelDone(p, c, how) ==
    LET r == [post[p] EXCEPT !.here = @ \cup {[link |-> post[p].link, chan |-> c, how |-> how]},
                             !.left = @ \ {c}, !.sent = {}]
    IN  IF r.left = {} THEN LinkDone(p, r) ELSE [r EXCEPT !.at = "pause"]

Broadcasts(p, r) ==
    /\ Turns(p, r)
    /\ window' = IF window = p /\ r.at = "audit" THEN NoPost ELSE window
    /\ UNCHANGED <<ask, cleared, closed, charges>>

\* createBrowserSession: Firefox refuses a profile that is in use.
Opens(p) ==
    /\ PostAt(p, "open")
    /\ \/ /\ window = NoPost /\ window' = p
          /\ Turns(p, [post[p] EXCEPT !.at = "link"])
       \/ /\ Turns(p, Over([post[p] EXCEPT !.bad = TRUE]))
          /\ UNCHANGED window
    /\ UNCHANGED <<ask, cleared, said, user, closed, charges, noted>>

\* The next link, when it is none: noted, without a pause.
SkipsLink(p) ==
    LET bad == [post[p] EXCEPT !.bad = TRUE]
    IN  /\ PostAt(p, "link") /\ LinksOf(p)[bad.link] = {}
        /\ Broadcasts(p, IF bad.link < Len(LinksOf(p)) THEN [bad EXCEPT !.link = @ + 1]
                                                     ELSE Over(bad))
        /\ UNCHANGED <<said, user, noted>>

\* isLoginRequired says no: a session is found, or a page that is about to show
\* the login form does not show it yet.
LooksLoggedIn(p, r) == Broadcasts(p, r) /\ UNCHANGED user

\* loginWithCredentials fills in the form, and the site lets the login in.
FormLogin(p, r) ==
    /\ user = NoLogin /\ user' = LoginOf[p]
    /\ Broadcasts(p, [r EXCEPT !.way = "form"])

\* A code, a captcha or a delay: somebody logs in by hand, as whoever it is.
HandLogin(p, r) ==
    /\ user = NoLogin /\ user' \in Logins
    /\ Broadcasts(p, [r EXCEPT !.way = "hand"])

\* No credentials, no form, wrong credentials, nobody there to log in, or a
\* page that does not open.
LoginFails(p) == Broadcasts(p, LinkFails(p, post[p])) /\ UNCHANGED user

\* ensureLoggedIn: a session that is found is used, whoever it belongs to.
EnsuresLogin(p, r) ==
    /\ p \notin closed
    /\ LooksLoggedIn(p, r) \/ FormLogin(p, r) \/ HandLogin(p, r)

\* The page of the link is opened and the login ensured.  The link of a channel
\* needs no search.
Arrives(p) ==
    LET to == LinksOf(p)[post[p].link]
        direct == Cardinality(to) = 1
    IN  /\ PostAt(p, "link") /\ to # {}
        /\ \/ LoginFails(p)
           \/ EnsuresLogin(p, [post[p] EXCEPT !.at = IF direct THEN "channel" ELSE "scan",
                                              !.left = IF direct THEN to ELSE {}])
        /\ UNCHANGED <<said, noted>>

\* The channels the page shows, or the API, or the one of the page's address;
\* those that are for something else are left out, the others cut to the cap.
Chosen(p) == {ch \in SUBSET LinksOf(p)[post[p].link] : Cardinality(ch) <= MaxChannels}

FindsChannels(p) ==
    /\ p \notin closed
    /\ \E ch \in Chosen(p) :
          Broadcasts(p, IF ch = {} THEN LinkDone(p, post[p])
                        ELSE [post[p] EXCEPT !.at = "channel", !.left = ch])
    /\ UNCHANGED user

\* Fault: the login that came with the post is forgotten in the recovery.
RecoversByDefault(p) ==
    /\ user = NoLogin /\ post[p].tries < AuthAttempts /\ p \notin closed
    /\ Broadcasts(p, [post[p] EXCEPT !.tries = @ + 1, !.way = "form"])
    /\ user' \in Logins

\* The login is gone: ensureLoggedIn once more, then the channels again.
RecoversLogin(p) ==
    /\ user = NoLogin /\ post[p].tries < AuthAttempts
    /\ EnsuresLogin(p, [post[p] EXCEPT !.tries = @ + 1])

\* collectGuildChannelsWithAuthRecovery.
Scans(p) ==
    /\ PostAt(p, "scan")
    /\ FindsChannels(p) \/ RecoversLogin(p) \/ LoginFails(p)
    /\ UNCHANGED <<said, noted>>

Delivery(p, c) ==
    [post |-> p, link |-> post[p].link, chan |-> c, by |-> user, way |-> post[p].way]

\* The row of a channel is written.
WritesRow(p, c, how) ==
    /\ Broadcasts(p, ChannelDone(p, c, how))
    /\ noted' = noted \cup {<<p, post[p].link, c, how>>}

\* Read-only, without a composer, or in slow mode: a skip.
SkipsChannel(p, c) == p \notin closed /\ WritesRow(p, c, "skipped")

\* The message is typed and sent off, which the site may not follow.
Submits(p, c) ==
    /\ p \notin closed
    /\ Broadcasts(p, [post[p] EXCEPT !.at = "confirm", !.sent = {c}])
    /\ said' \in {said} \cup (IF user = NoLogin THEN {} ELSE {said \cup {Delivery(p, c)}})
    /\ UNCHANGED noted

\* A channel is skipped, or something fails, or the message is sent.
Enters(p) ==
    /\ PostAt(p, "channel")
    /\ \E c \in post[p].left :
          \/ (SkipsChannel(p, c) \/ WritesRow(p, c, "failed")) /\ UNCHANGED said
          \/ Submits(p, c)
    /\ UNCHANGED user

\* confirmMessageSent: once the composer no longer holds the opening of the
\* message, or cannot be read, the text of the page is searched for it.  The
\* opening may stand there for another message, an earlier or a stranger's, or
\* for one the site has not sent: that it is found tells nothing of the channel.
Confirmed(p, c) == p \notin closed /\ WritesRow(p, c, "posted")

\* A notice that the site is slow counts as a skip; no sight of the message in
\* time, or an error before or after that, is a failure.
Confirms(p) ==
    /\ PostAt(p, "confirm")
    /\ \E c \in post[p].sent : SkipsChannel(p, c) \/ WritesRow(p, c, "failed") \/ Confirmed(p, c)
    /\ UNCHANGED <<said, user>>

\* The pauses need the window.  Without it the one between channels fails the
\* server, the one between servers the whole broadcast, and all its rows.
Pauses(p) ==
    /\ PostAt(p, "pause")
    /\ Broadcasts(p, IF p \in closed THEN LinkFails(p, post[p])
                     ELSE [post[p] EXCEPT !.at = "channel"])
    /\ UNCHANGED <<said, user, noted>>

PausesLong(p) ==
    /\ PostAt(p, "gap")
    /\ Broadcasts(p, IF p \in closed THEN Over([post[p] EXCEPT !.bad = TRUE, !.rows = {}])
                     ELSE [post[p] EXCEPT !.at = "link", !.link = @ + 1])
    /\ UNCHANGED <<said, user, noted>>

\* Somebody closes the window, or the browser ends.
WindowCloses(p) ==
    /\ window = p /\ p \notin closed /\ closed' = closed \cup {p}
    /\ UNCHANGED <<ask, post, cleared, said, user, window, charges, noted>>

\* Discord ends the session of a profile that is in use; seen where a page is
\* opened next.
SiteLogsOut(p) ==
    /\ window = p /\ post[p].at \in {"link", "scan", "channel"}
    /\ user # NoLogin /\ user' = NoLogin
    /\ UNCHANGED <<ask, post, cleared, said, window, closed, charges, noted>>

\* Discord has succeeded if nothing failed and one channel at least was posted
\* to; skips count for nothing.
DiscordOK(p) ==
    \/ ~ask[p].discord
    \/ /\ ~post[p].bad /\ \A row \in post[p].rows : row.how # "failed"
       /\ \E row \in post[p].rows : row.how = "posted"

\* The audit, which may throw away the answer, and the answer.
AnswersPost(p) ==
    /\ PostAt(p, "audit")
    /\ \/ Turns(p, [NewPost EXCEPT !.at = "answered", !.rows = post[p].rows, !.st = post[p].st,
                                   !.ok = post[p].st /\ DiscordOK(p)])
       \/ Turns(p, [NewPost EXCEPT !.at = "thrown"])
    /\ UNCHANGED <<ask, cleared, said, user, window, closed, charges, noted>>

PostStep(p) ==
    \/ Checks(p) \/ Picks(p) \/ PostsItem(p) \/ BrowserFails(p) \/ Opens(p) \/ SkipsLink(p)
    \/ Arrives(p) \/ Scans(p) \/ Enters(p) \/ Confirms(p)
    \/ Pauses(p) \/ PausesLong(p) \/ AnswersPost(p)

ManualNext == \E p \in Posts : PostStep(p) \/ WindowCloses(p) \/ SiteLogsOut(p)

ManualSpec == ManualInit /\ [][ManualNext]_manualVars

-----------------------------------------------------------------------------
Deliveries == [post : Posts, link : Nat, chan : Channels, by : Logins,
               way : {"found", "form", "hand"}]
ChannelRows == [link : Nat, chan : Channels, how : {"posted", "skipped", "failed"}]

ManualTypeOK ==
    /\ ask \in Requests
    /\ post \in [Posts -> [at : {"new", "pick", "item", "open", "link", "scan", "channel",
                                 "confirm", "pause", "gap", "audit", "answered", "thrown"},
                           item : Nat, failed : BOOLEAN, st : BOOLEAN, ok : BOOLEAN, link : Nat,
                           left : SUBSET Channels, sent : SUBSET Channels,
                           here : SUBSET ChannelRows, rows : SUBSET ChannelRows,
                           bad : BOOLEAN, tries : 1 .. AuthAttempts,
                           way : {"found", "form", "hand"}]]
    /\ cleared \subseteq Posts \X Nat /\ said \subseteq Deliveries
    /\ noted \subseteq Posts \X Nat \X Channels \X {"posted", "skipped", "failed"}
    /\ user \in Logins \cup {NoLogin}
    /\ window \in Posts \cup {NoPost} /\ closed \subseteq Posts
    /\ charges \in [Posts -> Seq(BOOLEAN)]

\* An answer of success leaves no failure out: every message for StockTwits
\* came back without an error, and every link of the request, which had one, led
\* to Discord and was walked in a window that nobody closed, with no channel that
\* failed and one at least that was confirmed.  A failure is noted in several
\* places, and the rows of a server that fails later are dropped with what they
\* say: none may be lost on the way to the answer.
SuccessIsWhole ==
    \A p \in Posts :
        PostAt(p, "answered") /\ post[p].ok =>
            /\ ask[p].path # "none" => \A i \in 1 .. ask[p].items : <<p, i>> \in cleared
            /\ ask[p].discord =>
                  /\ LinksOf(p) # <<>> /\ \A n \in DOMAIN LinksOf(p) : LinksOf(p)[n] # {}
                  /\ p \notin closed
                  /\ \A m \in noted : m[1] = p => m[4] # "failed"
                  /\ \E m \in noted : m[1] = p /\ m[4] = "posted"

\* What the broadcast has confirmed is in the answer, whatever failed before or
\* after it; only a window that was closed takes confirmed rows with it.
ConfirmedReported ==
    \A m \in noted :
        m[4] = "posted" /\ PostAt(m[1], "answered") /\ m[1] \notin closed =>
            [link |-> m[2], chan |-> m[3], how |-> "posted"] \in post[m[1]].rows

\* A message appears under another login than the one that came with its post
\* only if the broadcast has used the session it found or somebody has logged
\* in by hand: once it has logged in itself no other broadcast, and no recovery
\* of a login that Discord has ended, changes whose session it posts with.
SenderExplained == \A m \in said : m.by # LoginOf[m.post] => m.way # "form"

\* A post charges its account once at most, with what the answer says of
\* StockTwits, and credentials of the request charge nobody.
ChargedOnce ==
    \A p \in Posts :
        /\ Len(charges[p]) <= (IF ask[p].pooled THEN 1 ELSE 0)
        /\ PostAt(p, "answered") /\ charges[p] # <<>> => charges[p][1] = post[p].st
=============================================================================
