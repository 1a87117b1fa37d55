-------------------------- MODULE ManualPostsProofs --------------------------
(***************************************************************************)
(* Proofs about ManualPosts, for any posts, requests, channels and logins. *)
(*                                                                         *)
(* Each post has its own conjuncts of the invariant, stated of its record  *)
(* and of what the shared variables hold for it; a step of one post leaves *)
(* those of the others alone.                                              *)
(***************************************************************************)
EXTENDS ManualPosts, TLAPS

PostRecord ==
    [at : {"new", "pick", "item", "open", "link", "scan", "channel", "confirm", "pause", "gap",
           "audit", "answered", "thrown"},
     item : Nat, failed : BOOLEAN, st : BOOLEAN, ok : BOOLEAN, link : Nat,
     left : SUBSET Channels, sent : SUBSET Channels,
     here : SUBSET ChannelRows, rows : SUBSET ChannelRows, bad : BOOLEAN,
     tries : 1 .. AuthAttempts, way : {"found", "form", "hand"}]

Notes == Posts \X Nat \X Channels \X {"posted", "skipped", "failed"}

Unlinked == {"new", "pick", "item"}
Holding == {"link", "scan", "channel", "confirm", "pause", "gap"}

\* The profile belongs to the post that broadcasts, and a login that its form
\* has brought stays until the site ends it.
Fit(p, r, w, u) ==
    /\ w = p <=> r.at \in Holding
    /\ r.at \in Holding => r.link \in 1 .. Len(LinksOf(p))
    /\ r.at = "open" => LinksOf(p) # <<>>
    /\ r.at \in Unlinked \cup {"open"} => r.link = 1
    /\ r.at = "gap" => r.link < Len(LinksOf(p))
    /\ r.way = "form" => w = p /\ u \in {LoginOf[p], NoLogin}

\* No charge before the outcome, and one after it at most.
Charged(p, r, written) ==
    /\ r.at \in Unlinked => written = <<>> /\ ~r.st
    /\ \/ written = <<>>
       \/ ask[p].pooled /\ \E ok \in BOOLEAN : written = <<ok>> /\ (r.at # "thrown" => r.st = ok)
    /\ r.at = "answered" /\ r.ok => r.st

\* Every message so far came back without an error, if none has failed.
SentOff(p, r, acc) ==
    ask[p].path # "none" =>
        /\ r.at \in {"new", "pick"} => r.item = 1
        /\ r.at = "item" /\ ~r.failed => \A i \in 1 .. (r.item - 1) : <<p, i>> \in acc
        /\ r.st => \A i \in 1 .. ask[p].items : <<p, i>> \in acc

RowOf(m) == [link |-> m[2], chan |-> m[3], how |-> m[4]]
NoteOf(p, row) == <<p, row.link, row.chan, row.how>>

\* The rows of the broadcast hold what became of its channels, and nothing else.
Reported(p, r, cl, nt) ==
    /\ r.at \in Unlinked \cup {"open"} =>
           r.rows = {} /\ r.here = {} /\ p \notin cl /\ \A m \in nt : m[1] # p
    /\ r.at \in {"link", "scan", "gap", "audit", "answered"} => r.here = {}
    /\ r.at # "thrown" /\ p \notin cl =>
           \A m \in nt : m[1] = p => RowOf(m) \in r.rows \cup r.here
    /\ \A row \in r.rows \cup r.here : NoteOf(p, row) \in nt

\* What makes a broadcast a failure is in its rows or noted.
Whole(p, r, cl) ==
    /\ r.at \in Holding /\ ~r.bad => \A n \in 1 .. (r.link - 1) : LinksOf(p)[n] # {}
    /\ r.at \in Holding \ {"link"} => LinksOf(p)[r.link] # {}
    /\ r.at = "audit" /\ ~r.bad /\ ask[p].discord =>
           /\ Len(LinksOf(p)) > 0 /\ \A n \in 1 .. Len(LinksOf(p)) : LinksOf(p)[n] # {}
           /\ p \in cl => \E row \in r.rows : row.how = "failed"
    /\ r.at = "answered" /\ r.ok /\ ask[p].discord =>
           /\ Len(LinksOf(p)) > 0 /\ \A n \in 1 .. Len(LinksOf(p)) : LinksOf(p)[n] # {}
           /\ p \notin cl /\ \A row \in r.rows : row.how # "failed"
           /\ \E row \in r.rows : row.how = "posted"

ManualInv ==
    /\ ManualTypeOK /\ SenderExplained
    /\ \A p \in Posts : /\ Fit(p, post[p], window, user) /\ Charged(p, post[p], charges[p])
                        /\ SentOff(p, post[p], cleared)
                        /\ Reported(p, post[p], closed, noted)
                        /\ Whole(p, post[p], closed)

-----------------------------------------------------------------------------
LEMMA ManualTypesApart ==
    ManualTypeOK <=>
        /\ ask \in Requests /\ post \in [Posts -> PostRecord]
        /\ cleared \subseteq Posts \X Nat /\ said \subseteq Deliveries
        /\ noted \subseteq Notes /\ user \in Logins \cup {NoLogin}
        /\ window \in Posts \cup {NoPost} /\ closed \subseteq Posts
        /\ charges \in [Posts -> Seq(BOOLEAN)]
BY DEF ManualTypeOK, PostRecord, Notes

LEMMA TypesNext ==
    ASSUME ask' \in Requests, post' \in [Posts -> PostRecord],
           cleared' \subseteq Posts \X Nat, said' \subseteq Deliveries,
           noted' \subseteq Notes, user' \in Logins \cup {NoLogin},
           window' \in Posts \cup {NoPost}, closed' \subseteq Posts,
           charges' \in [Posts -> Seq(BOOLEAN)]
    PROVE  ManualTypeOK'
BY DEF ManualTypeOK, PostRecord, Notes

LEMMA AskIn ==
    ASSUME ManualTypeOK, NEW p \in Posts
    PROVE  /\ LinksOf(p) \in Seq(SUBSET Channels) /\ Len(LinksOf(p)) \in Nat
           /\ ask[p].items \in Nat /\ ask[p].path \in {"none", "dlvrit", "browser"}
           /\ \A n \in 1 .. Len(LinksOf(p)) : LinksOf(p)[n] \subseteq Channels
           /\ LinksOf(p) # <<>> <=> Len(LinksOf(p)) > 0
<1>1. ask[p] \in [path : {"none", "dlvrit", "browser"}, pooled : BOOLEAN, items : Nat,
                  discord : BOOLEAN, links : Seq(SUBSET Channels)]
  BY ManualConstants DEF ManualTypeOK
<1>2. LinksOf(p) \in Seq(SUBSET Channels) /\ ask[p].items \in Nat
      /\ ask[p].path \in {"none", "dlvrit", "browser"}
  BY <1>1 DEF LinksOf
<1> QED BY <1>2

\* What a step of one post owes to itself, and to the others.
LEMMA MovesOn ==
    ASSUME ManualInv, NEW p \in Posts, NEW r \in PostRecord, Turns(p, r), UNCHANGED <<ask, closed>>,
           cleared \subseteq cleared', cleared' \subseteq Posts \X Nat,
           said \subseteq said', said' \subseteq Deliveries,
           \A m \in said' \ said : m.by # LoginOf[m.post] => m.way # "form",
           noted \subseteq noted', noted' \subseteq Notes,
           \A m \in noted' \ noted : m[1] = p,
           user' \in Logins \cup {NoLogin}, user' = user \/ window = p,
           window' \in Posts \cup {NoPost},
           \A q \in Posts \ {p} : window' = q <=> window = q,
           charges' \in [Posts -> Seq(BOOLEAN)], \A q \in Posts \ {p} : charges'[q] = charges[q],
           Fit(p, r, window', user'), Charged(p, r, charges'[p]), SentOff(p, r, cleared'),
           Reported(p, r, closed, noted'), Whole(p, r, closed)
    PROVE  ManualInv'
<1>1. post \in [Posts -> PostRecord] /\ post' = [post EXCEPT ![p] = r]
  BY ManualTypesApart DEF ManualInv, Turns
<1>2. post' \in [Posts -> PostRecord] /\ post'[p] = r /\ \A q \in Posts \ {p} : post'[q] = post[q]
  BY <1>1
<1>3. ManualTypeOK'
  BY <1>2, ManualTypesApart, TypesNext DEF ManualInv
<1>4. SenderExplained'
  BY DEF ManualInv, SenderExplained
<1>5. ASSUME NEW q \in Posts \ {p}
      PROVE  /\ Fit(q, post[q], window, user)' /\ Charged(q, post[q], charges[q])'
             /\ SentOff(q, post[q], cleared)' /\ Reported(q, post[q], closed, noted)'
             /\ Whole(q, post[q], closed)'
  <2>1. /\ Fit(q, post[q], window, user) /\ Charged(q, post[q], charges[q])
        /\ SentOff(q, post[q], cleared) /\ Reported(q, post[q], closed, noted)
        /\ Whole(q, post[q], closed)
    BY DEF ManualInv
  <2>2. post'[q] = post[q] /\ charges'[q] = charges[q] /\ (window' = q <=> window = q)
        /\ (window = q => user' = user)
    BY <1>2
  <2>3. Fit(q, post[q], window, user)'
    BY <2>1, <2>2 DEF Fit, LinksOf
  <2>4. Charged(q, post[q], charges[q])'
    BY <2>1, <2>2 DEF Charged
  <2>5. SentOff(q, post[q], cleared)'
    BY <2>1, <2>2 DEF SentOff
  <2>6. \A m \in noted' : m[1] = q => m \in noted
    OBVIOUS
  <2>7. Reported(q, post[q], closed, noted)'
    BY <2>1, <2>2, <2>6 DEF Reported, RowOf, NoteOf
  <2>8. Whole(q, post[q], closed)'
    BY <2>1, <2>2 DEF Whole, LinksOf
  <2> QED BY <2>3, <2>4, <2>5, <2>7, <2>8
<1>6. /\ Fit(p, post[p], window, user)' /\ Charged(p, post[p], charges[p])'
      /\ SentOff(p, post[p], cleared)' /\ Reported(p, post[p], closed, noted)'
      /\ Whole(p, post[p], closed)'
  <2>1. post'[p] = r /\ ask' = ask /\ closed' = closed
    BY <1>2
  <2>2. Fit(p, post[p], window, user)'
    BY <2>1 DEF Fit, LinksOf
  <2>3. Charged(p, post[p], charges[p])'
    BY <2>1 DEF Charged
  <2>4. SentOff(p, post[p], cleared)'
    BY <2>1 DEF SentOff
  <2>5. Reported(p, post[p], closed, noted)'
    BY <2>1 DEF Reported, RowOf, NoteOf
  <2>6. Whole(p, post[p], closed)'
    BY <2>1 DEF Whole, LinksOf
  <2> QED BY <2>2, <2>3, <2>4, <2>5, <2>6
<1> QED BY <1>3, <1>4, <1>5, <1>6 DEF ManualInv

LEMMA PostIn ==
    ASSUME ManualInv, NEW p \in Posts
    PROVE  /\ post[p] \in PostRecord
           /\ Fit(p, post[p], window, user) /\ Charged(p, post[p], charges[p])
           /\ SentOff(p, post[p], cleared) /\ Reported(p, post[p], closed, noted)
           /\ Whole(p, post[p], closed)
           /\ user \in Logins \cup {NoLogin} /\ window \in Posts \cup {NoPost}
           /\ cleared \subseteq Posts \X Nat /\ said \subseteq Deliveries
           /\ noted \subseteq Notes /\ charges \in [Posts -> Seq(BOOLEAN)]
           /\ NoPost \notin Posts /\ NoLogin \notin Logins
BY ManualTypesApart, ManualConstants DEF ManualInv, Logins

-----------------------------------------------------------------------------
(* Up to the broadcast.                                                    *)

LEMMA BeforeDiscord ==
    ASSUME ManualInv, NEW p \in Posts, post[p].at \in Unlinked, NEW r \in PostRecord, Turns(p, r),
           r.at \in {"pick", "item", "open", "audit", "thrown"},
           r.at = "open" => LinksOf(p) # <<>>, r.at = "audit" => r.bad \/ ~ask[p].discord,
           r.rows = post[p].rows, r.here = post[p].here, r.way = post[p].way,
           r.link = post[p].link,
           UNCHANGED <<ask, said, user, window, closed, noted>>,
           cleared \subseteq cleared', cleared' \subseteq Posts \X Nat,
           charges' \in [Posts -> Seq(BOOLEAN)], \A q \in Posts \ {p} : charges'[q] = charges[q],
           Charged(p, r, charges'[p]), SentOff(p, r, cleared')
    PROVE  ManualInv'
<1>1. /\ Fit(p, post[p], window, user) /\ Reported(p, post[p], closed, noted)
      /\ user \in Logins \cup {NoLogin} /\ window \in Posts \cup {NoPost}
      /\ said \subseteq Deliveries /\ noted \subseteq Notes
  BY PostIn
<1>2. window # p /\ r.at \notin Holding /\ r.way # "form"
  BY <1>1 DEF Fit, Unlinked, Holding
<1>3. Fit(p, r, window', user')
  BY <1>1, <1>2 DEF Fit, Holding
<1>4. r.rows = {} /\ r.here = {} /\ p \notin closed /\ \A m \in noted : m[1] # p
  BY <1>1 DEF Reported
<1>5. Reported(p, r, closed, noted')
  BY <1>4 DEF Reported
<1>6. Whole(p, r, closed)
  BY <1>2 DEF Whole
<1> QED BY <1>1, <1>3, <1>5, <1>6, MovesOn

\* The record after StockTwits.
LEMMA AfterRecord ==
    ASSUME ManualInv, NEW p \in Posts, NEW old \in PostRecord
    PROVE  LET r == AfterStocktwits(p, old)
           IN  /\ r \in PostRecord /\ r.at \in {"open", "audit"} /\ r.st = old.st
               /\ r.at = "open" => LinksOf(p) # <<>>
               /\ r.at = "audit" => r.bad \/ ~ask[p].discord
               /\ r.rows = old.rows /\ r.here = old.here /\ r.way = old.way /\ r.link = old.link
               /\ r.item = 1
<1> DEFINE r == AfterStocktwits(p, old)
<1> DEFINE bad == ask[p].discord /\ LinksOf(p) = <<>>
<1>1. r \in PostRecord /\ r.at = IF LinksOf(p) = <<>> THEN "audit" ELSE "open"
  <2>1. bad \in BOOLEAN /\ r = [old EXCEPT !.at = IF LinksOf(p) = <<>> THEN "audit" ELSE "open",
                                         !.item = 1, !.failed = FALSE, !.bad = bad]
    BY DEF AfterStocktwits
  <2> HIDE DEF bad, r
  <2> QED BY <2>1 DEF PostRecord
<1>2. r.bad = bad
  BY DEF AfterStocktwits, PostRecord
<1>3. r.st = old.st /\ r.rows = old.rows /\ r.here = old.here /\ r.way = old.way
      /\ r.link = old.link /\ r.item = 1
  BY DEF AfterStocktwits, PostRecord
<1> QED BY <1>1, <1>2, <1>3

\* The outcome is charged, once.
LEMMA ChargeOnce ==
    ASSUME ManualInv, NEW p \in Posts, charges[p] = <<>>, NEW r \in PostRecord,
           r.at \in {"open", "audit"}, Charge(p, r.st)
    PROVE  /\ charges' \in [Posts -> Seq(BOOLEAN)]
           /\ \A q \in Posts \ {p} : charges'[q] = charges[q]
           /\ Charged(p, r, charges'[p])
<1>1. charges \in [Posts -> Seq(BOOLEAN)]
  BY PostIn
<1> DEFINE ok == r.st
<1>2. ok \in BOOLEAN /\ Append(charges[p], ok) = <<ok>> /\ <<ok>> \in Seq(BOOLEAN)
  BY DEF PostRecord
<1> HIDE DEF ok
<1>3. CASE UNCHANGED charges
  BY <1>1, <1>3 DEF Charged, Unlinked
<1>4. CASE ask[p].pooled /\ charges' = [charges EXCEPT ![p] = Append(@, ok)]
  <2>1. charges'[p] = <<ok>> /\ charges' \in [Posts -> Seq(BOOLEAN)]
        /\ \A q \in Posts \ {p} : charges'[q] = charges[q]
    BY <1>1, <1>2, <1>4
  <2>2. Charged(p, r, charges'[p])
    BY <1>2, <1>4, <2>1 DEF Charged, Unlinked, ok
  <2> QED BY <2>1, <2>2
<1> QED BY <1>3, <1>4 DEF Charge, ok

LEMMA ChecksKeeps == ASSUME ManualInv, NEW p \in Posts, Checks(p) PROVE ManualInv'
<1>1. /\ post[p] \in PostRecord /\ Charged(p, post[p], charges[p]) /\ SentOff(p, post[p], cleared)
      /\ cleared \subseteq Posts \X Nat /\ charges \in [Posts -> Seq(BOOLEAN)]
      /\ post[p].at = "new" /\ charges[p] = <<>>
  BY PostIn DEF Checks, PostAt, Charged, Unlinked
<1>2. CASE Rejected(p)
  <2> DEFINE r == [post[p] EXCEPT !.at = "thrown"]
  <2>1. r \in PostRecord /\ r.at = "thrown" /\ r.rows = post[p].rows
        /\ r.here = post[p].here /\ r.way = post[p].way /\ r.link = post[p].link
        /\ r.st = post[p].st
    BY <1>1 DEF PostRecord
  <2>2. Turns(p, r)
    BY <1>2 DEF Rejected
  <2> HIDE DEF r
  <2>3. Charged(p, r, charges'[p]) /\ SentOff(p, r, cleared')
    BY <1>1, <2>1 DEF Checks, Charged, SentOff, Unlinked
  <2> QED BY <1>1, <2>1, <2>2, <2>3, BeforeDiscord DEF Checks, Unlinked
<1>3. CASE CheckedOut(p) /\ ask[p].path = "none"
  <2> DEFINE a == AfterStocktwits(p, post[p])
             r == [a EXCEPT !.st = TRUE]
  <2>1. /\ a \in PostRecord /\ a.at \in {"open", "audit"}
        /\ a.at = "open" => LinksOf(p) # <<>>
        /\ a.at = "audit" => a.bad \/ ~ask[p].discord
        /\ a.rows = post[p].rows /\ a.here = post[p].here /\ a.way = post[p].way
        /\ a.link = post[p].link
    BY <1>1, AfterRecord
  <2> HIDE DEF a
  <2>2. r \in PostRecord /\ r.at = a.at /\ r.rows = a.rows /\ r.here = a.here
        /\ r.way = a.way /\ r.link = a.link /\ r.bad = a.bad
        /\ r.st = TRUE
    BY <2>1 DEF PostRecord
  <2>3. Turns(p, r)
    BY <1>3 DEF CheckedOut, a
  <2> HIDE DEF r
  <2>4. Charged(p, r, charges'[p]) /\ SentOff(p, r, cleared')
    BY <1>1, <1>3, <2>1, <2>2 DEF Checks, Charged, SentOff, Unlinked
  <2> QED BY <1>1, <2>1, <2>2, <2>3, <2>4, BeforeDiscord DEF Checks, Unlinked
<1>4. CASE CheckedOut(p) /\ ask[p].path # "none"
  <2> DEFINE r == [post[p] EXCEPT !.at = "pick"]
  <2>1. r \in PostRecord /\ r.at = "pick" /\ r.rows = post[p].rows /\ r.item = post[p].item
        /\ r.here = post[p].here /\ r.way = post[p].way /\ r.link = post[p].link
        /\ r.st = post[p].st
    BY <1>1 DEF PostRecord
  <2>2. Turns(p, r)
    BY <1>4 DEF CheckedOut
  <2> HIDE DEF r
  <2>3. Charged(p, r, charges'[p]) /\ SentOff(p, r, cleared')
    BY <1>1, <2>1 DEF Checks, Charged, SentOff, Unlinked
  <2> QED BY <1>1, <2>1, <2>2, <2>3, BeforeDiscord DEF Checks, Unlinked
<1> QED BY <1>2, <1>3, <1>4 DEF Checks

LEMMA PicksKeeps == ASSUME ManualInv, NEW p \in Posts, Picks(p) PROVE ManualInv'
<1>1. /\ post[p] \in PostRecord /\ Charged(p, post[p], charges[p]) /\ SentOff(p, post[p], cleared)
      /\ cleared \subseteq Posts \X Nat /\ charges \in [Posts -> Seq(BOOLEAN)]
      /\ post[p].at = "pick" /\ charges[p] = <<>> /\ ~post[p].st
  BY PostIn DEF Picks, PostAt, Charged, Unlinked
<1>2. CASE Serves(p)
  <2> DEFINE r == [post[p] EXCEPT !.at = "item"]
  <2>1. r \in PostRecord /\ r.at = "item" /\ r.rows = post[p].rows /\ r.item = post[p].item
        /\ r.here = post[p].here /\ r.way = post[p].way /\ r.link = post[p].link
        /\ r.st = post[p].st
    BY <1>1 DEF PostRecord
  <2>2. Turns(p, r) /\ charges' = charges
    BY <1>2 DEF Serves
  <2> HIDE DEF r
  <2>3. ask[p].path # "none" => r.item = 1
    BY <1>1, <2>1 DEF SentOff
  <2>4. Charged(p, r, charges'[p]) /\ SentOff(p, r, cleared')
    BY <1>1, <2>1, <2>2, <2>3 DEF Picks, Charged, SentOff, Unlinked
  <2> QED BY <1>1, <2>1, <2>2, <2>4, BeforeDiscord DEF Picks, Unlinked
<1>3. CASE ServesNot(p)
  <2> DEFINE r == AfterStocktwits(p, post[p])
  <2>1. /\ r \in PostRecord /\ r.at \in {"open", "audit"} /\ r.st = post[p].st
        /\ r.at = "open" => LinksOf(p) # <<>>
        /\ r.at = "audit" => r.bad \/ ~ask[p].discord
        /\ r.rows = post[p].rows /\ r.here = post[p].here /\ r.way = post[p].way
        /\ r.link = post[p].link
    BY <1>1, AfterRecord
  <2>2. Turns(p, r) /\ Charge(p, FALSE)
    BY <1>3 DEF ServesNot
  <2> HIDE DEF r
  <2>3. r.st = FALSE
    BY <1>1, <2>1 DEF PostRecord
  <2>4. /\ charges' \in [Posts -> Seq(BOOLEAN)]
        /\ \A q \in Posts \ {p} : charges'[q] = charges[q]
        /\ Charged(p, r, charges'[p])
    <3>1. Charge(p, r.st)
      BY <2>2, <2>3 DEF Charge
    <3> QED BY <1>1, <2>1, <3>1, ChargeOnce
  <2>5. SentOff(p, r, cleared')
    BY <2>1, <2>3 DEF SentOff
  <2> QED BY <1>1, <2>1, <2>2, <2>4, <2>5, BeforeDiscord DEF Picks, Unlinked
<1> QED BY <1>2, <1>3 DEF Picks

LEMMA BrowserFailsKeeps == ASSUME ManualInv, NEW p \in Posts, BrowserFails(p) PROVE ManualInv'
<1>1. /\ post[p] \in PostRecord /\ Charged(p, post[p], charges[p])
      /\ cleared \subseteq Posts \X Nat /\ charges \in [Posts -> Seq(BOOLEAN)]
      /\ post[p].at = "item" /\ charges[p] = <<>> /\ ~post[p].st
  BY PostIn DEF BrowserFails, PostAt, Charged, Unlinked
<1> DEFINE r == AfterStocktwits(p, post[p])
<1>2. /\ r \in PostRecord /\ r.at \in {"open", "audit"} /\ r.st = post[p].st
      /\ r.at = "open" => LinksOf(p) # <<>>
      /\ r.at = "audit" => r.bad \/ ~ask[p].discord
      /\ r.rows = post[p].rows /\ r.here = post[p].here /\ r.way = post[p].way
      /\ r.link = post[p].link
  BY <1>1, AfterRecord
<1>3. Turns(p, r) /\ Charge(p, FALSE)
  BY DEF BrowserFails
<1> HIDE DEF r
<1>4. r.st = FALSE
  BY <1>1, <1>2 DEF PostRecord
<1>5. /\ charges' \in [Posts -> Seq(BOOLEAN)]
      /\ \A q \in Posts \ {p} : charges'[q] = charges[q]
      /\ Charged(p, r, charges'[p])
  <2>1. Charge(p, r.st)
    BY <1>3, <1>4 DEF Charge
  <2> QED BY <1>1, <1>2, <2>1, ChargeOnce
<1>6. SentOff(p, r, cleared')
  BY <1>2, <1>4 DEF SentOff
<1> QED BY <1>1, <1>2, <1>3, <1>5, <1>6, BeforeDiscord DEF BrowserFails, Unlinked

LEMMA PostsItemKeeps == ASSUME ManualInv, NEW p \in Posts, PostsItem(p) PROVE ManualInv'
<1>1. /\ post[p] \in PostRecord /\ Charged(p, post[p], charges[p]) /\ SentOff(p, post[p], cleared)
      /\ cleared \subseteq Posts \X Nat /\ charges \in [Posts -> Seq(BOOLEAN)]
      /\ post[p].at = "item" /\ charges[p] = <<>> /\ ~post[p].st
      /\ ask[p].items \in Nat /\ post[p].item \in Nat /\ post[p].failed \in BOOLEAN
  BY PostIn, AskIn DEF ManualInv, PostsItem, PostAt, Charged, Unlinked, PostRecord
<1> DEFINE i == post[p].item
<1>2. PICK fails \in BOOLEAN :
         /\ cleared' = IF fails THEN cleared ELSE cleared \cup {<<p, i>>}
         /\ IF i < ask[p].items
            THEN /\ Turns(p, [post[p] EXCEPT !.item = @ + 1,
                                             !.failed = post[p].failed \/ fails])
                 /\ UNCHANGED charges
            ELSE /\ Turns(p, [AfterStocktwits(p, post[p]) EXCEPT
                                 !.st = AllSucceed(p, post[p].failed \/ fails)])
                 /\ Charge(p, AllSucceed(p, post[p].failed \/ fails))
  BY DEF PostsItem, Comes
<1> DEFINE failed == post[p].failed \/ fails
           ok == AllSucceed(p, failed)
<1>3. failed \in BOOLEAN /\ ok \in BOOLEAN /\ (~failed => ~post[p].failed /\ ~fails)
      /\ (ok => ~post[p].failed /\ ~fails)
  BY <1>1 DEF AllSucceed
<1>4. /\ i < ask[p].items => /\ Turns(p, [post[p] EXCEPT !.item = @ + 1, !.failed = failed])
                             /\ UNCHANGED charges
      /\ ~(i < ask[p].items) => /\ Turns(p, [AfterStocktwits(p, post[p]) EXCEPT !.st = ok])
                                /\ Charge(p, ok)
  BY <1>2
<1> HIDE DEF failed, ok
<1>5. cleared \subseteq cleared' /\ cleared' \subseteq Posts \X Nat
  BY <1>1, <1>2
<1>6. ask[p].path # "none" /\ ~post[p].failed /\ ~fails =>
         \A n \in 1 .. i : <<p, n>> \in cleared'
  <2> SUFFICES ASSUME ask[p].path # "none", ~post[p].failed, ~fails, NEW n \in 1 .. i
               PROVE  <<p, n>> \in cleared'
    OBVIOUS
  <2>1. cleared' = cleared \cup {<<p, i>>}
    BY <1>2
  <2>2. n = i \/ n \in 1 .. (i - 1)
    BY <1>1
  <2> QED BY <1>1, <2>1, <2>2 DEF SentOff
<1>7. CASE i < ask[p].items
  <2> DEFINE r == [post[p] EXCEPT !.item = @ + 1, !.failed = failed]
  <2>1. r \in PostRecord /\ r.at = "item" /\ r.rows = post[p].rows /\ r.item = i + 1
        /\ r.here = post[p].here /\ r.way = post[p].way /\ r.link = post[p].link
        /\ r.st = post[p].st
        /\ r.failed = failed
    <3>1. r \in PostRecord
      <4>1. \A n \in Nat, old \in PostRecord : [old EXCEPT !.item = n] \in PostRecord
        BY DEF PostRecord
      <4>2. \A b \in BOOLEAN, old \in PostRecord : [old EXCEPT !.failed = b] \in PostRecord
        BY DEF PostRecord
      <4>3. r = [[post[p] EXCEPT !.item = i + 1] EXCEPT !.failed = failed] /\ i + 1 \in Nat
        BY <1>1 DEF PostRecord
      <4> QED BY <1>1, <1>3, <4>1, <4>2, <4>3
    <3>2. r.at = "item" /\ r.rows = post[p].rows /\ r.here = post[p].here
          /\ r.way = post[p].way /\ r.link = post[p].link
      BY <1>1 DEF PostRecord
    <3>3. r.item = i + 1
      BY <1>1 DEF PostRecord
    <3>4. r.st = post[p].st
      BY <1>1 DEF PostRecord
    <3>5. r.failed = failed
      BY <1>1 DEF PostRecord
    <3> QED BY <3>1, <3>2, <3>3, <3>4, <3>5
  <2>2. Turns(p, r) /\ charges' = charges
    BY <1>4, <1>7
  <2> HIDE DEF r
  <2>3. Charged(p, r, charges'[p])
    BY <1>1, <2>1, <2>2 DEF Charged, Unlinked
  <2>4. r.item - 1 = i
    BY <1>1, <2>1
  <2>5. SentOff(p, r, cleared')
    BY <1>1, <1>6, <1>3, <2>1, <2>4 DEF SentOff
  <2> QED BY <1>1, <1>5, <2>1, <2>2, <2>3, <2>5, BeforeDiscord DEF PostsItem, Unlinked
<1>8. CASE ~(i < ask[p].items)
  <2> DEFINE a == AfterStocktwits(p, post[p])
             r == [a EXCEPT !.st = ok]
  <2>1. /\ a \in PostRecord /\ a.at \in {"open", "audit"}
        /\ a.at = "open" => LinksOf(p) # <<>>
        /\ a.at = "audit" => a.bad \/ ~ask[p].discord
        /\ a.rows = post[p].rows /\ a.here = post[p].here /\ a.way = post[p].way
        /\ a.link = post[p].link
    BY <1>1, AfterRecord
  <2>2. Turns(p, r) /\ Charge(p, ok)
    BY <1>4, <1>8
  <2> HIDE DEF a
  <2>3. r \in PostRecord /\ r.at = a.at /\ r.rows = a.rows /\ r.here = a.here
        /\ r.way = a.way /\ r.link = a.link /\ r.bad = a.bad
        /\ r.st = ok
    BY <1>3, <2>1 DEF PostRecord
  <2> HIDE DEF r
  <2>4. /\ charges' \in [Posts -> Seq(BOOLEAN)]
        /\ \A q \in Posts \ {p} : charges'[q] = charges[q]
        /\ Charged(p, r, charges'[p])
    BY <1>1, <2>1, <2>2, <2>3, ChargeOnce
  <2>5. SentOff(p, r, cleared')
    <3>1. r.st => ~post[p].failed /\ ~fails
      BY <1>3, <2>3
    <3>2. 1 .. ask[p].items \subseteq 1 .. i
      BY <1>1, <1>8
    <3> QED BY <1>6, <2>1, <2>3, <3>1, <3>2 DEF SentOff
  <2> QED BY <1>1, <1>5, <2>1, <2>2, <2>3, <2>4, <2>5, BeforeDiscord DEF PostsItem, Unlinked
<1> QED BY <1>7, <1>8

-----------------------------------------------------------------------------
(* The broadcast.                                                          *)

LEMMA BroadcastMoves ==
    ASSUME ManualInv, NEW p \in Posts, post[p].at \in Holding, NEW r \in PostRecord,
           Broadcasts(p, r), r.at \in Holding \cup {"audit"}, r.st = post[p].st,
           r.at \in Holding => r.link \in 1 .. Len(LinksOf(p)),
           r.at = "gap" => r.link < Len(LinksOf(p)),
           r.way = "form" => r.at \in Holding /\ user' \in {LoginOf[p], NoLogin},
           said \subseteq said', said' \subseteq Deliveries,
           \A m \in said' \ said : m.by # LoginOf[m.post] => m.way # "form",
           noted \subseteq noted', noted' \subseteq Notes,
           \A m \in noted' \ noted : m[1] = p, user' \in Logins \cup {NoLogin},
           Reported(p, r, closed, noted'), Whole(p, r, closed)
    PROVE  ManualInv'
<1>1. /\ Fit(p, post[p], window, user) /\ Charged(p, post[p], charges[p])
      /\ SentOff(p, post[p], cleared) /\ window = p /\ cleared \subseteq Posts \X Nat
      /\ charges \in [Posts -> Seq(BOOLEAN)] /\ NoPost \notin Posts
  BY PostIn DEF Fit
<1>2. /\ Turns(p, r) /\ UNCHANGED <<ask, cleared, closed, charges>>
      /\ window' = IF r.at = "audit" THEN NoPost ELSE window
  BY <1>1 DEF Broadcasts
<1>3. window' \in Posts \cup {NoPost} /\ \A q \in Posts \ {p} : window' = q <=> window = q
  BY <1>1, <1>2
<1>4. Fit(p, r, window', user')
  BY <1>1, <1>2 DEF Fit, Holding, Unlinked
<1>5. r.at \notin {"new", "pick", "item", "answered", "thrown"}
      /\ post[p].at \notin {"new", "pick", "item", "answered", "thrown"}
  BY DEF Holding
<1>6. Charged(p, r, charges'[p])
  BY <1>1, <1>2, <1>5 DEF Charged, Unlinked
<1>7. SentOff(p, r, cleared')
  BY <1>1, <1>2, <1>5 DEF SentOff
<1> QED BY <1>1, <1>2, <1>3, <1>4, <1>6, <1>7, MovesOn

\* The record of a broadcast that is over, and of one that has another link.
LEMMA OverRecord ==
    ASSUME NEW x \in PostRecord
    PROVE  /\ Over(x) \in PostRecord /\ Over(x).at = "audit" /\ Over(x).st = x.st
           /\ Over(x).here = {} /\ Over(x).rows = x.rows /\ Over(x).bad = x.bad
           /\ Over(x).way = "found"
<1> DEFINE a == [x EXCEPT !.at = "audit", !.link = 1, !.left = {}]
           b == [a EXCEPT !.here = {}, !.sent = {}]
           o == [b EXCEPT !.tries = 1, !.way = "found"]
<1>1. Over(x) = o
  BY Zenon DEF Over
<1>2. a \in PostRecord /\ a.at = "audit" /\ a.st = x.st /\ a.rows = x.rows /\ a.bad = x.bad
  BY DEF PostRecord
<1> HIDE DEF a
<1>3. /\ b \in PostRecord /\ b.at = a.at /\ b.st = a.st /\ b.rows = a.rows /\ b.bad = a.bad
      /\ b.here = {}
  BY <1>2 DEF PostRecord
<1> HIDE DEF b
<1>4. /\ o \in PostRecord /\ o.at = b.at /\ o.st = b.st /\ o.rows = b.rows /\ o.bad = b.bad
      /\ o.here = b.here /\ o.way = "found"
  <2>1. 1 \in 1 .. AuthAttempts
    BY DEF AuthAttempts
  <2>2. o \in PostRecord
    BY <1>3, <2>1 DEF PostRecord
  <2>3. /\ o.at = b.at /\ o.st = b.st /\ o.rows = b.rows /\ o.bad = b.bad
        /\ o.here = b.here /\ o.way = "found"
    BY <1>3 DEF PostRecord
  <2> QED BY <2>2, <2>3
<1> HIDE DEF o
<1> QED BY <1>1, <1>2, <1>3, <1>4

LEMMA NextRecord ==
    ASSUME ManualInv, NEW p \in Posts, NEW x \in PostRecord, x.link \in 1 .. Len(LinksOf(p))
    PROVE  LET n == NextLink(p, x)
           IN  /\ n \in PostRecord /\ n.at \in {"gap", "audit"} /\ n.st = x.st
               /\ n.here = {} /\ n.rows = x.rows /\ n.bad = x.bad
               /\ n.at = "gap" => n.link = x.link /\ n.way = x.way /\ x.link < Len(LinksOf(p))
               /\ n.at = "audit" => n.way = "found" /\ x.link = Len(LinksOf(p))
<1> DEFINE n == NextLink(p, x)
           o == Over(x)
<1>1. o \in PostRecord /\ o.at = "audit"
  BY OverRecord
<1>2. o.st = x.st /\ o.here = {} /\ o.rows = x.rows /\ o.bad = x.bad /\ o.way = "found"
  BY OverRecord
<1>3. Len(LinksOf(p)) \in Nat
  BY AskIn DEF ManualInv
<1>4. CASE x.link < Len(LinksOf(p))
  <2>1. n = [o EXCEPT !.at = "gap", !.link = x.link, !.way = x.way]
    BY <1>4 DEF NextLink
  <2> HIDE DEF o
  <2>2. n \in PostRecord
    BY <1>1, <2>1 DEF PostRecord
  <2>3. n.at = "gap" /\ n.link = x.link /\ n.way = x.way
    BY <1>1, <2>1 DEF PostRecord
  <2>4. n.st = o.st /\ n.here = o.here /\ n.rows = o.rows /\ n.bad = o.bad
    BY <1>1, <2>1 DEF PostRecord
  <2> HIDE DEF n
  <2> QED BY <1>2, <1>4, <2>2, <2>3, <2>4 DEF n
<1>5. CASE ~(x.link < Len(LinksOf(p)))
  <2>1. n = o
    BY <1>5 DEF NextLink
  <2> HIDE DEF o, n
  <2> QED BY <1>1, <1>2, <1>3, <1>5, <2>1 DEF n
<1> QED BY <1>4, <1>5

\* A link is done with: its rows, or that it has failed, are in the record x.
LEMMA LinkMoves ==
    ASSUME ManualInv, NEW p \in Posts, post[p].at \in Holding, NEW x \in PostRecord,
           Broadcasts(p, NextLink(p, x)), x.link = post[p].link, x.st = post[p].st,
           LinksOf(p)[x.link] # {}, ~x.bad => ~post[p].bad,
           x.way = "form" => user' \in {LoginOf[p], NoLogin}, user' \in Logins \cup {NoLogin},
           UNCHANGED said, noted \subseteq noted', noted' \subseteq Notes,
           \A m \in noted' \ noted : m[1] = p,
           p \notin closed => \A m \in noted' : m[1] = p => RowOf(m) \in x.rows,
           \A row \in x.rows : NoteOf(p, row) \in noted',
           p \in closed /\ ~x.bad => \E row \in x.rows : row.how = "failed"
    PROVE  ManualInv'
<1> DEFINE n == NextLink(p, x)
<1>1. /\ Fit(p, post[p], window, user) /\ Whole(p, post[p], closed)
      /\ said \subseteq Deliveries /\ Len(LinksOf(p)) \in Nat
  BY PostIn, AskIn DEF ManualInv
<1>2. x.link \in 1 .. Len(LinksOf(p)) /\ x.link \in Nat
  BY <1>1 DEF Fit
<1>3. /\ n \in PostRecord /\ n.at \in {"gap", "audit"} /\ n.st = x.st
      /\ n.here = {} /\ n.rows = x.rows /\ n.bad = x.bad
      /\ n.at = "gap" => n.link = x.link /\ n.way = x.way /\ x.link < Len(LinksOf(p))
      /\ n.at = "audit" => n.way = "found" /\ x.link = Len(LinksOf(p))
  BY <1>2, NextRecord
<1>4. Broadcasts(p, n)
  OBVIOUS
<1> HIDE DEF n
<1>5. ~x.bad => \A k \in 1 .. x.link : LinksOf(p)[k] # {}
  <2> SUFFICES ASSUME ~x.bad, NEW k \in 1 .. x.link PROVE LinksOf(p)[k] # {}
    OBVIOUS
  <2>1. k = x.link \/ k \in 1 .. (x.link - 1)
    BY <1>2
  <2> QED BY <1>1, <2>1 DEF Whole
<1>6. Reported(p, n, closed, noted')
  BY <1>3 DEF Reported, Unlinked
<1>7. Whole(p, n, closed)
  <2>1. n.at \in Holding /\ ~n.bad => \A k \in 1 .. (n.link - 1) : LinksOf(p)[k] # {}
    <3> SUFFICES ASSUME n.at = "gap", ~n.bad, NEW k \in 1 .. (n.link - 1)
                 PROVE  LinksOf(p)[k] # {}
      BY <1>3 DEF Holding
    <3>1. k \in 1 .. x.link
      BY <1>2, <1>3
    <3> QED BY <1>3, <1>5, <3>1
  <2>2. n.at \in Holding \ {"link"} => LinksOf(p)[n.link] # {}
    BY <1>3 DEF Holding
  <2>3. n.at = "audit" /\ ~n.bad =>
           /\ Len(LinksOf(p)) > 0 /\ \A k \in 1 .. Len(LinksOf(p)) : LinksOf(p)[k] # {}
           /\ p \in closed => \E row \in n.rows : row.how = "failed"
    BY <1>1, <1>2, <1>3, <1>5
  <2> QED BY <1>3, <2>1, <2>2, <2>3 DEF Whole
<1>8. n.at \in Holding => n.at = "gap" /\ n.link = x.link
  BY <1>3 DEF Holding
<1>9. n.way = "form" => n.at \in Holding /\ user' \in {LoginOf[p], NoLogin}
  BY <1>3 DEF Holding
<1>10. n.at \in Holding \cup {"audit"} /\ n.st = post[p].st
      /\ (n.at \in Holding => n.link \in 1 .. Len(LinksOf(p)))
      /\ (n.at = "gap" => n.link < Len(LinksOf(p)))
  BY <1>2, <1>3, <1>8 DEF Holding
<1>11. said \subseteq said' /\ said' \subseteq Deliveries /\ said' \ said = {}
  BY <1>1
<1> QED BY <1>4, <1>3, <1>6, <1>7, <1>9, <1>10, <1>11, BroadcastMoves

\* What a broadcast that holds the profile knows.
LEMMA Broadcasting ==
    ASSUME ManualInv, NEW p \in Posts, post[p].at \in Holding
    PROVE  /\ post[p] \in PostRecord /\ window = p
           /\ post[p].link \in 1 .. Len(LinksOf(p)) /\ post[p].link \in Nat
           /\ LinksOf(p)[post[p].link] \subseteq Channels /\ Len(LinksOf(p)) \in Nat
           /\ post[p].at # "link" => LinksOf(p)[post[p].link] # {}
           /\ post[p].way = "form" => user \in {LoginOf[p], NoLogin}
           /\ user \in Logins \cup {NoLogin} /\ LoginOf[p] \in Logins
           /\ said \subseteq Deliveries /\ noted \subseteq Notes
           /\ Reported(p, post[p], closed, noted) /\ Whole(p, post[p], closed)
<1>1. /\ post[p] \in PostRecord /\ Fit(p, post[p], window, user)
      /\ Whole(p, post[p], closed) /\ Reported(p, post[p], closed, noted)
      /\ user \in Logins \cup {NoLogin} /\ said \subseteq Deliveries
      /\ noted \subseteq Notes
  BY PostIn
<1>2. Len(LinksOf(p)) \in Nat /\ \A n \in 1 .. Len(LinksOf(p)) : LinksOf(p)[n] \subseteq Channels
  BY AskIn DEF ManualInv
<1>3. window = p /\ post[p].link \in 1 .. Len(LinksOf(p))
      /\ (post[p].way = "form" => user \in {LoginOf[p], NoLogin})
  BY <1>1 DEF Fit
<1>4. post[p].at # "link" => LinksOf(p)[post[p].link] # {}
  BY <1>1 DEF Whole
<1>5. LoginOf[p] \in Logins
  BY DEF Logins
<1> QED BY <1>1, <1>2, <1>3, <1>4, <1>5

LEMMA OpensKeeps == ASSUME ManualInv, NEW p \in Posts, Opens(p) PROVE ManualInv'
<1>1. /\ post[p] \in PostRecord /\ Fit(p, post[p], window, user)
      /\ Charged(p, post[p], charges[p]) /\ SentOff(p, post[p], cleared)
      /\ Reported(p, post[p], closed, noted)
      /\ user \in Logins \cup {NoLogin} /\ window \in Posts \cup {NoPost}
      /\ cleared \subseteq Posts \X Nat /\ said \subseteq Deliveries
      /\ noted \subseteq Notes /\ charges \in [Posts -> Seq(BOOLEAN)]
      /\ NoPost \notin Posts /\ post[p].at = "open"
  BY PostIn DEF Opens, PostAt
<1>2. Len(LinksOf(p)) \in Nat /\ Len(LinksOf(p)) > 0
  BY <1>1, AskIn DEF Fit, ManualInv
<1>3. /\ post[p].link = 1 /\ window # p /\ post[p].way # "form" /\ post[p].rows = {}
      /\ post[p].here = {} /\ p \notin closed /\ \A m \in noted : m[1] # p
  BY <1>1 DEF Fit, Reported, Holding
<1>4. UNCHANGED <<ask, cleared, said, user, closed, charges, noted>>
  BY DEF Opens
<1>5. CASE window = NoPost /\ window' = p /\ Turns(p, [post[p] EXCEPT !.at = "link"])
  <2> DEFINE r == [post[p] EXCEPT !.at = "link"]
  <2>1. r \in PostRecord
    BY <1>1 DEF PostRecord
  <2>2. r.at = "link" /\ r.link = 1 /\ r.way = post[p].way /\ r.rows = {} /\ r.here = {}
        /\ r.st = post[p].st
    BY <1>1, <1>3 DEF PostRecord
  <2>3. Turns(p, r)
    BY <1>5
  <2> HIDE DEF r
  <2>4. Fit(p, r, window', user')
    BY <1>2, <1>3, <1>5, <2>2 DEF Fit, Holding, Unlinked
  <2>5. Charged(p, r, charges'[p]) /\ SentOff(p, r, cleared')
    BY <1>1, <1>4, <2>2 DEF Charged, SentOff, Unlinked
  <2>6. Reported(p, r, closed, noted')
    BY <1>3, <1>4, <2>2 DEF Reported, Unlinked
  <2>7. Whole(p, r, closed)
    BY <2>2 DEF Whole
  <2>8. window' \in Posts \cup {NoPost} /\ \A q \in Posts \ {p} : window' = q <=> window = q
    BY <1>1, <1>5
  <2> QED BY <1>1, <1>4, <2>1, <2>3, <2>4, <2>5, <2>6, <2>7, <2>8, MovesOn
<1>6. CASE Turns(p, Over([post[p] EXCEPT !.bad = TRUE])) /\ UNCHANGED window
  <2> DEFINE x == [post[p] EXCEPT !.bad = TRUE]
             r == Over(x)
  <2>1. x \in PostRecord
    BY <1>1 DEF PostRecord
  <2>2. x.st = post[p].st /\ x.rows = post[p].rows /\ x.bad = TRUE
    BY <1>1 DEF PostRecord
  <2>3. Turns(p, r)
    BY <1>6
  <2> HIDE DEF x
  <2>4. /\ r \in PostRecord /\ r.at = "audit" /\ r.st = post[p].st /\ r.here = {}
        /\ r.rows = {} /\ r.bad /\ r.way = "found"
    BY <1>3, <2>1, <2>2, OverRecord
  <2> HIDE DEF r
  <2>5. Fit(p, r, window', user')
    BY <1>3, <1>6, <2>4 DEF Fit, Holding, Unlinked
  <2>6. Charged(p, r, charges'[p]) /\ SentOff(p, r, cleared')
    BY <1>1, <1>4, <2>4 DEF Charged, SentOff, Unlinked
  <2>7. Reported(p, r, closed, noted')
    BY <1>3, <1>4, <2>4 DEF Reported, Unlinked
  <2>8. Whole(p, r, closed)
    BY <2>4 DEF Whole, Holding
  <2> QED BY <1>1, <1>4, <1>6, <2>3, <2>4, <2>5, <2>6, <2>7, <2>8, MovesOn
<1> QED BY <1>5, <1>6 DEF Opens

\* Where a link begins and where its page is searched, nothing is pending.
LEMMA Settled ==
    ASSUME ManualInv, NEW p \in Posts, post[p].at \in {"link", "scan", "gap", "audit"}
    PROVE  /\ post[p].here = {}
           /\ p \notin closed => \A m \in noted : m[1] = p => RowOf(m) \in post[p].rows
           /\ \A row \in post[p].rows : NoteOf(p, row) \in noted
<1>1. Reported(p, post[p], closed, noted)
  BY PostIn
<1> QED BY <1>1 DEF Reported

LEMMA SkipsLinkKeeps == ASSUME ManualInv, NEW p \in Posts, SkipsLink(p) PROVE ManualInv'
<1> DEFINE bad == [post[p] EXCEPT !.bad = TRUE]
<1>1. /\ post[p].at = "link" /\ post[p].at \in Holding
      /\ Broadcasts(p, IF bad.link < Len(LinksOf(p)) THEN [bad EXCEPT !.link = @ + 1]
                                                     ELSE Over(bad))
      /\ UNCHANGED <<said, user, noted>>
  BY DEF SkipsLink, PostAt, Holding
<1>2. /\ post[p] \in PostRecord /\ window = p
      /\ post[p].link \in 1 .. Len(LinksOf(p)) /\ post[p].link \in Nat
      /\ Len(LinksOf(p)) \in Nat /\ user \in Logins \cup {NoLogin}
      /\ post[p].way = "form" => user \in {LoginOf[p], NoLogin}
      /\ said \subseteq Deliveries /\ noted \subseteq Notes
  BY <1>1, Broadcasting
<1>3. bad \in PostRecord /\ bad.st = post[p].st /\ bad.rows = post[p].rows
      /\ bad.link = post[p].link
  BY <1>2 DEF PostRecord
<1>4. bad.at = "link" /\ bad.here = post[p].here /\ bad.way = post[p].way /\ bad.bad = TRUE
  BY <1>1, <1>2 DEF PostRecord
<1> HIDE DEF bad
<1>5. PICK r \in PostRecord :
         /\ Broadcasts(p, r) /\ r.st = bad.st /\ r.rows = bad.rows /\ r.here = {} /\ r.bad = TRUE
         /\ \/ r.at = "link" /\ r.link \in 1 .. Len(LinksOf(p)) /\ r.way = bad.way
            \/ r.at = "audit" /\ r.way = "found"
  <2>1. CASE bad.link < Len(LinksOf(p))
    <3> DEFINE r == [bad EXCEPT !.link = @ + 1]
    <3>1. r = [bad EXCEPT !.link = bad.link + 1] /\ bad.link + 1 \in Nat
          /\ bad.link + 1 \in 1 .. Len(LinksOf(p))
      BY <1>2, <1>3, <2>1
    <3>2. \A n \in Nat : [bad EXCEPT !.link = n] \in PostRecord
      BY <1>3 DEF PostRecord
    <3>3. r.link = bad.link + 1 /\ r.at = bad.at /\ r.way = bad.way
      BY <1>3, <3>1 DEF PostRecord
    <3>4. r.st = bad.st /\ r.rows = bad.rows /\ r.here = bad.here /\ r.bad = bad.bad
      BY <1>3, <3>1 DEF PostRecord
    <3>5. Broadcasts(p, r) /\ r \in PostRecord
      BY <1>1, <2>1, <3>1, <3>2
    <3> HIDE DEF r
    <3>6. bad.here = {}
      BY <1>1, <1>4, Settled
    <3> QED BY <1>4, <3>1, <3>3, <3>4, <3>5, <3>6
  <2>2. CASE ~(bad.link < Len(LinksOf(p)))
    BY <1>1, <1>3, <1>4, <2>2, OverRecord
  <2> QED BY <2>1, <2>2
<1>6. Reported(p, r, closed, noted')
  <2>1. p \notin closed => \A m \in noted : m[1] = p => RowOf(m) \in post[p].rows
    BY <1>1, Settled
  <2>2. \A row \in post[p].rows : NoteOf(p, row) \in noted
    BY <1>1, Settled
  <2>3. r.rows = post[p].rows /\ r.here = {} /\ r.at \notin Unlinked \cup {"open"}
    BY <1>3, <1>5 DEF Unlinked
  <2> QED BY <1>1, <2>1, <2>2, <2>3 DEF Reported
<1>7. Whole(p, r, closed)
  BY <1>5 DEF Whole, Holding
<1>8. r.at \in Holding \cup {"audit"} /\ (r.at \in Holding => r.at = "link") /\ r.at # "gap"
  BY <1>5 DEF Holding
<1>9. (r.at \in Holding => r.link \in 1 .. Len(LinksOf(p)))
      /\ (r.way = "form" => r.at \in Holding /\ user' \in {LoginOf[p], NoLogin})
  BY <1>1, <1>2, <1>4, <1>5, <1>8
<1>10. said' = said /\ noted' = noted /\ user' = user /\ r.st = post[p].st
  BY <1>1, <1>3, <1>5
<1> QED BY <1>1, <1>2, <1>5, <1>6, <1>7, <1>8, <1>9, <1>10, BroadcastMoves

\* A link that fails before it has rows, or once the window is closed.
LEMMA FailsKeeps ==
    ASSUME ManualInv, NEW p \in Posts, post[p].at \in Holding, Broadcasts(p, LinkFails(p, post[p])),
           post[p].at = "scan" \/ post[p].at = "link" \/ p \in closed,
           LinksOf(p)[post[p].link] # {}, UNCHANGED <<said, user, noted>>
    PROVE  ManualInv'
<1> DEFINE x == [post[p] EXCEPT !.bad = TRUE]
<1>1. /\ post[p] \in PostRecord /\ user \in Logins \cup {NoLogin}
      /\ post[p].way = "form" => user \in {LoginOf[p], NoLogin}
      /\ noted \subseteq Notes
      /\ Reported(p, post[p], closed, noted)
  BY Broadcasting
<1>2. x \in PostRecord /\ x.st = post[p].st /\ x.link = post[p].link
      /\ x.rows = post[p].rows
  BY <1>1 DEF PostRecord
<1>3. x.way = post[p].way /\ x.bad = TRUE
  BY <1>1 DEF PostRecord
<1>4. Broadcasts(p, NextLink(p, x))
  BY DEF LinkFails
<1> HIDE DEF x
<1>5. p \notin closed => \A m \in noted : m[1] = p => RowOf(m) \in x.rows
  BY <1>2, Settled
<1>6. \A row \in x.rows : NoteOf(p, row) \in noted'
  BY <1>1, <1>2 DEF Reported
<1> QED BY <1>1, <1>2, <1>3, <1>4, <1>5, <1>6, LinkMoves

\* The login is ensured, or the broadcast turns to the channels.
LEMMA EnsureMoves ==
    ASSUME ManualInv, NEW p \in Posts, post[p].at \in {"link", "scan"}, NEW r \in PostRecord,
           r.at \in {"scan", "channel"}, r.st = post[p].st, r.link = post[p].link,
           r.rows = post[p].rows, r.here = post[p].here, r.bad = post[p].bad,
           r.way = "form" => user' \in {LoginOf[p], NoLogin}, user' \in Logins \cup {NoLogin},
           Broadcasts(p, r), LinksOf(p)[post[p].link] # {}, UNCHANGED <<said, noted>>
    PROVE  ManualInv'
<1>1. post[p].at \in Holding /\ r.at \in Holding /\ r.at \notin {"link", "gap"}
  BY DEF Holding
<1>2. /\ post[p].link \in 1 .. Len(LinksOf(p)) /\ said \subseteq Deliveries
      /\ noted \subseteq Notes
      /\ Reported(p, post[p], closed, noted) /\ Whole(p, post[p], closed)
  BY <1>1, Broadcasting
<1>3. Reported(p, r, closed, noted')
  BY <1>2, Settled DEF Reported, Unlinked
<1>4. Whole(p, r, closed)
  BY <1>1, <1>2 DEF Whole
<1> QED BY <1>1, <1>2, <1>3, <1>4, BroadcastMoves

LEMMA EnsuresKeeps ==
    ASSUME ManualInv, NEW p \in Posts, post[p].at \in {"link", "scan"}, NEW r \in PostRecord,
           r.at \in {"scan", "channel"}, r.st = post[p].st, r.link = post[p].link,
           r.rows = post[p].rows, r.here = post[p].here, r.bad = post[p].bad, r.way = post[p].way,
           EnsuresLogin(p, r), LinksOf(p)[post[p].link] # {}, UNCHANGED <<said, noted>>
    PROVE  ManualInv'
<1>1. /\ user \in Logins \cup {NoLogin} /\ LoginOf[p] \in Logins
      /\ post[p].way = "form" => user \in {LoginOf[p], NoLogin}
  BY Broadcasting DEF Holding
<1>2. CASE LooksLoggedIn(p, r)
  BY <1>1, <1>2, EnsureMoves DEF LooksLoggedIn
<1>3. CASE FormLogin(p, r)
  <2> DEFINE n == [r EXCEPT !.way = "form"]
  <2>1. n \in PostRecord /\ n.at = r.at /\ n.st = r.st /\ n.link = r.link
    BY DEF PostRecord
  <2>2. n.rows = r.rows /\ n.here = r.here /\ n.bad = r.bad
    BY DEF PostRecord
  <2>3. Broadcasts(p, n) /\ user' = LoginOf[p]
    BY <1>3 DEF FormLogin
  <2> HIDE DEF n
  <2> QED BY <1>1, <2>1, <2>2, <2>3, EnsureMoves
<1>4. CASE HandLogin(p, r)
  <2> DEFINE n == [r EXCEPT !.way = "hand"]
  <2>1. n \in PostRecord /\ n.at = r.at /\ n.st = r.st /\ n.link = r.link
    BY DEF PostRecord
  <2>2. n.rows = r.rows /\ n.here = r.here /\ n.bad = r.bad /\ n.way = "hand"
    BY DEF PostRecord
  <2>3. Broadcasts(p, n) /\ user' \in Logins
    BY <1>4 DEF HandLogin
  <2> HIDE DEF n
  <2> QED BY <1>1, <2>1, <2>2, <2>3, EnsureMoves
<1> QED BY <1>2, <1>3, <1>4 DEF EnsuresLogin

LEMMA ArrivesKeeps == ASSUME ManualInv, NEW p \in Posts, Arrives(p) PROVE ManualInv'
<1> DEFINE to == LinksOf(p)[post[p].link]
           direct == Cardinality(to) = 1
           at == IF direct THEN "channel" ELSE "scan"
           left == IF direct THEN to ELSE {}
           r == [post[p] EXCEPT !.at = at, !.left = left]
<1>1. /\ post[p].at = "link" /\ post[p].at \in Holding /\ to # {}
      /\ LoginFails(p) \/ EnsuresLogin(p, r)
      /\ UNCHANGED <<said, noted>>
  BY DEF Arrives, PostAt, Holding
<1>2. post[p] \in PostRecord /\ to \subseteq Channels
  BY <1>1, Broadcasting
<1>3. CASE LoginFails(p)
  BY <1>1, <1>3, FailsKeeps DEF LoginFails
<1>4. CASE EnsuresLogin(p, r)
  <2>1. at \in {"scan", "channel"} /\ left \in SUBSET Channels
    BY <1>2
  <2> HIDE DEF at, left
  <2>2. r \in PostRecord
    BY <1>2, <2>1 DEF PostRecord
  <2>3. r.at = at /\ r.st = post[p].st /\ r.link = post[p].link /\ r.way = post[p].way
    BY <1>2 DEF PostRecord
  <2>4. r.rows = post[p].rows /\ r.here = post[p].here /\ r.bad = post[p].bad
    BY <1>2 DEF PostRecord
  <2> HIDE DEF r
  <2> QED BY <1>1, <1>4, <2>1, <2>2, <2>3, <2>4, EnsuresKeeps
<1> QED BY <1>1, <1>3, <1>4

\* A link is done with all its rows.
LEMMA DoneKeeps ==
    ASSUME ManualInv, NEW p \in Posts, post[p].at \in Holding, NEW r \in PostRecord,
           Broadcasts(p, LinkDone(p, r)), r.link = post[p].link, r.st = post[p].st,
           r.bad = post[p].bad, r.way = post[p].way, r.rows = post[p].rows,
           LinksOf(p)[post[p].link] # {}, UNCHANGED <<said, user>>,
           noted \subseteq noted', noted' \subseteq Notes,
           \A m \in noted' \ noted : m[1] = p,
           p \notin closed => \A m \in noted' : m[1] = p => RowOf(m) \in r.rows \cup r.here,
           \A row \in r.rows \cup r.here : NoteOf(p, row) \in noted',
           p \in closed => \E row \in r.here : row.how = "failed"
    PROVE  ManualInv'
<1> DEFINE all == r.rows \cup r.here
           x == [r EXCEPT !.rows = all]
<1>1. user \in Logins \cup {NoLogin}
      /\ (post[p].way = "form" => user \in {LoginOf[p], NoLogin})
  BY Broadcasting
<1>2. all \in SUBSET ChannelRows
  BY DEF PostRecord
<1>3. Broadcasts(p, NextLink(p, x))
  BY DEF LinkDone
<1> HIDE DEF all
<1>4. x \in PostRecord /\ x.rows = all /\ x.link = r.link
  BY <1>2 DEF PostRecord
<1>5. x.st = r.st /\ x.bad = r.bad /\ x.way = r.way
  BY <1>2 DEF PostRecord
<1> HIDE DEF x
<1>6. p \notin closed => \A m \in noted' : m[1] = p => RowOf(m) \in x.rows
  BY <1>4 DEF all
<1>7. \A row \in x.rows : NoteOf(p, row) \in noted'
  BY <1>4 DEF all
<1>8. p \in closed => \E row \in x.rows : row.how = "failed"
  BY <1>4 DEF all
<1> QED BY <1>1, <1>3, <1>4, <1>5, <1>6, <1>7, <1>8, LinkMoves

\* The row of a channel is written.
LEMMA RowKeeps ==
    ASSUME ManualInv, NEW p \in Posts, post[p].at \in {"channel", "confirm"}, NEW c \in Channels,
           NEW how \in {"posted", "skipped", "failed"}, WritesRow(p, c, how),
           UNCHANGED <<said, user>>, p \in closed => how = "failed"
    PROVE  ManualInv'
<1> DEFINE row == [link |-> post[p].link, chan |-> c, how |-> how]
           here == post[p].here \cup {row}
           left == post[p].left \ {c}
           r == [post[p] EXCEPT !.here = here, !.left = left, !.sent = {}]
           q == [r EXCEPT !.at = "pause"]
<1>1. post[p].at \in Holding /\ post[p].at # "link"
  BY DEF Holding
<1>2. /\ post[p] \in PostRecord /\ post[p].link \in 1 .. Len(LinksOf(p))
      /\ post[p].link \in Nat /\ LinksOf(p)[post[p].link] # {}
      /\ post[p].way = "form" => user \in {LoginOf[p], NoLogin}
      /\ user \in Logins \cup {NoLogin} /\ said \subseteq Deliveries
      /\ noted \subseteq Notes
      /\ Reported(p, post[p], closed, noted) /\ Whole(p, post[p], closed)
  BY <1>1, Broadcasting
<1>3. row \in ChannelRows
  BY <1>2 DEF ChannelRows
<1>4. here \in SUBSET ChannelRows /\ left \in SUBSET Channels
  BY <1>2, <1>3 DEF PostRecord
<1>5. Broadcasts(p, IF r.left = {} THEN LinkDone(p, r) ELSE q)
  BY DEF WritesRow, ChannelDone
<1> DEFINE note == <<p, post[p].link, c, how>>
<1>6. noted' = noted \cup {note} /\ note \in Notes
  BY <1>2 DEF WritesRow, Notes
<1>7. noted \subseteq noted' /\ noted' \subseteq Notes /\ \A m \in noted' \ noted : m[1] = p
  BY <1>2, <1>6
<1>8. p \notin closed => \A m \in noted' : m[1] = p => RowOf(m) \in post[p].rows \cup here
  <2> SUFFICES ASSUME p \notin closed, NEW m \in noted', m[1] = p
               PROVE  RowOf(m) \in post[p].rows \cup here
    OBVIOUS
  <2>1. CASE m \in noted
    BY <1>2, <2>1 DEF Reported
  <2>2. CASE m \notin noted
    <3>1. m = note
      BY <1>6, <2>2
    <3>2. RowOf(m) = row
      BY <3>1 DEF RowOf
    <3> QED BY <3>2
  <2> QED BY <2>1, <2>2
<1>9. \A o \in post[p].rows \cup here : NoteOf(p, o) \in noted'
  <2> SUFFICES ASSUME NEW o \in post[p].rows \cup here PROVE NoteOf(p, o) \in noted'
    OBVIOUS
  <2>1. CASE o \in post[p].rows \cup post[p].here
    BY <1>2, <1>6, <2>1 DEF Reported
  <2>2. CASE o = row
    BY <1>6, <2>2 DEF NoteOf
  <2> QED BY <2>1, <2>2
<1>10. p \in closed => \E o \in here : o.how = "failed"
  <2>1. row \in here /\ row.how = how
    OBVIOUS
  <2> HIDE DEF row, here
  <2> QED BY <2>1
<1> HIDE DEF row, here, left
<1>11. r \in PostRecord
  BY <1>2, <1>4 DEF PostRecord
<1>12. r.here = here /\ r.rows = post[p].rows /\ r.bad = post[p].bad
  BY <1>2 DEF PostRecord
<1>13. r.link = post[p].link /\ r.st = post[p].st /\ r.way = post[p].way
  BY <1>2 DEF PostRecord
<1> HIDE DEF r
<1>14. CASE r.left = {}
  <2>1. Broadcasts(p, LinkDone(p, r))
    BY <1>5, <1>14
  <2> QED BY <1>1, <1>2, <1>7, <1>8, <1>9, <1>10, <1>11, <1>12, <1>13, <2>1, DoneKeeps
<1>15. CASE r.left # {}
  <2>1. q \in PostRecord /\ q.at = "pause" /\ q.here = r.here /\ q.rows = r.rows
    BY <1>11 DEF PostRecord
  <2>2. q.bad = r.bad /\ q.link = r.link /\ q.st = r.st /\ q.way = r.way
    BY <1>11 DEF PostRecord
  <2>3. Broadcasts(p, q)
    BY <1>5, <1>15
  <2> HIDE DEF q
  <2>4. Reported(p, q, closed, noted')
    BY <1>8, <1>9, <1>12, <2>1 DEF Reported, Unlinked
  <2>5. Whole(p, q, closed)
    BY <1>1, <1>2, <1>12, <1>13, <2>1, <2>2 DEF Whole
  <2>6. q.at \in Holding
    BY <2>1 DEF Holding
  <2>7. said' = said /\ user' = user
    OBVIOUS
  <2> QED BY <1>1, <1>2, <1>7, <1>13, <2>1, <2>2, <2>3, <2>4, <2>5, <2>6, <2>7, BroadcastMoves
<1> QED BY <1>14, <1>15

LEMMA ScansKeeps == ASSUME ManualInv, NEW p \in Posts, Scans(p) PROVE ManualInv'
<1>1. /\ post[p].at = "scan" /\ post[p].at \in Holding /\ UNCHANGED <<said, noted>>
      /\ FindsChannels(p) \/ RecoversLogin(p) \/ LoginFails(p)
  BY DEF Scans, PostAt, Holding
<1>2. /\ post[p] \in PostRecord /\ LinksOf(p)[post[p].link] # {}
      /\ LinksOf(p)[post[p].link] \subseteq Channels
      /\ noted \subseteq Notes
      /\ user \in Logins \cup {NoLogin}
      /\ post[p].way = "form" => user \in {LoginOf[p], NoLogin}
  BY <1>1, Broadcasting
<1>3. CASE LoginFails(p)
  BY <1>1, <1>2, <1>3, FailsKeeps DEF LoginFails
<1>4. CASE RecoversLogin(p)
  <2> DEFINE r == [post[p] EXCEPT !.tries = @ + 1]
  <2>1. EnsuresLogin(p, r) /\ post[p].tries < AuthAttempts
    BY <1>4 DEF RecoversLogin
  <2>2. post[p].tries + 1 \in 1 .. AuthAttempts
    BY <1>2, <2>1 DEF PostRecord, AuthAttempts
  <2>3. \A n \in 1 .. AuthAttempts : [post[p] EXCEPT !.tries = n] \in PostRecord
    BY <1>2 DEF PostRecord
  <2>4. r = [post[p] EXCEPT !.tries = post[p].tries + 1]
    BY <1>2 DEF PostRecord
  <2>5. r.at = "scan" /\ r.st = post[p].st /\ r.link = post[p].link /\ r.way = post[p].way
    BY <1>1, <1>2 DEF PostRecord
  <2>6. r.rows = post[p].rows /\ r.here = post[p].here /\ r.bad = post[p].bad
    BY <1>2 DEF PostRecord
  <2>7. r \in PostRecord
    BY <2>2, <2>3, <2>4
  <2> HIDE DEF r
  <2> QED BY <1>1, <1>2, <2>1, <2>5, <2>6, <2>7, EnsuresKeeps
<1>5. CASE FindsChannels(p)
  <2>1. PICK ch \in Chosen(p) :
           Broadcasts(p, IF ch = {} THEN LinkDone(p, post[p])
                         ELSE [post[p] EXCEPT !.at = "channel", !.left = ch])
    BY <1>5 DEF FindsChannels
  <2>2. ch \in SUBSET Channels /\ user' = user /\ p \notin closed
    BY <1>2, <1>5 DEF Chosen, FindsChannels
  <2>3. CASE ch = {}
    <3>1. Broadcasts(p, LinkDone(p, post[p]))
      BY <2>1, <2>3
    <3>2. post[p].rows \cup post[p].here = post[p].rows
          /\ (\A m \in noted : m[1] = p => RowOf(m) \in post[p].rows)
          /\ (\A row \in post[p].rows : NoteOf(p, row) \in noted)
      BY <1>1, <2>2, Settled
    <3>3. noted' = noted /\ said' = said
      BY <1>1
    <3> QED BY <1>1, <1>2, <2>2, <3>1, <3>2, <3>3, DoneKeeps
  <2>4. CASE ch # {}
    <3> DEFINE r == [post[p] EXCEPT !.at = "channel", !.left = ch]
    <3>1. r \in PostRecord
      BY <1>2, <2>2 DEF PostRecord
    <3>2. r.at = "channel" /\ r.st = post[p].st /\ r.link = post[p].link /\ r.way = post[p].way
      BY <1>2 DEF PostRecord
    <3>3. r.rows = post[p].rows /\ r.here = post[p].here /\ r.bad = post[p].bad
      BY <1>2 DEF PostRecord
    <3>4. Broadcasts(p, r)
      BY <2>1, <2>4
    <3> HIDE DEF r
    <3> QED BY <1>1, <1>2, <2>2, <3>1, <3>2, <3>3, <3>4, EnsureMoves
  <2> QED BY <2>3, <2>4
<1> QED BY <1>1, <1>3, <1>4, <1>5

\* The message shows, or not, under the login whose session the profile holds.
LEMMA SaysIn ==
    ASSUME ManualInv, NEW p \in Posts, post[p].at \in Holding, NEW c \in Channels, user # NoLogin
    PROVE  /\ Delivery(p, c) \in Deliveries
           /\ Delivery(p, c).by # LoginOf[Delivery(p, c).post] => Delivery(p, c).way # "form"
<1>1. /\ post[p] \in PostRecord /\ post[p].link \in Nat /\ user \in Logins
      /\ post[p].way = "form" => user = LoginOf[p]
  BY Broadcasting
<1>2. post[p].way \in {"found", "form", "hand"}
  BY <1>1 DEF PostRecord
<1> QED BY <1>1, <1>2 DEF Delivery, Deliveries

\* Each row of a channel, in either place, and the message that is sent.
LEMMA RowsKeep ==
    ASSUME ManualInv, NEW p \in Posts, post[p].at \in {"channel", "confirm"}, NEW c \in Channels,
           SkipsChannel(p, c) \/ WritesRow(p, c, "failed") \/ Confirmed(p, c),
           UNCHANGED <<said, user>>
    PROVE  ManualInv'
<1>1. CASE SkipsChannel(p, c)
  BY <1>1, RowKeeps DEF SkipsChannel
<1>2. CASE WritesRow(p, c, "failed")
  BY <1>2, RowKeeps
<1>3. CASE Confirmed(p, c)
  BY <1>3, RowKeeps DEF Confirmed
<1> QED BY <1>1, <1>2, <1>3

LEMMA SubmitsKeeps ==
    ASSUME ManualInv, NEW p \in Posts, post[p].at = "channel", NEW c \in Channels,
           Submits(p, c), UNCHANGED user
    PROVE  ManualInv'
<1> DEFINE r == [post[p] EXCEPT !.at = "confirm", !.sent = {c}]
<1>1. post[p].at \in Holding /\ noted' = noted /\ Broadcasts(p, r)
      /\ said' \in {said} \cup (IF user = NoLogin THEN {} ELSE {said \cup {Delivery(p, c)}})
  BY DEF Submits, Holding
<1>2. /\ post[p] \in PostRecord /\ LinksOf(p)[post[p].link] # {} /\ window = p
      /\ post[p].link \in 1 .. Len(LinksOf(p)) /\ said \subseteq Deliveries
      /\ noted \subseteq Notes /\ user \in Logins \cup {NoLogin}
      /\ post[p].way = "form" => user \in {LoginOf[p], NoLogin}
      /\ Reported(p, post[p], closed, noted) /\ Whole(p, post[p], closed)
  BY <1>1, Broadcasting
<1>3. said' = said \/ (user # NoLogin /\ said' = said \cup {Delivery(p, c)})
  BY <1>1
<1>4. said \subseteq said' /\ said' \subseteq Deliveries
      /\ \A m \in said' \ said : m.by # LoginOf[m.post] => m.way # "form"
  BY <1>1, <1>2, <1>3, SaysIn
<1>5. r \in PostRecord
  BY <1>2 DEF PostRecord
<1>6. r.at = "confirm" /\ r.st = post[p].st /\ r.link = post[p].link /\ r.way = post[p].way
  BY <1>2 DEF PostRecord
<1>7. r.rows = post[p].rows /\ r.here = post[p].here /\ r.bad = post[p].bad
  BY <1>2 DEF PostRecord
<1> HIDE DEF r
<1>8. Reported(p, r, closed, noted')
  BY <1>1, <1>2, <1>6, <1>7 DEF Reported, Unlinked
<1>9. Whole(p, r, closed)
  BY <1>1, <1>2, <1>6, <1>7 DEF Whole
<1>10. r.at \in Holding
  BY <1>6 DEF Holding
<1> QED BY <1>1, <1>2, <1>4, <1>5, <1>6, <1>8, <1>9, <1>10, BroadcastMoves

LEMMA EntersKeeps == ASSUME ManualInv, NEW p \in Posts, Enters(p) PROVE ManualInv'
<1>1. post[p].at = "channel" /\ user' = user
  BY DEF Enters, PostAt
<1>2. PICK c \in post[p].left :
         \/ (SkipsChannel(p, c) \/ WritesRow(p, c, "failed")) /\ UNCHANGED said
         \/ Submits(p, c)
  BY DEF Enters
<1>3. c \in Channels
  BY PostIn DEF PostRecord
<1> QED BY <1>1, <1>2, <1>3, RowsKeep, SubmitsKeeps

LEMMA ConfirmsKeeps == ASSUME ManualInv, NEW p \in Posts, Confirms(p) PROVE ManualInv'
<1>1. post[p].at = "confirm" /\ UNCHANGED <<said, user>>
  BY DEF Confirms, PostAt
<1>2. PICK c \in post[p].sent :
         SkipsChannel(p, c) \/ WritesRow(p, c, "failed") \/ Confirmed(p, c)
  BY DEF Confirms
<1>3. c \in Channels
  BY PostIn DEF PostRecord
<1> QED BY <1>1, <1>2, <1>3, RowsKeep

LEMMA PausesKeeps == ASSUME ManualInv, NEW p \in Posts, Pauses(p) PROVE ManualInv'
<1>1. post[p].at = "pause" /\ post[p].at \in Holding /\ UNCHANGED <<said, user, noted>>
  BY DEF Pauses, PostAt, Holding
<1>2. /\ post[p] \in PostRecord /\ LinksOf(p)[post[p].link] # {}
      /\ post[p].link \in 1 .. Len(LinksOf(p)) /\ said \subseteq Deliveries
      /\ noted \subseteq Notes /\ user \in Logins \cup {NoLogin}
      /\ post[p].way = "form" => user \in {LoginOf[p], NoLogin}
      /\ Reported(p, post[p], closed, noted) /\ Whole(p, post[p], closed)
  BY <1>1, Broadcasting
<1>3. CASE p \in closed
  <2>1. Broadcasts(p, LinkFails(p, post[p]))
    BY <1>3 DEF Pauses
  <2> QED BY <1>1, <1>2, <1>3, <2>1, FailsKeeps
<1>4. CASE p \notin closed
  <2> DEFINE r == [post[p] EXCEPT !.at = "channel"]
  <2>1. r \in PostRecord
    BY <1>2 DEF PostRecord
  <2>2. r.at = "channel" /\ r.st = post[p].st /\ r.link = post[p].link /\ r.way = post[p].way
    BY <1>2 DEF PostRecord
  <2>3. r.rows = post[p].rows /\ r.here = post[p].here /\ r.bad = post[p].bad
    BY <1>2 DEF PostRecord
  <2>4. Broadcasts(p, r)
    BY <1>4 DEF Pauses
  <2> HIDE DEF r
  <2>5. Reported(p, r, closed, noted')
    BY <1>1, <1>2, <2>2, <2>3 DEF Reported, Unlinked
  <2>6. Whole(p, r, closed)
    BY <1>1, <1>2, <2>2, <2>3 DEF Whole
  <2>7. r.at \in Holding /\ noted' = noted /\ user' = user /\ said' = said
    BY <1>1, <2>2 DEF Holding
  <2> QED BY <1>1, <1>2, <2>1, <2>2, <2>4, <2>5, <2>6, <2>7, BroadcastMoves
<1> QED BY <1>3, <1>4

LEMMA PausesLongKeeps == ASSUME ManualInv, NEW p \in Posts, PausesLong(p) PROVE ManualInv'
<1>1. post[p].at = "gap" /\ post[p].at \in Holding /\ UNCHANGED <<said, user, noted>>
  BY DEF PausesLong, PostAt, Holding
<1>2. /\ post[p] \in PostRecord /\ LinksOf(p)[post[p].link] # {}
      /\ post[p].link \in 1 .. Len(LinksOf(p)) /\ said \subseteq Deliveries
      /\ post[p].link \in Nat /\ Len(LinksOf(p)) \in Nat
      /\ noted \subseteq Notes /\ user \in Logins \cup {NoLogin}
      /\ post[p].way = "form" => user \in {LoginOf[p], NoLogin}
      /\ Reported(p, post[p], closed, noted) /\ Whole(p, post[p], closed)
  BY <1>1, Broadcasting
<1>3. noted' = noted /\ user' = user /\ said' = said
  BY <1>1
<1>4. CASE p \in closed
  <2> DEFINE x == [post[p] EXCEPT !.bad = TRUE, !.rows = {}]
             r == Over(x)
  <2>1. x \in PostRecord
    BY <1>2 DEF PostRecord
  <2>2. x.st = post[p].st /\ x.rows = {} /\ x.bad = TRUE
    BY <1>2 DEF PostRecord
  <2>3. Broadcasts(p, r)
    BY <1>4 DEF PausesLong
  <2> HIDE DEF x
  <2>4. /\ r \in PostRecord /\ r.at = "audit" /\ r.st = post[p].st /\ r.here = {}
        /\ r.rows = {} /\ r.bad /\ r.way = "found"
    BY <2>1, <2>2, OverRecord
  <2> HIDE DEF r
  <2>5. Reported(p, r, closed, noted')
    BY <1>4, <2>4 DEF Reported, Unlinked
  <2>6. Whole(p, r, closed)
    BY <2>4 DEF Whole, Holding
  <2>7. r.at \notin Holding
    BY <2>4 DEF Holding
  <2> QED BY <1>1, <1>2, <1>3, <2>3, <2>4, <2>5, <2>6, <2>7, BroadcastMoves
<1>5. CASE p \notin closed
  <2> DEFINE r == [post[p] EXCEPT !.at = "link", !.link = @ + 1]
  <2>1. post[p].link < Len(LinksOf(p))
    BY <1>1, PostIn DEF Fit
  <2>2. post[p].link + 1 \in 1 .. Len(LinksOf(p)) /\ post[p].link + 1 \in Nat
    BY <1>2, <2>1
  <2>3. \A n \in Nat : [post[p] EXCEPT !.at = "link", !.link = n] \in PostRecord
    BY <1>2 DEF PostRecord
  <2>4. r = [post[p] EXCEPT !.at = "link", !.link = post[p].link + 1]
    BY <1>2 DEF PostRecord
  <2>5. r.at = "link" /\ r.st = post[p].st /\ r.link = post[p].link + 1 /\ r.way = post[p].way
    BY <1>2 DEF PostRecord
  <2>6. r.rows = post[p].rows /\ r.here = post[p].here /\ r.bad = post[p].bad
    BY <1>2 DEF PostRecord
  <2>7. Broadcasts(p, r) /\ r \in PostRecord
    BY <1>5, <2>2, <2>3, <2>4 DEF PausesLong
  <2> HIDE DEF r
  <2>8. Reported(p, r, closed, noted')
    BY <1>1, <1>2, <1>3, <2>5, <2>6 DEF Reported, Unlinked
  <2>9. ~r.bad => \A n \in 1 .. (r.link - 1) : LinksOf(p)[n] # {}
    <3> SUFFICES ASSUME ~r.bad, NEW n \in 1 .. (r.link - 1) PROVE LinksOf(p)[n] # {}
      OBVIOUS
    <3>1. n = post[p].link \/ n \in 1 .. (post[p].link - 1)
      BY <1>2, <2>5
    <3> QED BY <1>1, <1>2, <2>6, <3>1 DEF Whole
  <2>10. Whole(p, r, closed)
    BY <2>5, <2>9 DEF Whole
  <2>11. r.at \in Holding
    BY <2>5 DEF Holding
  <2> QED BY <1>1, <1>2, <1>3, <2>2, <2>5, <2>7, <2>8, <2>10, <2>11, BroadcastMoves
<1> QED BY <1>4, <1>5

-----------------------------------------------------------------------------
(* The window, the session, the answer.                                    *)

LEMMA WindowClosesKeeps == ASSUME ManualInv, NEW p \in Posts, WindowCloses(p) PROVE ManualInv'
<1>1. /\ window = p /\ closed' = closed \cup {p}
      /\ UNCHANGED <<ask, post, cleared, said, user, window, charges, noted>>
  BY DEF WindowCloses
<1>2. ManualTypeOK'
  BY <1>1, ManualTypesApart, TypesNext DEF ManualInv
<1>3. SenderExplained'
  BY <1>1 DEF ManualInv, SenderExplained
<1>4. ASSUME NEW q \in Posts
      PROVE  /\ Fit(q, post[q], window, user)' /\ Charged(q, post[q], charges[q])'
             /\ SentOff(q, post[q], cleared)' /\ Reported(q, post[q], closed, noted)'
             /\ Whole(q, post[q], closed)'
  <2>1. /\ Fit(q, post[q], window, user) /\ Charged(q, post[q], charges[q])
        /\ SentOff(q, post[q], cleared) /\ Reported(q, post[q], closed, noted)
        /\ Whole(q, post[q], closed)
    BY DEF ManualInv
  <2>2. Fit(q, post[q], window, user)' /\ Charged(q, post[q], charges[q])'
        /\ SentOff(q, post[q], cleared)'
    BY <1>1, <2>1 DEF Fit, Charged, SentOff, LinksOf
  <2>3. q # p => (q \in closed' <=> q \in closed)
    BY <1>1
  <2>4. q = p => post[q].at \in Holding
    BY <1>1, <2>1 DEF Fit
  <2>5. Reported(q, post[q], closed, noted)'
    BY <1>1, <2>1, <2>3, <2>4 DEF Reported, RowOf, NoteOf, Unlinked, Holding
  <2>6. Whole(q, post[q], closed)'
    BY <1>1, <2>1, <2>3, <2>4 DEF Whole, LinksOf, Holding
  <2> QED BY <2>2, <2>5, <2>6
<1> QED BY <1>2, <1>3, <1>4 DEF ManualInv

LEMMA SiteLogsOutKeeps == ASSUME ManualInv, NEW p \in Posts, SiteLogsOut(p) PROVE ManualInv'
<1>1. /\ window = p /\ user' = NoLogin
      /\ UNCHANGED <<ask, post, cleared, said, window, closed, charges, noted>>
  BY DEF SiteLogsOut
<1>2. ManualTypeOK'
  BY <1>1, ManualTypesApart, TypesNext DEF ManualInv
<1>3. SenderExplained'
  BY <1>1 DEF ManualInv, SenderExplained
<1>4. ASSUME NEW q \in Posts
      PROVE  /\ Fit(q, post[q], window, user)' /\ Charged(q, post[q], charges[q])'
             /\ SentOff(q, post[q], cleared)' /\ Reported(q, post[q], closed, noted)'
             /\ Whole(q, post[q], closed)'
  <2>1. /\ Fit(q, post[q], window, user) /\ Charged(q, post[q], charges[q])
        /\ SentOff(q, post[q], cleared) /\ Reported(q, post[q], closed, noted)
        /\ Whole(q, post[q], closed)
    BY DEF ManualInv
  <2>2. Fit(q, post[q], window, user)'
    BY <1>1, <2>1 DEF Fit, LinksOf
  <2>3. Charged(q, post[q], charges[q])' /\ SentOff(q, post[q], cleared)'
    BY <1>1, <2>1 DEF Charged, SentOff
  <2>4. Reported(q, post[q], closed, noted)' /\ Whole(q, post[q], closed)'
    BY <1>1, <2>1 DEF Reported, RowOf, NoteOf, Whole, LinksOf
  <2> QED BY <2>2, <2>3, <2>4
<1> QED BY <1>2, <1>3, <1>4 DEF ManualInv

LEMMA AnswersPostKeeps == ASSUME ManualInv, NEW p \in Posts, AnswersPost(p) PROVE ManualInv'
<1>1. /\ post[p].at = "audit"
      /\ UNCHANGED <<ask, cleared, said, user, window, closed, charges, noted>>
  BY DEF AnswersPost, PostAt
<1>2. /\ post[p] \in PostRecord /\ Fit(p, post[p], window, user)
      /\ Charged(p, post[p], charges[p]) /\ SentOff(p, post[p], cleared)
      /\ Whole(p, post[p], closed)
      /\ user \in Logins \cup {NoLogin} /\ window \in Posts \cup {NoPost}
      /\ cleared \subseteq Posts \X Nat /\ said \subseteq Deliveries
      /\ noted \subseteq Notes /\ charges \in [Posts -> Seq(BOOLEAN)]
  BY PostIn
<1>3. window # p
  BY <1>1, <1>2 DEF Fit, Holding
<1>4. NewPost \in PostRecord
  BY DEF NewPost, PostRecord, AuthAttempts
<1>5. NewPost.way = "found" /\ NewPost.here = {} /\ NewPost.rows = {} /\ NewPost.st = FALSE
      /\ NewPost.ok = FALSE
  BY DEF NewPost
<1>6. CASE Turns(p, [NewPost EXCEPT !.at = "thrown"])
  <2> DEFINE r == [NewPost EXCEPT !.at = "thrown"]
  <2>1. r \in PostRecord
    BY <1>4 DEF PostRecord
  <2>2. r.at = "thrown" /\ r.way = "found" /\ r.here = {} /\ r.rows = {} /\ r.st = FALSE
    BY <1>4, <1>5 DEF PostRecord
  <2>3. Turns(p, r)
    BY <1>6
  <2> HIDE DEF r
  <2>4. Fit(p, r, window', user') /\ Reported(p, r, closed, noted')
    BY <1>1, <1>3, <2>2 DEF Fit, Reported, Holding, Unlinked
  <2>5. Charged(p, r, charges'[p]) /\ SentOff(p, r, cleared')
    BY <1>1, <1>2, <2>2 DEF Charged, SentOff, Unlinked
  <2>6. Whole(p, r, closed)
    BY <2>2 DEF Whole, Holding
  <2> QED BY <1>1, <1>2, <2>1, <2>3, <2>4, <2>5, <2>6, MovesOn
<1>7. ASSUME NEW ok \in BOOLEAN, ok => post[p].st /\ DiscordOK(p),
             Turns(p, [NewPost EXCEPT !.at = "answered", !.rows = post[p].rows,
                                      !.st = post[p].st, !.ok = ok])
      PROVE  ManualInv'
  <2> DEFINE a == [NewPost EXCEPT !.at = "answered", !.rows = post[p].rows]
             r == [a EXCEPT !.st = post[p].st, !.ok = ok]
  <2>1. r = [NewPost EXCEPT !.at = "answered", !.rows = post[p].rows,
                            !.st = post[p].st, !.ok = ok]
    BY Zenon
  <2>2. a \in PostRecord
    BY <1>2, <1>4 DEF PostRecord
  <2>3. a.at = "answered" /\ a.rows = post[p].rows /\ a.here = {} /\ a.way = "found"
    BY <1>4, <1>5 DEF PostRecord
  <2> HIDE DEF a
  <2>4. r \in PostRecord
    BY <1>2, <2>2 DEF PostRecord
  <2>5. r.at = a.at /\ r.rows = a.rows /\ r.here = a.here /\ r.way = a.way
    BY <2>2 DEF PostRecord
  <2>6. r.st = post[p].st /\ r.ok = ok
    BY <2>2 DEF PostRecord
  <2>7. Turns(p, r)
    BY <1>7, <2>1
  <2> HIDE DEF r
  <2>8. Fit(p, r, window', user')
    BY <1>1, <1>3, <2>3, <2>5 DEF Fit, Holding, Unlinked
  <2>9. Charged(p, r, charges'[p])
    BY <1>1, <1>2, <1>7, <2>3, <2>5, <2>6 DEF Charged, Unlinked
  <2>10. SentOff(p, r, cleared')
    BY <1>1, <1>2, <2>3, <2>5, <2>6 DEF SentOff
  <2>11. /\ p \notin closed => \A m \in noted : m[1] = p => RowOf(m) \in post[p].rows
         /\ \A row \in post[p].rows : NoteOf(p, row) \in noted
    BY <1>1, Settled
  <2>12. Reported(p, r, closed, noted')
    BY <1>1, <2>3, <2>5, <2>11 DEF Reported, Unlinked
  <2>13. r.ok /\ ask[p].discord =>
            /\ Len(LinksOf(p)) > 0 /\ \A n \in 1 .. Len(LinksOf(p)) : LinksOf(p)[n] # {}
            /\ p \notin closed /\ \A row \in r.rows : row.how # "failed"
            /\ \E row \in r.rows : row.how = "posted"
    BY <1>1, <1>2, <1>7, <2>3, <2>5, <2>6 DEF Whole, DiscordOK
  <2>14. Whole(p, r, closed)
    BY <1>1, <2>3, <2>5, <2>13 DEF Whole, Holding
  <2> QED BY <1>1, <1>2, <2>4, <2>7, <2>8, <2>9, <2>10, <2>12, <2>14, MovesOn
<1>8. CASE Turns(p, [NewPost EXCEPT !.at = "answered", !.rows = post[p].rows, !.st = post[p].st,
                                    !.ok = post[p].st /\ DiscordOK(p)])
  <2> DEFINE ok == post[p].st /\ DiscordOK(p)
  <2>1. ok \in BOOLEAN /\ (ok => post[p].st /\ DiscordOK(p))
    BY DEF DiscordOK
  <2> HIDE DEF ok
  <2>2. Turns(p, [NewPost EXCEPT !.at = "answered", !.rows = post[p].rows, !.st = post[p].st,
                                 !.ok = ok])
    BY <1>8 DEF ok
  <2> QED BY <1>7, <2>1, <2>2
<1> QED BY <1>6, <1>8 DEF AnswersPost

-----------------------------------------------------------------------------
LEMMA InitHolds == ManualInit => ManualInv
<1> SUFFICES ASSUME ManualInit PROVE ManualInv
  OBVIOUS
<1>1. NewPost \in PostRecord
  BY DEF NewPost, PostRecord, AuthAttempts
<1>2. <<>> \in Seq(BOOLEAN)
  OBVIOUS
<1>3. ManualTypeOK
  BY <1>1, <1>2, ManualTypesApart DEF ManualInit
<1>4. SenderExplained
  BY DEF ManualInit, SenderExplained
<1>5. ASSUME NEW p \in Posts
      PROVE  /\ Fit(p, post[p], window, user) /\ Charged(p, post[p], charges[p])
             /\ SentOff(p, post[p], cleared) /\ Reported(p, post[p], closed, noted)
             /\ Whole(p, post[p], closed)
  <2>1. post[p] = NewPost /\ charges[p] = <<>> /\ window # p
    BY ManualConstants DEF ManualInit
  <2>2. NewPost.at = "new" /\ NewPost.link = 1 /\ NewPost.item = 1 /\ NewPost.way = "found"
        /\ NewPost.st = FALSE /\ NewPost.rows = {} /\ NewPost.here = {}
    BY DEF NewPost
  <2>3. Fit(p, post[p], window, user)
    BY <2>1, <2>2 DEF Fit, Holding, Unlinked
  <2>4. Charged(p, post[p], charges[p]) /\ SentOff(p, post[p], cleared)
    BY <2>1, <2>2 DEF Charged, SentOff, Unlinked
  <2>5. Reported(p, post[p], closed, noted)
    BY <2>1, <2>2 DEF ManualInit, Reported, Unlinked
  <2>6. Whole(p, post[p], closed)
    BY <2>1, <2>2 DEF Whole, Holding
  <2> QED BY <2>3, <2>4, <2>5, <2>6
<1> QED BY <1>3, <1>4, <1>5 DEF ManualInv

LEMMA ManualStutterKeeps == ASSUME ManualInv, UNCHANGED manualVars PROVE ManualInv'
<1>1. UNCHANGED <<ask, post, cleared, said, user, window, closed, charges, noted>>
  BY DEF manualVars
<1>2. ManualTypeOK'
  BY <1>1, ManualTypesApart, TypesNext DEF ManualInv
<1>3. SenderExplained'
  BY <1>1 DEF ManualInv, SenderExplained
<1>4. ASSUME NEW q \in Posts
      PROVE  /\ Fit(q, post[q], window, user)' /\ Charged(q, post[q], charges[q])'
             /\ SentOff(q, post[q], cleared)' /\ Reported(q, post[q], closed, noted)'
             /\ Whole(q, post[q], closed)'
  <2>1. /\ Fit(q, post[q], window, user) /\ Charged(q, post[q], charges[q])
        /\ SentOff(q, post[q], cleared) /\ Reported(q, post[q], closed, noted)
        /\ Whole(q, post[q], closed)
    BY DEF ManualInv
  <2>2. Fit(q, post[q], window, user)'
    BY <1>1, <2>1 DEF Fit, LinksOf
  <2>3. Charged(q, post[q], charges[q])' /\ SentOff(q, post[q], cleared)'
    BY <1>1, <2>1 DEF Charged, SentOff
  <2>4. Reported(q, post[q], closed, noted)' /\ Whole(q, post[q], closed)'
    BY <1>1, <2>1 DEF Reported, RowOf, NoteOf, Whole, LinksOf
  <2> QED BY <2>2, <2>3, <2>4
<1> QED BY <1>2, <1>3, <1>4 DEF ManualInv

LEMMA ManualStepKeeps == ASSUME ManualInv, ManualNext PROVE ManualInv'
<1>1. PICK p \in Posts : PostStep(p) \/ WindowCloses(p) \/ SiteLogsOut(p)
  BY DEF ManualNext
<1> QED BY <1>1, ChecksKeeps, PicksKeeps, PostsItemKeeps, BrowserFailsKeeps, OpensKeeps,
           SkipsLinkKeeps, ArrivesKeeps, ScansKeeps, EntersKeeps, ConfirmsKeeps, PausesKeeps,
           PausesLongKeeps, AnswersPostKeeps, WindowClosesKeeps, SiteLogsOutKeeps DEF PostStep

\* publishManualPost and the broadcast, with every window that closes and every
\* session that ends, keep the invariant.
THEOREM ManualInvariant == ManualSpec => []ManualInv
<1>1. ManualInit => ManualInv
  BY InitHolds
<1>2. ManualInv /\ [ManualNext]_manualVars => ManualInv'
  BY ManualStepKeeps, ManualStutterKeeps
<1> QED BY <1>1, <1>2, PTL DEF ManualSpec

\* Each post, row and charge keeps its form, and a window its post.
THEOREM ManualTypeCorrect == ManualSpec => []ManualTypeOK
<1>1. ManualInv => ManualTypeOK
  BY DEF ManualInv
<1> QED BY <1>1, ManualInvariant, PTL

\* createBrowserSession, ensureLoggedIn: a message under another login comes
\* from a session that was found or from a login by hand.
THEOREM SendersExplained == ManualSpec => []SenderExplained
<1>1. ManualInv => SenderExplained
  BY DEF ManualInv
<1> QED BY <1>1, ManualInvariant, PTL

\* publishManualPost charges an account once, with the answer it gives.
THEOREM OneCharge == ManualSpec => []ChargedOnce
<1>1. ManualInv => ChargedOnce
  <2> SUFFICES ASSUME ManualInv, NEW p \in Posts
               PROVE  /\ Len(charges[p]) <= (IF ask[p].pooled THEN 1 ELSE 0)
                      /\ PostAt(p, "answered") /\ charges[p] # <<>> => charges[p][1] = post[p].st
    BY DEF ChargedOnce
  <2>1. Charged(p, post[p], charges[p])
    BY PostIn
  <2>2. CASE charges[p] = <<>>
    BY <2>2
  <2>3. CASE charges[p] # <<>>
    <3>1. PICK ok \in BOOLEAN : charges[p] = <<ok>> /\ (post[p].at # "thrown" => post[p].st = ok)
      BY <2>1, <2>3 DEF Charged
    <3>2. ask[p].pooled
      BY <2>1, <2>3 DEF Charged
    <3> QED BY <3>1, <3>2 DEF PostAt
  <2> QED BY <2>2, <2>3
<1> QED BY <1>1, ManualInvariant, PTL

\* broadcastMessage: what was confirmed is in the answer, if the window stays.
THEOREM ConfirmationsReported == ManualSpec => []ConfirmedReported
<1>1. ManualInv => ConfirmedReported
  <2> SUFFICES ASSUME ManualInv, NEW m \in noted, m[4] = "posted", PostAt(m[1], "answered"),
                      m[1] \notin closed
               PROVE  RowOf(m) \in post[m[1]].rows
    BY DEF ConfirmedReported, RowOf
  <2>1. m[1] \in Posts
    BY ManualTypesApart DEF ManualInv, Notes
  <2>2. Reported(m[1], post[m[1]], closed, noted)
    BY <2>1, PostIn
  <2> QED BY <2>2 DEF Reported, PostAt
<1> QED BY <1>1, ManualInvariant, PTL

\* publishManualPost, broadcastToMultipleServers: no failure of a message, a link
\* or a channel is lost on the way to an answer of success.
THEOREM SuccessesWhole == ManualSpec => []SuccessIsWhole
<1>1. ManualInv => SuccessIsWhole
  <2> SUFFICES ASSUME ManualInv, NEW p \in Posts, PostAt(p, "answered"), post[p].ok
               PROVE  /\ ask[p].path # "none" =>
                            \A i \in 1 .. ask[p].items : <<p, i>> \in cleared
                      /\ ask[p].discord =>
                            /\ LinksOf(p) # <<>>
                            /\ \A n \in DOMAIN LinksOf(p) : LinksOf(p)[n] # {}
                            /\ p \notin closed
                            /\ \A m \in noted : m[1] = p => m[4] # "failed"
                            /\ \E m \in noted : m[1] = p /\ m[4] = "posted"
    BY DEF SuccessIsWhole
  <2>1. /\ Charged(p, post[p], charges[p]) /\ SentOff(p, post[p], cleared)
        /\ Whole(p, post[p], closed) /\ Reported(p, post[p], closed, noted)
    BY PostIn
  <2>2. post[p].st
    BY <2>1 DEF Charged, PostAt
  <2>3. ask[p].path # "none" => \A i \in 1 .. ask[p].items : <<p, i>> \in cleared
    BY <2>1, <2>2 DEF SentOff
  <2>4. LinksOf(p) \in Seq(SUBSET Channels)
    BY AskIn DEF ManualInv
  <2>5. DOMAIN LinksOf(p) = 1 .. Len(LinksOf(p)) /\ (Len(LinksOf(p)) > 0 => LinksOf(p) # <<>>)
    BY <2>4
  <2>6. ASSUME ask[p].discord
        PROVE  /\ Len(LinksOf(p)) > 0 /\ \A n \in 1 .. Len(LinksOf(p)) : LinksOf(p)[n] # {}
               /\ p \notin closed /\ \A row \in post[p].rows : row.how # "failed"
               /\ \E row \in post[p].rows : row.how = "posted"
    BY <2>1, <2>6 DEF Whole, PostAt
  <2>7. ASSUME ask[p].discord, NEW m \in noted, m[1] = p PROVE m[4] # "failed"
    <3>1. RowOf(m) \in post[p].rows
      BY <2>1, <2>6, <2>7 DEF Reported, PostAt
    <3>2. RowOf(m).how = m[4]
      BY DEF RowOf
    <3> QED BY <2>6, <2>7, <3>1, <3>2
  <2>8. ASSUME ask[p].discord PROVE \E m \in noted : m[1] = p /\ m[4] = "posted"
    <3>1. PICK row \in post[p].rows : row.how = "posted"
      BY <2>6, <2>8
    <3>2. NoteOf(p, row) \in noted
      BY <2>1, <3>1 DEF Reported
    <3> QED BY <3>1, <3>2 DEF NoteOf
  <2> QED BY <2>3, <2>5, <2>6, <2>7, <2>8
<1> QED BY <1>1, ManualInvariant, PTL
=============================================================================
