--------------------------- MODULE SessionsProofs ---------------------------
(***************************************************************************)
(* Proofs about the sessions of StockTwits and of dlvr.it, for any calls,  *)
(* accounts and mixes of operations, any users, workspaces and demands.    *)
(*                                                                         *)
(* StockTwits: what a call knows of itself is in the predicate Sound of    *)
(* its record; what the shared state owes it, in the browser of its        *)
(* profile, in the cookies there and in the feed, are the other conjuncts  *)
(* of the invariant.  Most steps change the record only, and only as       *)
(* Follows says.  The rank of a record, which no step raises and each step *)
(* of its call lowers, bounds the calls.                                   *)
(*                                                                         *)
(* dlvr.it: a step touches the requests, the renewals that run, or the     *)
(* cookies and rows that are kept; the invariant has one conjunct for      *)
(* each.  Two steps recur, the start of a renewal and its rejection: they  *)
(* have lemmas.  At the end each step is shown to be one of                *)
(* SharedRenewals.                                                         *)
(***************************************************************************)
EXTENDS MCSessions, FiniteSetTheorems, TLAPS

-----------------------------------------------------------------------------
(* StockTwits.                                                             *)

ApiAnswers == [item : Symbols, id : Messages \cup Foreign, answered : BOOLEAN]

CallRecord ==
    [pc : Steps, kind : Kinds, acct : Accounts, found : BOOLEAN, item : Symbols,
     try : 1 .. PostAttempts, before : SUBSET (Messages \cup Foreign),
     wire : {"quiet", "id", "refusal"}, api : {"off", "open", "id", "refusal", "timeout"},
     heard : SUBSET (1 .. PostAttempts), got : SUBSET ApiAnswers,
     ended : {"no", "returned", "threw"}]

Unlogged == {"idle", "unlock", "launch", "login"}
Signed == {"compose", "submit", "check", "await", "confirm", "shot", "next"}

\* An answer of the API belongs to the attempt under way, and ends it; the page
\* is searched only when there was none.
Sound(c, r) ==
    /\ r.heard \subseteq {r.try}
    /\ r.pc \in Unlogged \cup {"compose", "done"} => r.heard = {} /\ r.api # "open"
    /\ r.api \in {"open", "timeout"} => r.heard = {}
    /\ r.pc = "confirm" => r.api = "timeout"
    /\ \A g \in r.got : g.answered => Own(g.id, c, g.item)

\* A message of a call is one of its attempts, the present one at most.
Placed(m) ==
    m.call \in Calls =>
        /\ call[m.call].pc \notin Unlogged
        /\ \/ call[m.call].pc = "done"
           \/ m.item < call[m.call].item
           \/ m.item = call[m.call].item /\ m.n <= call[m.call].try

\* A call that has signed in itself works under its account while its browser
\* lives; nobody else signs in on the profile of an account.
CookiesKnown ==
    /\ \A p \in Accounts : cookies[p] \in {p, NoAccount}
    /\ \A c \in Calls : Live(c) /\ call[c].pc \in Signed /\ ~call[c].found =>
                            cookies[Profile(c)] = call[c].acct

SessionInv ==
    /\ SessionTypeOK /\ IsFiniteSet(feed)
    /\ \A c \in Calls : Sound(c, call[c])
    /\ \A m \in feed : Placed(m)
    /\ CookiesKnown /\ OwnProfileUndisturbed /\ WrongAccountExplained

\* How the record of a call changes where nothing else does.
Follows(old, r) ==
    /\ r.kind = old.kind /\ r.acct = old.acct /\ r.found = old.found
    /\ r.pc \in Signed => old.pc \in Signed
    /\ old.pc = "done" => r.pc = "done"
    /\ r.pc \in Unlogged => old.pc \in Unlogged
    /\ \/ r.pc = "done" \/ r.item > old.item
       \/ (r.item = old.item /\ r.try >= old.try)

-----------------------------------------------------------------------------
LEMMA TypesApart ==
    SessionTypeOK <=>
        /\ call \in [Calls -> CallRecord]
        /\ browser \in [Profiles -> Calls \cup {NoCall}]
        /\ cookies \in [Profiles -> Accounts \cup {NoAccount}]
        /\ feed \subseteq Messages \cup Foreign
        /\ up \in BOOLEAN /\ dry \in BOOLEAN
BY DEF SessionTypeOK, CallRecord, ApiAnswers

LEMMA TypesNext ==
    ASSUME call' \in [Calls -> CallRecord], browser' \in [Profiles -> Calls \cup {NoCall}],
           cookies' \in [Profiles -> Accounts \cup {NoAccount}],
           feed' \subseteq Messages \cup Foreign, up' \in BOOLEAN, dry' \in BOOLEAN
    PROVE  SessionTypeOK'
BY DEF SessionTypeOK, CallRecord, ApiAnswers

\* The numbers of the model.
LEMMA Numbers ==
    /\ PostAttempts = 2 /\ BatchSize = 2 /\ Symbols = 1 .. 2
    /\ \A kind \in Kinds : MessagesOf(kind) \in 0 .. 2
BY SessionConstants DEF PostAttempts, BatchSize, Symbols, MessagesOf

LEMMA ProfileIn ==
    ASSUME SessionTypeOK, NEW c \in Calls
    PROVE  /\ Profile(c) \in Profiles
           /\ OwnProfile(call[c].kind) => Profile(c) = call[c].acct /\ Profile(c) # Default
           /\ ~OwnProfile(call[c].kind) => Profile(c) = Default
<1>1. call[c] \in CallRecord
  BY TypesApart
<1>2. call[c].acct \in Accounts
  BY <1>1 DEF CallRecord
<1> QED BY <1>2, SessionConstants DEF Profile, Profiles, Default

\* A call keeps its operation and account, and so its profile.
LEMMA Recorded ==
    ASSUME SessionTypeOK, NEW c \in Calls, NEW r \in CallRecord, Goes(c, r),
           r.kind = call[c].kind, r.acct = call[c].acct
    PROVE  /\ call' \in [Calls -> CallRecord] /\ call'[c] = r
           /\ \A d \in Calls \ {c} : call'[d] = call[d]
           /\ \A d \in Calls : /\ call'[d].kind = call[d].kind /\ call'[d].acct = call[d].acct
                               /\ Profile(d)' = Profile(d)
<1>1. call \in [Calls -> CallRecord] /\ call' = [call EXCEPT ![c] = r]
  BY TypesApart DEF Goes
<1>2. call' \in [Calls -> CallRecord] /\ call'[c] = r /\ \A d \in Calls \ {c} : call'[d] = call[d]
  BY <1>1
<1>3. \A d \in Calls : call'[d].kind = call[d].kind /\ call'[d].acct = call[d].acct
  BY <1>2
<1> QED BY <1>2, <1>3 DEF Profile

\* A message that the present attempt of the call brings.
Brought(c, m, r) ==
    /\ m.call = c /\ m.item = call[c].item /\ m.n = call[c].try
    /\ call[c].pc \in Signed /\ r.pc \in Signed
    /\ m.by # call[c].acct => Profile(c) = Default /\ call[c].found

\* A step that changes the record of a call, whose browser runs on its profile
\* and the messages: a call that works has its own browser, or has lost it
\* before.
LEMMA RecordAndBrowser ==
    ASSUME SessionInv, NEW c \in Calls, NEW r \in CallRecord, Goes(c, r),
           Follows(call[c], r), Sound(c, r), UNCHANGED <<cookies, dry>>, up' \in BOOLEAN,
           NEW new \in SUBSET (Messages \cup Foreign), IsFiniteSet(new), feed' = feed \cup new,
           \A m \in new : m.call \in Calls => Brought(c, m, r),
           NEW b \in {browser[Profile(c)], NoCall, c},
           browser' = [browser EXCEPT ![Profile(c)] = b],
           r.pc \in Working => b = c \/ (call[c].pc \in Working /\ ~Live(c)),
           r.pc \in Signed /\ b = c => Live(c)
    PROVE  SessionInv'
<1>1. /\ call' \in [Calls -> CallRecord] /\ call'[c] = r
      /\ \A d \in Calls \ {c} : call'[d] = call[d]
      /\ \A d \in Calls : /\ call'[d].kind = call[d].kind /\ call'[d].acct = call[d].acct
                          /\ Profile(d)' = Profile(d)
  BY Recorded DEF SessionInv, Follows
<1>2. Profile(c) \in Profiles /\ browser \in [Profiles -> Calls \cup {NoCall}]
      /\ b \in Calls \cup {NoCall}
  BY ProfileIn, TypesApart DEF SessionInv
<1>3. SessionTypeOK' /\ IsFiniteSet(feed)'
  BY <1>1, <1>2, TypesApart, TypesNext, FS_Union DEF SessionInv
<1>4. \A d \in Calls : Sound(d, call[d])'
  BY <1>1 DEF SessionInv, Sound, Own
<1>5. /\ \A d \in Calls : Profile(d) # Profile(c) => Live(d)' = Live(d)
      /\ \A d \in Calls \ {c} : Live(d)' => Live(d)
      /\ Live(c)' <=> b = c
  <2>1. browser'[Profile(c)] = b
        /\ \A p \in Profiles \ {Profile(c)} : browser'[p] = browser[p]
    BY <1>2
  <2>2. \A d \in Calls : Profile(d) \in Profiles
    BY ProfileIn DEF SessionInv
  <2> QED BY <1>1, <2>1, <2>2, SessionConstants DEF Live
<1>6. OwnProfileUndisturbed'
  <2> SUFFICES ASSUME NEW d \in Calls, OwnProfile(call'[d].kind), call'[d].pc \in Working,
                      ~Live(d)'
               PROVE  \E e \in Calls \ {d} : /\ OwnProfile(call'[e].kind)
                                             /\ call'[e].acct = call'[d].acct
    BY DEF OwnProfileUndisturbed, OwnProfile
  <2>1. OwnProfile(call[d].kind)
    BY <1>1
  <2>2. CASE call[d].pc \in Working /\ ~Live(d)
    <3>1. PICK e \in Calls \ {d} : OwnProfile(call[e].kind) /\ call[e].acct = call[d].acct
      BY <2>1, <2>2 DEF SessionInv, OwnProfileUndisturbed
    <3> QED BY <1>1, <3>1
  <2>3. CASE ~(call[d].pc \in Working /\ ~Live(d))
    <3>1. d # c
      BY <1>1, <1>5, <2>3
    <3>2. Profile(d) = Profile(c)
      BY <1>1, <1>5, <2>3, <3>1
    <3>3. OwnProfile(call[c].kind) /\ call[c].acct = call[d].acct
      BY <2>1, <3>2, ProfileIn DEF SessionInv
    <3> QED BY <1>1, <3>1, <3>3
  <2> QED BY <2>2, <2>3
<1>7. CookiesKnown'
  <2>1. \A d \in Calls : /\ call'[d].found = call[d].found
                         /\ call'[d].pc \in Signed => call[d].pc \in Signed
    BY <1>1 DEF Follows
  <2>2. \A d \in Calls : Live(d)' /\ call'[d].pc \in Signed => Live(d)
    BY <1>1, <1>5
  <2> QED BY <1>1, <2>1, <2>2 DEF SessionInv, CookiesKnown
<1>8. WrongAccountExplained'
  <2>1. \A d \in Calls : call'[d].found = call[d].found
    BY <1>1 DEF Follows
  <2>2. ASSUME NEW m \in feed', NEW d \in Calls, m.call = d, m.by # call[d].acct
        PROVE  Profile(d) = Default /\ call[d].found
    <3>1. CASE m \in feed
      BY <2>2, <3>1 DEF SessionInv, WrongAccountExplained
    <3>2. CASE m \in new
      BY <2>2, <3>2 DEF Brought
    <3> QED BY <3>1, <3>2
  <2>3. \A d \in Calls : (Profile(d) = Default)' <=> Profile(d) = Default
    BY <1>1 DEF Default
  <2> QED BY <1>1, <2>1, <2>2, <2>3 DEF WrongAccountExplained
<1>9. \A m \in feed' : Placed(m)'
  <2> SUFFICES ASSUME NEW m \in feed \cup new, m.call \in Calls
               PROVE  Placed(m)'
    BY DEF Placed
  <2>1. Placed(m) \/ Brought(c, m, r)
    BY DEF SessionInv
  <2>2. CASE m.call # c
    BY <1>1, <2>1, <2>2 DEF Placed, Brought
  <2>3. CASE m.call = c
    <3>1. m \in Messages
      BY <2>3, TypesApart, SessionConstants DEF SessionInv, Foreign, Messages
    <3>2. /\ r.pc \notin Unlogged
          /\ \/ call[c].pc = "done" \/ m.item < call[c].item
             \/ (m.item = call[c].item /\ m.n <= call[c].try)
      <4>1. CASE Placed(m)
        BY <2>3, <4>1 DEF Placed, Follows
      <4>2. CASE Brought(c, m, r)
        <5>1. m.n \in Nat
          BY <3>1, Numbers DEF Messages
        <5> QED BY <4>2, <5>1 DEF Brought, Signed, Unlogged
      <4> QED BY <2>1, <4>1, <4>2
    <3>3. m.item \in Nat /\ m.n \in Nat /\ call[c].item \in Nat /\ call[c].try \in Nat
          /\ r.item \in Nat /\ r.try \in Nat
      <4>1. call[c] \in CallRecord
        BY TypesApart DEF SessionInv
      <4> QED BY <3>1, <4>1, Numbers DEF Messages, CallRecord
    <3>4. call[c].pc = "done" => r.pc = "done"
      BY DEF Follows
    <3> QED BY <1>1, <2>3, <3>2, <3>3, <3>4 DEF Placed, Follows
  <2> QED BY <2>2, <2>3
<1> QED BY <1>3, <1>4, <1>6, <1>7, <1>8, <1>9 DEF SessionInv

\* A step that changes the record of the call only.
LEMMA RecordOnly ==
    ASSUME SessionInv, NEW c \in Calls, NEW r \in CallRecord, Goes(c, r),
           Follows(call[c], r), Sound(c, r), UNCHANGED <<browser, cookies, feed, dry>>,
           up' \in BOOLEAN, r.pc \in Working => call[c].pc \in Working
    PROVE  SessionInv'
<1> DEFINE b == browser[Profile(c)]
<1>1. browser \in [Profiles -> Calls \cup {NoCall}] /\ Profile(c) \in Profiles
  BY TypesApart, ProfileIn DEF SessionInv
<1>2. browser' = [browser EXCEPT ![Profile(c)] = b] /\ (b = c <=> Live(c))
  BY <1>1 DEF Live
<1> HIDE DEF b
<1>3. r.pc \in Working => b = c \/ (call[c].pc \in Working /\ ~Live(c))
  BY <1>2
<1>4. b \in {browser[Profile(c)], NoCall, c}
  BY DEF b
<1> DEFINE new == {}
<1>5. /\ new \in SUBSET (Messages \cup Foreign) /\ IsFiniteSet(new) /\ feed' = feed \cup new
      /\ \A m \in new : m.call \in Calls => Brought(c, m, r)
  BY FS_EmptySet
<1> HIDE DEF new
<1> QED BY <1>2, <1>3, <1>4, <1>5, RecordAndBrowser

-----------------------------------------------------------------------------
(* The ways in which the code goes on.                                     *)

LEMMA RecordIn ==
    ASSUME SessionInv, NEW c \in Calls
    PROVE  /\ call[c] \in CallRecord /\ Sound(c, call[c])
           /\ call[c].item \in {1, 2} /\ call[c].try \in {1, 2}
           /\ call[c].heard \subseteq {1, 2} /\ call[c].got \subseteq ApiAnswers
BY TypesApart, Numbers DEF SessionInv, CallRecord

\* The call is over, or the failure of a message is noted.
LEMMA EndsFollows ==
    ASSUME NEW c \in Calls, NEW old \in CallRecord, Sound(c, old), old.pc # "done",
           NEW how \in {"returned", "threw"}
    PROVE  Ends(old, how) \in CallRecord /\ Follows(old, Ends(old, how)) /\ Sound(c, Ends(old, how))
<1> DEFINE r == Ends(old, how)
<1>1. r \in CallRecord
  BY DEF Ends, CallRecord, Steps
<1>2. /\ r.pc = "close" /\ r.kind = old.kind /\ r.acct = old.acct /\ r.found = old.found
      /\ r.item = old.item /\ r.try = old.try /\ r.heard = old.heard /\ r.api = old.api
      /\ r.got = old.got
  BY DEF Ends, CallRecord
<1> HIDE DEF r
<1>3. old.try \in Nat
  BY Numbers DEF CallRecord
<1>4. Follows(old, r)
  BY <1>2, <1>3 DEF Follows, Unlogged, Signed, Working
<1>5. Sound(c, r)
  BY <1>2 DEF Sound, Unlogged
<1> QED BY <1>1, <1>4, <1>5 DEF r

LEMMA ItemFailsFollows ==
    ASSUME NEW c \in Calls, NEW old \in CallRecord, Sound(c, old), old.pc \in Signed
    PROVE  ItemFails(old) \in CallRecord /\ Follows(old, ItemFails(old)) /\ Sound(c, ItemFails(old))
<1>1. CASE old.kind = "batch"
  <2> DEFINE r == [old EXCEPT !.pc = "next", !.before = {}]
  <2>1. r \in CallRecord
    BY DEF CallRecord, Steps
  <2>2. /\ r.pc = "next" /\ r.kind = old.kind /\ r.acct = old.acct /\ r.found = old.found
        /\ r.item = old.item /\ r.try = old.try /\ r.heard = old.heard /\ r.api = old.api
        /\ r.got = old.got
    BY DEF CallRecord
  <2>3. r = ItemFails(old)
    BY <1>1 DEF ItemFails
  <2> HIDE DEF r
  <2>4. old.try \in Nat
    BY Numbers DEF CallRecord
  <2>5. Follows(old, r) /\ Sound(c, r)
    BY <2>2, <2>4 DEF Follows, Sound, Unlogged, Signed, Working
  <2> QED BY <2>1, <2>3, <2>5
<1>2. CASE old.kind # "batch"
  <2>1. ItemFails(old) = Ends(old, "threw") /\ old.pc # "done"
    BY <1>2 DEF ItemFails, Signed
  <2> QED BY <2>1, EndsFollows
<1> QED BY <1>1, <1>2

\* The id of a message that is the call's own, unless the API gave none.
LEMMA ItemPostedFollows ==
    ASSUME NEW c \in Calls, NEW old \in CallRecord, Sound(c, old), old.pc \in Signed,
           NEW m \in Messages \cup Foreign, old.heard # {} => Own(m, c, old.item)
    PROVE  /\ ItemPosted(old, m) \in CallRecord
           /\ Follows(old, ItemPosted(old, m)) /\ Sound(c, ItemPosted(old, m))
<1> DEFINE a == [item |-> old.item, id |-> m, answered |-> old.heard # {}]
           r == [old EXCEPT !.pc = IF old.kind = "batch" THEN "next" ELSE "shot",
                            !.before = {}, !.got = @ \cup {a}]
<1>1. a \in ApiAnswers /\ a.item = old.item /\ a.id = m /\ (a.answered => old.heard # {})
  BY DEF ApiAnswers, CallRecord
<1> HIDE DEF a
<1>2. r \in CallRecord
  BY <1>1 DEF CallRecord, Steps
<1>3. /\ r.pc \in {"next", "shot"} /\ r.kind = old.kind /\ r.acct = old.acct
      /\ r.found = old.found /\ r.item = old.item /\ r.try = old.try /\ r.heard = old.heard
      /\ r.api = old.api /\ r.got = old.got \cup {a}
  BY DEF CallRecord
<1>4. r = ItemPosted(old, m)
  BY DEF ItemPosted, a
<1> HIDE DEF r
<1>5. old.try \in Nat
  BY Numbers DEF CallRecord
<1>6. Follows(old, r)
  BY <1>3, <1>5 DEF Follows, Unlogged, Signed, Working
<1>7. Sound(c, r)
  BY <1>1, <1>3 DEF Sound, Unlogged
<1> QED BY <1>2, <1>4, <1>6, <1>7

\* Other steps leave the item, the attempt, the account and the ids alone.
LEMMA StaysFollows ==
    ASSUME NEW c \in Calls, NEW old \in CallRecord, Sound(c, old), NEW r \in CallRecord,
           r.kind = old.kind, r.acct = old.acct, r.found = old.found, r.item = old.item,
           r.try = old.try, r.got = old.got, r.pc \in Signed, old.pc \in Signed,
           r.heard \subseteq {r.try}, r.pc # "compose",
           r.api \in {"open", "timeout"} => r.heard = {}, r.pc = "confirm" => r.api = "timeout"
    PROVE  Follows(old, r) /\ Sound(c, r)
<1>1. old.try \in Nat
  BY Numbers DEF CallRecord
<1> QED BY <1>1 DEF Follows, Sound, Unlogged, Signed, Working

-----------------------------------------------------------------------------
(* The steps.                                                              *)

LEMMA BeginKeeps ==
    ASSUME SessionInv, NEW c \in Calls, Begin(c)
    PROVE  SessionInv'
<1> DEFINE r == [call[c] EXCEPT !.pc = "unlock"]
<1>1. call[c] \in CallRecord /\ Sound(c, call[c]) /\ call[c].pc = "idle" /\ call[c].try \in Nat
  BY RecordIn DEF Begin, At
<1>2. r \in CallRecord
  BY <1>1 DEF CallRecord, Steps
<1>3. /\ r.pc = "unlock" /\ r.kind = call[c].kind /\ r.acct = call[c].acct
      /\ r.found = call[c].found /\ r.item = call[c].item /\ r.try = call[c].try
      /\ r.heard = call[c].heard /\ r.api = call[c].api /\ r.got = call[c].got
  BY <1>1 DEF CallRecord
<1>4. Goes(c, r) /\ UNCHANGED <<browser, cookies, feed, up, dry>>
  BY DEF Begin
<1>5. up' \in BOOLEAN
  BY <1>4, TypesApart DEF SessionInv
<1> HIDE DEF r
<1>6. Follows(call[c], r) /\ Sound(c, r)
  BY <1>1, <1>3 DEF Follows, Sound, Unlogged, Signed, Working
<1> QED BY <1>2, <1>3, <1>4, <1>5, <1>6, RecordOnly DEF Working

LEMMA ComposeKeeps ==
    ASSUME SessionInv, NEW c \in Calls, Compose(c)
    PROVE  SessionInv'
<1>1. call[c] \in CallRecord /\ Sound(c, call[c]) /\ call[c].pc = "compose"
      /\ UNCHANGED <<browser, cookies, feed, up, dry>> /\ up' \in BOOLEAN
      /\ feed \subseteq Messages \cup Foreign
  BY RecordIn, TypesApart DEF Compose, At, SessionInv
<1>2. CASE NoComposer(c)
  BY <1>1, <1>2, ItemFailsFollows, RecordOnly DEF NoComposer, Signed, Working
<1>3. CASE Typed(c)
  <2>1. PICK ids \in Snapshots(c) :
            Goes(c, [call[c] EXCEPT !.pc = "submit", !.before = ids, !.wire = "quiet",
                                    !.api = "open"])
    BY <1>3 DEF Typed
  <2> DEFINE r == [call[c] EXCEPT !.pc = "submit", !.before = ids, !.wire = "quiet",
                                  !.api = "open"]
  <2>2. ids \subseteq Messages \cup Foreign
    BY <1>1 DEF Snapshots, Shown
  <2>3. r \in CallRecord
    BY <1>1, <2>2 DEF CallRecord, Steps
  <2>4. /\ r.pc = "submit" /\ r.kind = call[c].kind /\ r.acct = call[c].acct
        /\ r.found = call[c].found /\ r.item = call[c].item /\ r.try = call[c].try
        /\ r.heard = call[c].heard /\ r.api = "open" /\ r.got = call[c].got
    BY <1>1 DEF CallRecord
  <2>5. call[c].heard = {}
    BY <1>1 DEF Sound
  <2> HIDE DEF r
  <2>6. Follows(call[c], r) /\ Sound(c, r)
    BY <1>1, <2>3, <2>4, <2>5, StaysFollows DEF Signed
  <2> QED BY <1>1, <2>1, <2>3, <2>6, RecordOnly DEF Working, r
<1> QED BY <1>2, <1>3 DEF Compose

LEMMA CheckKeeps ==
    ASSUME SessionInv, NEW c \in Calls, Check(c)
    PROVE  SessionInv'
<1>1. call[c] \in CallRecord /\ Sound(c, call[c]) /\ call[c].pc = "check"
      /\ UNCHANGED <<browser, cookies, feed, up, dry>> /\ up' \in BOOLEAN
  BY RecordIn, TypesApart DEF Check, At, SessionInv
<1>2. CASE Goes(c, ItemFails(call[c]))
  BY <1>1, <1>2, ItemFailsFollows, RecordOnly DEF Signed, Working
<1>3. CASE Goes(c, [call[c] EXCEPT !.pc = "await"])
  <2> DEFINE r == [call[c] EXCEPT !.pc = "await"]
  <2>1. r \in CallRecord
    BY <1>1 DEF CallRecord, Steps
  <2>2. /\ r.pc = "await" /\ r.kind = call[c].kind /\ r.acct = call[c].acct
        /\ r.found = call[c].found /\ r.item = call[c].item /\ r.try = call[c].try
        /\ r.heard = call[c].heard /\ r.api = call[c].api /\ r.got = call[c].got
    BY <1>1 DEF CallRecord
  <2> HIDE DEF r
  <2>3. Follows(call[c], r) /\ Sound(c, r)
    BY <1>1, <2>1, <2>2, StaysFollows DEF Signed, Sound
  <2> QED BY <1>1, <1>3, <2>1, <2>3, RecordOnly DEF Working, r
<1> QED BY <1>2, <1>3 DEF Check

LEMMA AwaitKeeps ==
    ASSUME SessionInv, NEW c \in Calls, Await(c)
    PROVE  SessionInv'
<1>1. call[c] \in CallRecord /\ Sound(c, call[c]) /\ call[c].pc = "await"
      /\ UNCHANGED <<browser, cookies, feed, up, dry>> /\ up' \in BOOLEAN
      /\ feed \subseteq Messages \cup Foreign
  BY RecordIn, TypesApart DEF Await, At, SessionInv
<1>2. CASE Goes(c, ItemFails(call[c]))
  BY <1>1, <1>2, ItemFailsFollows, RecordOnly DEF Signed, Working
<1>3. ASSUME NEW m \in feed, Own(m, c, call[c].item), Goes(c, ItemPosted(call[c], m))
      PROVE  SessionInv'
  BY <1>1, <1>3, ItemPostedFollows, RecordOnly DEF Signed, Working
<1>4. CASE call[c].api = "timeout" /\ Goes(c, [call[c] EXCEPT !.pc = "confirm"])
  <2> DEFINE r == [call[c] EXCEPT !.pc = "confirm"]
  <2>1. r \in CallRecord
    BY <1>1 DEF CallRecord, Steps
  <2>2. /\ r.pc = "confirm" /\ r.kind = call[c].kind /\ r.acct = call[c].acct
        /\ r.found = call[c].found /\ r.item = call[c].item /\ r.try = call[c].try
        /\ r.heard = call[c].heard /\ r.api = "timeout" /\ r.got = call[c].got
    BY <1>1, <1>4 DEF CallRecord
  <2> HIDE DEF r
  <2>3. Follows(call[c], r) /\ Sound(c, r)
    BY <1>1, <1>4, <2>1, <2>2, StaysFollows DEF Signed, Sound
  <2> QED BY <1>1, <1>4, <2>1, <2>3, RecordOnly DEF Working, r
<1> QED BY <1>2, <1>3, <1>4 DEF Await

LEMMA ConfirmKeeps ==
    ASSUME SessionInv, NEW c \in Calls, Confirm(c)
    PROVE  SessionInv'
<1>1. call[c] \in CallRecord /\ Sound(c, call[c]) /\ call[c].pc = "confirm"
      /\ UNCHANGED <<browser, cookies, feed, up, dry>> /\ up' \in BOOLEAN
      /\ feed \subseteq Messages \cup Foreign /\ call[c].try \in {1, 2}
  BY RecordIn, TypesApart DEF Confirm, At, SessionInv
<1>2. call[c].api = "timeout" /\ call[c].heard = {}
  BY <1>1 DEF Sound
<1>3. CASE Goes(c, ItemFails(call[c]))
  BY <1>1, <1>3, ItemFailsFollows, RecordOnly DEF Signed, Working
<1>4. ASSUME NEW m \in Shown(call[c].item), Goes(c, ItemPosted(call[c], m))
      PROVE  SessionInv'
  <2>1. m \in Messages \cup Foreign
    BY <1>1 DEF Shown
  <2> QED BY <1>1, <1>2, <1>4, <2>1, ItemPostedFollows, RecordOnly DEF Signed, Working
<1>5. CASE /\ call[c].try < PostAttempts
           /\ Goes(c, [call[c] EXCEPT !.pc = "compose", !.try = @ + 1])
  <2> DEFINE r == [call[c] EXCEPT !.pc = "compose", !.try = @ + 1]
  <2>1. call[c].try + 1 \in 1 .. PostAttempts
    BY <1>1, <1>5, Numbers
  <2>2. r \in CallRecord
    BY <1>1, <2>1 DEF CallRecord, Steps
  <2>3. /\ r.pc = "compose" /\ r.kind = call[c].kind /\ r.acct = call[c].acct
        /\ r.found = call[c].found /\ r.item = call[c].item /\ r.try = call[c].try + 1
        /\ r.heard = {} /\ r.api = "timeout" /\ r.got = call[c].got
    BY <1>1, <1>2 DEF CallRecord
  <2> HIDE DEF r
  <2>4. Follows(call[c], r)
    BY <1>1, <2>3 DEF Follows, Unlogged, Signed, Working
  <2>5. Sound(c, r)
    BY <1>1, <2>3 DEF Sound
  <2> QED BY <1>1, <1>5, <2>2, <2>4, <2>5, RecordOnly DEF Working, r
<1> QED BY <1>3, <1>4, <1>5 DEF Confirm

LEMMA ScreenshotKeeps ==
    ASSUME SessionInv, NEW c \in Calls, Screenshot(c)
    PROVE  SessionInv'
<1>1. call[c] \in CallRecord /\ Sound(c, call[c]) /\ call[c].pc = "shot"
      /\ UNCHANGED <<browser, cookies, feed, up, dry>> /\ up' \in BOOLEAN
      /\ call[c].pc \in Working
  BY RecordIn, TypesApart DEF Screenshot, At, SessionInv, Working
<1>2. CASE Goes(c, Ends(call[c], "returned"))
  BY <1>1, <1>2, EndsFollows, RecordOnly
<1>3. CASE Goes(c, [Ends(call[c], "threw") EXCEPT !.got = {}])
  <2> DEFINE e == Ends(call[c], "threw")
             r == [e EXCEPT !.got = {}]
  <2>1. e \in CallRecord /\ Follows(call[c], e) /\ Sound(c, e)
    BY <1>1, EndsFollows
  <2> HIDE DEF e
  <2>2. r \in CallRecord
    BY <2>1 DEF CallRecord
  <2>3. /\ r.pc = e.pc /\ r.kind = e.kind /\ r.acct = e.acct /\ r.found = e.found
        /\ r.item = e.item /\ r.try = e.try /\ r.heard = e.heard /\ r.api = e.api /\ r.got = {}
    BY <2>1 DEF CallRecord
  <2>4. Goes(c, r)
    BY <1>3 DEF e
  <2> HIDE DEF r
  <2>5. Follows(call[c], r) /\ Sound(c, r)
    BY <2>1, <2>3 DEF Follows, Sound
  <2> QED BY <1>1, <2>2, <2>4, <2>5, RecordOnly
<1> QED BY <1>2, <1>3 DEF Screenshot

LEMMA NextItemKeeps ==
    ASSUME SessionInv, NEW c \in Calls, NextItem(c)
    PROVE  SessionInv'
<1>1. call[c] \in CallRecord /\ Sound(c, call[c]) /\ call[c].pc = "next"
      /\ UNCHANGED <<browser, cookies, feed, up, dry>> /\ up' \in BOOLEAN
      /\ call[c].pc \in Working /\ call[c].api # "open" /\ call[c].item \in {1, 2}
  BY RecordIn, TypesApart DEF NextItem, At, SessionInv, Working
<1>2. CASE ~(call[c].item < MessagesOf(call[c].kind))
  BY <1>1, <1>2, EndsFollows, RecordOnly DEF NextItem
<1>3. CASE call[c].item < MessagesOf(call[c].kind)
  <2> DEFINE r == [call[c] EXCEPT !.pc = "compose", !.item = @ + 1, !.try = 1, !.heard = {}]
  <2>1. call[c].item + 1 \in Symbols /\ 1 \in 1 .. PostAttempts
    <3>1. call[c].kind \in Kinds
      BY <1>1 DEF CallRecord
    <3>2. MessagesOf(call[c].kind) \in 0 .. 2
      BY <3>1, Numbers
    <3>3. call[c].item + 1 \in 1 .. 2
      BY <1>1, <1>3, <3>2
    <3> QED BY <3>3, Numbers
  <2>2. r \in CallRecord
    BY <1>1, <2>1 DEF CallRecord, Steps
  <2>3. /\ r.pc = "compose" /\ r.kind = call[c].kind /\ r.acct = call[c].acct
        /\ r.found = call[c].found /\ r.item = call[c].item + 1 /\ r.try = 1
        /\ r.heard = {} /\ r.api = call[c].api /\ r.got = call[c].got
    BY <1>1 DEF CallRecord
  <2>4. Goes(c, r)
    BY <1>3 DEF NextItem
  <2> HIDE DEF r
  <2>5. Follows(call[c], r)
    BY <1>1, <2>3 DEF Follows, Unlogged, Signed, Working
  <2>6. Sound(c, r)
    BY <1>1, <2>3 DEF Sound
  <2> QED BY <1>1, <2>2, <2>4, <2>5, <2>6, RecordOnly
<1> QED BY <1>2, <1>3

LEMMA TimerFiresKeeps ==
    ASSUME SessionInv, NEW c \in Calls, TimerFires(c)
    PROVE  SessionInv'
<1> DEFINE r == [call[c] EXCEPT !.api = "timeout"]
<1>1. call[c] \in CallRecord /\ Sound(c, call[c]) /\ call[c].pc \in {"await", "next"}
      /\ UNCHANGED <<browser, cookies, feed, up, dry>> /\ up' \in BOOLEAN
      /\ call[c].api = "open"
  BY RecordIn, TypesApart DEF TimerFires, At, SessionInv
<1>2. r \in CallRecord
  BY <1>1 DEF CallRecord
<1>3. /\ r.pc = call[c].pc /\ r.kind = call[c].kind /\ r.acct = call[c].acct
      /\ r.found = call[c].found /\ r.item = call[c].item /\ r.try = call[c].try
      /\ r.heard = {} /\ r.api = "timeout" /\ r.got = call[c].got
  BY <1>1 DEF CallRecord, Sound
<1>4. Goes(c, r)
  BY DEF TimerFires
<1> HIDE DEF r
<1>5. Follows(call[c], r) /\ Sound(c, r)
  BY <1>1, <1>2, <1>3, StaysFollows DEF Signed
<1> QED BY <1>1, <1>2, <1>4, <1>5, RecordOnly DEF Working

LEMMA RespondKeeps ==
    ASSUME SessionInv, NEW c \in Calls, Respond(c)
    PROVE  SessionInv'
<1> DEFINE r == [call[c] EXCEPT !.api = call[c].wire, !.wire = "quiet",
                                !.heard = @ \cup {call[c].try}]
<1>1. call[c] \in CallRecord /\ Sound(c, call[c])
      /\ UNCHANGED <<browser, cookies, feed, dry>> /\ up' \in BOOLEAN
      /\ call[c].api = "open" /\ call[c].wire # "quiet" /\ call[c].heard = {}
      /\ call[c].wire \in {"id", "refusal"} /\ call[c].try \in 1 .. PostAttempts
  BY RecordIn DEF Respond, Sound, CallRecord
<1>2. r \in CallRecord
  BY <1>1 DEF CallRecord
<1>3. /\ r.pc = call[c].pc /\ r.kind = call[c].kind /\ r.acct = call[c].acct
      /\ r.found = call[c].found /\ r.item = call[c].item /\ r.try = call[c].try
      /\ r.heard = {call[c].try} /\ r.api \in {"id", "refusal"} /\ r.got = call[c].got
  BY <1>1 DEF CallRecord
<1>4. Goes(c, r)
  BY DEF Respond
<1> HIDE DEF r
<1>5. Follows(call[c], r)
  BY <1>1, <1>3 DEF Follows
<1>6. Sound(c, r)
  BY <1>1, <1>3 DEF Sound
<1> QED BY <1>1, <1>2, <1>3, <1>4, <1>5, <1>6, RecordOnly DEF Working

\* A step that brings no message.
LEMMA BrowserOnly ==
    ASSUME SessionInv, NEW c \in Calls, NEW r \in CallRecord, Goes(c, r),
           Follows(call[c], r), Sound(c, r), UNCHANGED <<cookies, feed, dry, up>>,
           NEW b \in {browser[Profile(c)], NoCall, c},
           browser' = [browser EXCEPT ![Profile(c)] = b],
           r.pc \in Working => b = c, r.pc \notin Signed
    PROVE  SessionInv'
<1> DEFINE new == {}
<1>1. /\ new \in SUBSET (Messages \cup Foreign) /\ IsFiniteSet(new) /\ feed' = feed \cup new
      /\ \A m \in new : m.call \in Calls => Brought(c, m, r)
  BY FS_EmptySet
<1>2. up' \in BOOLEAN
  BY TypesApart DEF SessionInv
<1> HIDE DEF new
<1> QED BY <1>1, <1>2, RecordAndBrowser

LEMMA UnlockKeeps ==
    ASSUME SessionInv, NEW c \in Calls, Unlock(c)
    PROVE  SessionInv'
<1> DEFINE r == [call[c] EXCEPT !.pc = "launch"]
<1>1. call[c] \in CallRecord /\ Sound(c, call[c]) /\ call[c].pc = "unlock" /\ call[c].try \in Nat
      /\ UNCHANGED <<cookies, feed, up, dry>>
  BY RecordIn DEF Unlock, At
<1>2. r \in CallRecord
  BY <1>1 DEF CallRecord, Steps
<1>3. /\ r.pc = "launch" /\ r.kind = call[c].kind /\ r.acct = call[c].acct
      /\ r.found = call[c].found /\ r.item = call[c].item /\ r.try = call[c].try
      /\ r.heard = call[c].heard /\ r.api = call[c].api /\ r.got = call[c].got
  BY <1>1 DEF CallRecord
<1>4. Goes(c, r) /\ browser' = [browser EXCEPT ![Profile(c)] = NoCall]
  BY DEF Unlock
<1> HIDE DEF r
<1>5. Follows(call[c], r) /\ Sound(c, r) /\ r.pc \notin Working \cup Signed
  BY <1>1, <1>3 DEF Follows, Sound, Unlogged, Signed, Working
<1> QED BY <1>1, <1>2, <1>4, <1>5, BrowserOnly

LEMMA LaunchKeeps ==
    ASSUME SessionInv, NEW c \in Calls, Launch(c)
    PROVE  SessionInv'
<1>1. call[c] \in CallRecord /\ Sound(c, call[c]) /\ call[c].pc = "launch" /\ call[c].try \in Nat
      /\ UNCHANGED <<cookies, feed, up, dry>> /\ up' \in BOOLEAN
  BY RecordIn, TypesApart DEF Launch, At, SessionInv
<1>2. CASE Goes(c, [call[c] EXCEPT !.pc = "done", !.ended = "threw"]) /\ UNCHANGED browser
  <2> DEFINE r == [call[c] EXCEPT !.pc = "done", !.ended = "threw"]
  <2>1. r \in CallRecord
    BY <1>1 DEF CallRecord, Steps
  <2>2. /\ r.pc = "done" /\ r.kind = call[c].kind /\ r.acct = call[c].acct
        /\ r.found = call[c].found /\ r.item = call[c].item /\ r.try = call[c].try
        /\ r.heard = call[c].heard /\ r.api = call[c].api /\ r.got = call[c].got
    BY <1>1 DEF CallRecord
  <2> HIDE DEF r
  <2>3. Follows(call[c], r) /\ Sound(c, r) /\ r.pc \notin Working
    BY <1>1, <2>2 DEF Follows, Sound, Unlogged, Signed, Working
  <2> QED BY <1>1, <1>2, <2>1, <2>3, RecordOnly DEF r
<1>3. CASE /\ call[c].kind = "status" /\ Goes(c, Ends(call[c], "returned"))
           /\ browser' = [browser EXCEPT ![Profile(c)] = c]
  <2>1. Ends(call[c], "returned").pc = "close"
    BY <1>1 DEF Ends, CallRecord
  <2> QED BY <1>1, <1>3, <2>1, EndsFollows, BrowserOnly DEF Signed
<1>4. CASE /\ Goes(c, [call[c] EXCEPT !.pc = "login"])
           /\ browser' = [browser EXCEPT ![Profile(c)] = c]
  <2> DEFINE r == [call[c] EXCEPT !.pc = "login"]
  <2>1. r \in CallRecord
    BY <1>1 DEF CallRecord, Steps
  <2>2. /\ r.pc = "login" /\ r.kind = call[c].kind /\ r.acct = call[c].acct
        /\ r.found = call[c].found /\ r.item = call[c].item /\ r.try = call[c].try
        /\ r.heard = call[c].heard /\ r.api = call[c].api /\ r.got = call[c].got
    BY <1>1 DEF CallRecord
  <2> HIDE DEF r
  <2>3. Follows(call[c], r) /\ Sound(c, r) /\ r.pc \notin Signed
    BY <1>1, <2>2 DEF Follows, Sound, Unlogged, Signed
  <2> QED BY <1>1, <1>4, <2>1, <2>3, BrowserOnly DEF r
<1> QED BY <1>2, <1>3, <1>4 DEF Launch

LEMMA CloseKeeps ==
    ASSUME SessionInv, NEW c \in Calls, Close(c)
    PROVE  SessionInv'
<1> DEFINE r == [Asked(call[c]) EXCEPT !.pc = "done", !.found = call[c].found,
                                       !.ended = call[c].ended]
           b == IF Live(c) THEN NoCall ELSE browser[Profile(c)]
<1>1. call[c] \in CallRecord /\ UNCHANGED <<cookies, feed, up, dry>> /\ call[c].pc = "close"
  BY RecordIn DEF Close, At
<1>2. r \in CallRecord
  <2>1. 1 \in Symbols /\ 1 \in 1 .. PostAttempts
    BY Numbers
  <2>2. call[c].kind \in Kinds /\ call[c].acct \in Accounts /\ call[c].found \in BOOLEAN
        /\ call[c].ended \in {"no", "returned", "threw"}
    BY <1>1 DEF CallRecord
  <2>3. Asked(call[c]) \in CallRecord
    BY <2>1, <2>2 DEF Asked, CallRecord, Steps
  <2> QED BY <2>2, <2>3 DEF CallRecord, Steps
<1>3. /\ r.pc = "done" /\ r.kind = call[c].kind /\ r.acct = call[c].acct
      /\ r.found = call[c].found /\ r.heard = {} /\ r.api = "off" /\ r.got = {}
  BY <1>1 DEF CallRecord, Asked
<1>4. Goes(c, r) /\ browser' = [browser EXCEPT ![Profile(c)] = b]
  BY DEF Close
<1>5. b \in {browser[Profile(c)], NoCall, c}
  OBVIOUS
<1> HIDE DEF r, b
<1>6. Follows(call[c], r) /\ Sound(c, r) /\ r.pc \notin Working \cup Signed
  BY <1>1, <1>3 DEF Follows, Sound, Unlogged, Signed, Working
<1> QED BY <1>1, <1>2, <1>4, <1>5, <1>6, BrowserOnly

\* The login: the cookies change under the call's own browser only.
LEMMA LoginStep ==
    ASSUME SessionInv, NEW c \in Calls, call[c].pc = "login", NEW r \in CallRecord, Goes(c, r),
           r.kind = call[c].kind, r.acct = call[c].acct, r.item = call[c].item,
           r.try = call[c].try, r.pc \in {"compose", "close"}, Sound(c, r),
           UNCHANGED <<browser, feed, up, dry>>,
           \/ UNCHANGED cookies /\ (r.pc = "compose" => r.found)
           \/ /\ Live(c)
              /\ \E a \in {NoAccount, call[c].acct} :
                    /\ cookies' = [cookies EXCEPT ![Profile(c)] = a]
                    /\ r.pc = "compose" => r.found \/ a = call[c].acct
    PROVE  SessionInv'
<1>1. /\ call' \in [Calls -> CallRecord] /\ call'[c] = r
      /\ \A d \in Calls \ {c} : call'[d] = call[d]
      /\ \A d \in Calls : /\ call'[d].kind = call[d].kind /\ call'[d].acct = call[d].acct
                          /\ Profile(d)' = Profile(d)
  BY Recorded DEF SessionInv
<1>2. /\ cookies \in [Profiles -> Accounts \cup {NoAccount}] /\ call[c].acct \in Accounts
      /\ \A d \in Calls : Profile(d) \in Profiles
      /\ \A d \in Calls : Live(d)' = Live(d)
  BY <1>1, TypesApart, ProfileIn, RecordIn DEF SessionInv, CallRecord, Live
<1>3. SessionTypeOK' /\ IsFiniteSet(feed)'
  <2>1. cookies' \in [Profiles -> Accounts \cup {NoAccount}]
    BY <1>2
  <2> QED BY <1>1, <2>1, TypesApart, TypesNext DEF SessionInv
<1>4. \A d \in Calls : Sound(d, call[d])'
  BY <1>1 DEF SessionInv, Sound, Own
<1>5. \A m \in feed : m.call # c
  BY DEF SessionInv, Placed, Unlogged
<1>6. \A m \in feed' : Placed(m)'
  BY <1>1, <1>5 DEF SessionInv, Placed
<1>7. WrongAccountExplained'
  BY <1>1, <1>5 DEF SessionInv, WrongAccountExplained, Default
<1>8. OwnProfileUndisturbed'
  <2>1. \A d \in Calls : call'[d].pc \in Working => call[d].pc \in Working
    BY <1>1 DEF Working
  <2> QED BY <1>1, <1>2, <2>1 DEF SessionInv, OwnProfileUndisturbed, OwnProfile
<1>9. \A p \in Accounts : cookies'[p] \in {p, NoAccount}
  <2> SUFFICES ASSUME NEW p \in Accounts
               PROVE  cookies'[p] \in {p, NoAccount}
    OBVIOUS
  <2>1. cookies[p] \in {p, NoAccount} /\ p \in Profiles
    BY DEF SessionInv, CookiesKnown, Profiles
  <2>2. CASE Profile(c) # p
    BY <1>2, <2>1, <2>2
  <2>3. CASE Profile(c) = p
    <3>1. call[c].acct = p
      BY <2>3, ProfileIn, SessionConstants DEF SessionInv, Default
    <3> QED BY <1>2, <2>1, <2>3, <3>1
  <2> QED BY <2>2, <2>3
<1>10. ASSUME NEW d \in Calls, Live(d)', call'[d].pc \in Signed, ~call'[d].found
       PROVE  cookies'[Profile(d)] = call[d].acct
  <2>1. CASE d = c
    <3>1. r.pc = "compose" /\ ~r.found
      BY <1>1, <1>10, <2>1 DEF Signed
    <3> QED BY <1>2, <2>1, <3>1
  <2>2. CASE d # c
    <3>1. Live(d) /\ cookies[Profile(d)] = call[d].acct
      BY <1>1, <1>2, <1>10, <2>2 DEF SessionInv, CookiesKnown
    <3>2. Live(c) => Profile(d) # Profile(c)
      BY <2>2, <3>1 DEF Live
    <3> QED BY <1>2, <3>1, <3>2
  <2> QED BY <2>1, <2>2
<1>11. CookiesKnown'
  BY <1>1, <1>9, <1>10 DEF CookiesKnown
<1> QED BY <1>3, <1>4, <1>6, <1>7, <1>8, <1>11 DEF SessionInv

\* What a call does once it is logged in.
LEMMA LoggedInRecords ==
    ASSUME NEW c \in Calls, NEW e \in CallRecord, Sound(c, e), e.pc = "login",
           NEW r \in LoggedIn(e)
    PROVE  /\ r \in CallRecord /\ r.kind = e.kind /\ r.acct = e.acct /\ r.item = e.item
           /\ r.try = e.try /\ r.pc \in {"compose", "close"} /\ r.found = e.found /\ Sound(c, r)
<1>1. r \in {WarmedUp(e), Ends(e, "returned"), Ends(e, "threw")}
  BY DEF LoggedIn, Visited
<1>2. CASE r = WarmedUp(e)
  <2>1. r \in CallRecord
    BY <1>2 DEF WarmedUp, CallRecord, Steps
  <2>2. /\ r.pc = "compose" /\ r.kind = e.kind /\ r.acct = e.acct /\ r.found = e.found
        /\ r.item = e.item /\ r.try = e.try /\ r.heard = e.heard /\ r.api = e.api
        /\ r.got = e.got
    BY <1>2 DEF WarmedUp, CallRecord
  <2>3. Sound(c, r)
    BY <2>2 DEF Sound, Unlogged
  <2> QED BY <2>1, <2>2, <2>3
<1>3. ASSUME NEW how \in {"returned", "threw"}, r = Ends(e, how)
      PROVE  /\ r \in CallRecord /\ r.kind = e.kind /\ r.acct = e.acct /\ r.item = e.item
             /\ r.try = e.try /\ r.pc = "close" /\ r.found = e.found /\ Sound(c, r)
  <2>1. r \in CallRecord /\ Sound(c, r)
    BY <1>3, EndsFollows
  <2>2. r.kind = e.kind /\ r.acct = e.acct /\ r.item = e.item /\ r.try = e.try
        /\ r.pc = "close" /\ r.found = e.found
    BY <1>3 DEF Ends, CallRecord
  <2> QED BY <2>1, <2>2
<1> QED BY <1>1, <1>2, <1>3

LEMMA LoginKeeps ==
    ASSUME SessionInv, NEW c \in Calls, Login(c)
    PROVE  SessionInv'
<1>1. call[c] \in CallRecord /\ Sound(c, call[c]) /\ call[c].pc = "login"
      /\ UNCHANGED <<browser, feed, up, dry>>
  BY RecordIn DEF Login, At
<1>2. CASE UsesFound(c)
  <2>1. PICK r \in LoggedIn([call[c] EXCEPT !.found = TRUE]) : Goes(c, r) /\ UNCHANGED cookies
    BY <1>2 DEF UsesFound
  <2> DEFINE e == [call[c] EXCEPT !.found = TRUE]
  <2>2. e \in CallRecord
    BY <1>1 DEF CallRecord
  <2>3. /\ e.pc = "login" /\ e.kind = call[c].kind /\ e.acct = call[c].acct /\ e.found
        /\ e.item = call[c].item /\ e.try = call[c].try /\ e.heard = call[c].heard
        /\ e.api = call[c].api /\ e.got = call[c].got
    BY <1>1 DEF CallRecord
  <2>4. r \in LoggedIn(e)
    BY <2>1
  <2> HIDE DEF e
  <2>5. Sound(c, e)
    BY <1>1, <2>3 DEF Sound
  <2>6. /\ r \in CallRecord /\ r.kind = e.kind /\ r.acct = e.acct /\ r.item = e.item
        /\ r.try = e.try /\ r.pc \in {"compose", "close"} /\ r.found = e.found /\ Sound(c, r)
    BY <2>2, <2>3, <2>4, <2>5, LoggedInRecords
  <2> QED BY <1>1, <2>1, <2>3, <2>6, LoginStep
<1>3. CASE SignsIn(c)
  <2>1. PICK r \in LoggedIn([call[c] EXCEPT !.found = FALSE]) :
            Goes(c, r) /\ cookies' = [cookies EXCEPT ![Profile(c)] = call[c].acct] /\ Live(c)
    BY <1>3 DEF SignsIn, LoggedOut
  <2> DEFINE e == [call[c] EXCEPT !.found = FALSE]
  <2>2. e \in CallRecord
    BY <1>1 DEF CallRecord
  <2>3. /\ e.pc = "login" /\ e.kind = call[c].kind /\ e.acct = call[c].acct /\ ~e.found
        /\ e.item = call[c].item /\ e.try = call[c].try /\ e.heard = call[c].heard
        /\ e.api = call[c].api /\ e.got = call[c].got
    BY <1>1 DEF CallRecord
  <2>4. r \in LoggedIn(e)
    BY <2>1
  <2> HIDE DEF e
  <2>5. Sound(c, e)
    BY <1>1, <2>3 DEF Sound
  <2>6. /\ r \in CallRecord /\ r.kind = e.kind /\ r.acct = e.acct /\ r.item = e.item
        /\ r.try = e.try /\ r.pc \in {"compose", "close"} /\ r.found = e.found /\ Sound(c, r)
    BY <2>2, <2>3, <2>4, <2>5, LoggedInRecords
  <2> QED BY <1>1, <2>1, <2>3, <2>6, LoginStep
<1>4. CASE LoginStops(c) \/ Restricted(c)
  <2> DEFINE r == Ends(call[c], "threw")
  <2>1. r \in CallRecord /\ Sound(c, r)
    BY <1>1, EndsFollows
  <2>2. r.kind = call[c].kind /\ r.acct = call[c].acct /\ r.item = call[c].item
        /\ r.try = call[c].try /\ r.pc = "close"
    BY <1>1 DEF Ends, CallRecord
  <2>3. Goes(c, r)
    BY <1>4 DEF LoginStops, Restricted
  <2> HIDE DEF r
  <2>4. \/ UNCHANGED cookies
        \/ Live(c) /\ \E a \in {NoAccount, call[c].acct} :
                         cookies' = [cookies EXCEPT ![Profile(c)] = a]
    BY <1>4 DEF LoginStops, Restricted, LoggedOut
  <2> QED BY <1>1, <2>1, <2>2, <2>3, <2>4, LoginStep
<1> QED BY <1>1, <1>2, <1>3, <1>4 DEF Login

\* StockTwits takes the message of the attempt.
LEMMA AcceptedKeeps ==
    ASSUME SessionInv, NEW c \in Calls, call[c].pc \in Signed, NEW old \in CallRecord,
           Accepted(c, old), Follows(call[c], old), Sound(c, old), old.pc \in Signed,
           old.item = call[c].item, old.try = call[c].try,
           UNCHANGED <<browser, cookies, up, dry>>
    PROVE  SessionInv'
<1>1. call[c] \in CallRecord /\ cookies \in [Profiles -> Accounts \cup {NoAccount}]
      /\ browser \in [Profiles -> Calls \cup {NoCall}] /\ Profile(c) \in Profiles
      /\ up' \in BOOLEAN
  BY RecordIn, ProfileIn, TypesApart DEF SessionInv
<1>2. PICK w \in {"id", "quiet"} : Goes(c, [old EXCEPT !.wire = w])
  BY DEF Accepted
<1> DEFINE r == [old EXCEPT !.wire = w]
           m == Message(c)
           new == {m}
           b == browser[Profile(c)]
<1>3. r \in CallRecord
  BY DEF CallRecord
<1>4. /\ r.pc = old.pc /\ r.kind = old.kind /\ r.acct = old.acct /\ r.found = old.found
      /\ r.item = old.item /\ r.try = old.try /\ r.heard = old.heard /\ r.api = old.api
      /\ r.got = old.got
  BY DEF CallRecord
<1>5. Live(c) /\ m.by # NoAccount /\ feed' = feed \cup new
  BY DEF Accepted
<1>6. m.by = cookies[Profile(c)] /\ m.call = c /\ m.item = call[c].item /\ m.n = call[c].try
  BY DEF Message
<1>7. m \in Messages
  BY <1>1, <1>5, <1>6 DEF Message, Messages, CallRecord
<1> HIDE DEF r, m
<1>8. Follows(call[c], r) /\ Sound(c, r)
  BY <1>4 DEF Follows, Sound
<1>9. m.by # call[c].acct => Profile(c) = Default /\ call[c].found
  <2>1. ~call[c].found => m.by = call[c].acct
    BY <1>5, <1>6 DEF SessionInv, CookiesKnown
  <2>2. Profile(c) # Default => m.by = call[c].acct
    <3>1. Profile(c) # Default => Profile(c) = call[c].acct /\ call[c].acct \in Accounts
      BY <1>1, ProfileIn DEF SessionInv, CallRecord
    <3> QED BY <1>5, <1>6, <3>1 DEF SessionInv, CookiesKnown
  <2> QED BY <2>1, <2>2
<1>10. Brought(c, m, r)
  BY <1>4, <1>6, <1>9 DEF Brought
<1>11. new \in SUBSET (Messages \cup Foreign) /\ IsFiniteSet(new)
       /\ \A x \in new : x.call \in Calls => Brought(c, x, r)
  BY <1>7, <1>10, FS_Singleton
<1>12. browser' = [browser EXCEPT ![Profile(c)] = b] /\ b = c
  BY <1>1, <1>5 DEF Live
<1>13. Goes(c, r)
  BY <1>2 DEF r
<1> HIDE DEF new, b
<1>14. b \in {browser[Profile(c)], NoCall, c}
  BY <1>12
<1> QED BY <1>1, <1>3, <1>5, <1>8, <1>11, <1>12, <1>13, <1>14, RecordAndBrowser

LEMMA PostsInDialogKeeps ==
    ASSUME SessionInv, NEW c \in Calls, PostsInDialog(c)
    PROVE  SessionInv'
<1>1. call[c] \in CallRecord /\ Sound(c, call[c]) /\ call[c].pc = "confirm"
      /\ call[c].try \in Nat /\ Accepted(c, call[c]) /\ UNCHANGED <<browser, cookies, up, dry>>
  BY RecordIn DEF PostsInDialog, At
<1>2. Follows(call[c], call[c])
  BY <1>1 DEF Follows
<1> QED BY <1>1, <1>2, AcceptedKeeps DEF Signed

LEMMA SubmitKeeps ==
    ASSUME SessionInv, NEW c \in Calls, Submit(c)
    PROVE  SessionInv'
<1> DEFINE r == Submitted(c)
<1>1. call[c] \in CallRecord /\ Sound(c, call[c]) /\ call[c].pc = "submit"
      /\ call[c].try \in Nat /\ UNCHANGED <<browser, cookies, up, dry>> /\ up' \in BOOLEAN
  BY RecordIn, TypesApart DEF Submit, At, SessionInv
<1>2. r \in CallRecord
  BY <1>1 DEF Submitted, CallRecord, Steps
<1>3. /\ r.pc = "check" /\ r.kind = call[c].kind /\ r.acct = call[c].acct
      /\ r.found = call[c].found /\ r.item = call[c].item /\ r.try = call[c].try
      /\ r.heard = call[c].heard /\ r.api = call[c].api /\ r.got = call[c].got
  BY <1>1 DEF Submitted, CallRecord
<1> HIDE DEF r
<1>4. Follows(call[c], r) /\ Sound(c, r)
  BY <1>1, <1>2, <1>3, StaysFollows DEF Signed, Sound
<1>5. CASE NoButton(c) \/ CashtagAsked(c)
  BY <1>1, <1>5, ItemFailsFollows, RecordOnly DEF NoButton, CashtagAsked, Signed, Working
<1>6. CASE NothingClicked(c)
  BY <1>1, <1>2, <1>4, <1>6, RecordOnly DEF NothingClicked, Working, r
<1>7. CASE Accepted(c, Submitted(c))
  BY <1>1, <1>2, <1>3, <1>4, <1>7, AcceptedKeeps DEF Signed, r
<1>8. CASE Refused(c)
  <2> DEFINE q == [r EXCEPT !.wire = "refusal"]
  <2>1. q \in CallRecord
    BY <1>2 DEF CallRecord
  <2>2. /\ q.pc = "check" /\ q.kind = r.kind /\ q.acct = r.acct /\ q.found = r.found
        /\ q.item = r.item /\ q.try = r.try /\ q.heard = r.heard /\ q.api = r.api
        /\ q.got = r.got
    BY <1>2, <1>3 DEF CallRecord
  <2>3. Goes(c, q) /\ UNCHANGED feed
    BY <1>8 DEF Refused, r
  <2> HIDE DEF q
  <2>4. Follows(call[c], q) /\ Sound(c, q)
    BY <1>3, <1>4, <2>2 DEF Follows, Sound
  <2> QED BY <1>1, <2>1, <2>3, <2>4, RecordOnly DEF Working
<1> QED BY <1>5, <1>6, <1>7, <1>8 DEF Submit

LEMMA StrangerKeeps ==
    ASSUME SessionInv, NEW i \in Symbols, Stranger(i)
    PROVE  SessionInv'
<1> DEFINE old == {m \in feed : m.call = NoCall}
           m == [by |-> NoAccount, call |-> NoCall, item |-> i, n |-> Cardinality(old) + 1]
           new == {m}
<1>1. PICK c \in Calls : call[c].pc \in {"submit", "check", "await", "confirm"}
  BY DEF Stranger
<1>2. feed' = feed \cup new /\ UNCHANGED <<call, browser, cookies, up, dry>>
      /\ Cardinality(old) < MaxForeign
  BY DEF Stranger
<1>3. IsFiniteSet(feed) /\ old \subseteq feed
  BY DEF SessionInv
<1>4. Cardinality(old) \in Nat
  <2> HIDE DEF old
  <2> QED BY <1>3, FS_Subset, FS_CardinalityType
<1>5. m \in Foreign /\ m.call \notin Calls
  <2> HIDE DEF old
  <2>1. Cardinality(old) + 1 \in 1 .. MaxForeign
    BY <1>2, <1>4, SessionConstants
  <2> QED BY <2>1, SessionConstants DEF Foreign
<1> HIDE DEF m
<1>6. call[c] \in CallRecord /\ Sound(c, call[c]) /\ call[c].try \in Nat /\ up' \in BOOLEAN
      /\ browser \in [Profiles -> Calls \cup {NoCall}] /\ Profile(c) \in Profiles
      /\ call \in [Calls -> CallRecord]
  BY <1>2, RecordIn, ProfileIn, TypesApart DEF SessionInv
<1> DEFINE b == browser[Profile(c)]
<1>7. Goes(c, call[c]) /\ browser' = [browser EXCEPT ![Profile(c)] = b] /\ (b = c <=> Live(c))
  BY <1>2, <1>6 DEF Goes, Live
<1>8. Follows(call[c], call[c])
  BY <1>6 DEF Follows
<1>9. new \in SUBSET (Messages \cup Foreign) /\ IsFiniteSet(new)
      /\ \A x \in new : x.call \in Calls => Brought(c, x, call[c])
  BY <1>5, FS_Singleton
<1>10. b \in {browser[Profile(c)], NoCall, c}
  OBVIOUS
<1>11. call[c].pc \in Working => b = c \/ (call[c].pc \in Working /\ ~Live(c))
  BY <1>7
<1>12. call[c].pc \in Signed /\ b = c => Live(c)
  BY <1>7
<1> HIDE DEF new, b
<1> DEFINE r == call[c]
<1>13. /\ r \in CallRecord /\ Goes(c, r) /\ Follows(call[c], r) /\ Sound(c, r)
       /\ UNCHANGED <<cookies, dry>> /\ up' \in BOOLEAN /\ feed' = feed \cup new
       /\ \A x \in new : x.call \in Calls => Brought(c, x, r)
       /\ r.pc \in Working => b = c \/ (call[c].pc \in Working /\ ~Live(c))
       /\ r.pc \in Signed /\ b = c => Live(c)
  BY <1>2, <1>6, <1>7, <1>8, <1>9, <1>11, <1>12
<1> HIDE DEF r
<1> QED BY ONLY SessionInv, c \in Calls, <1>7, <1>9, <1>10, <1>13, RecordAndBrowser

-----------------------------------------------------------------------------
LEMMA InitSession == SessionInit => SessionInv
<1> SUFFICES ASSUME SessionInit
             PROVE  SessionInv
  OBVIOUS
<1>1. PICK mix \in Mixes : call = [c \in Calls |-> Asked(mix[c])]
  BY DEF SessionInit
<1>2. ASSUME NEW c \in Calls
      PROVE  call[c] \in CallRecord /\ call[c].pc = "idle" /\ Sound(c, call[c])
  <2>1. mix[c] \in [kind : Kinds, acct : Accounts]
    BY <1>1, SessionConstants
  <2>2. 1 \in Symbols /\ 1 \in 1 .. PostAttempts
    BY Numbers
  <2>3. Asked(mix[c]) \in CallRecord
    BY <2>1, <2>2 DEF Asked, CallRecord, Steps
  <2>4. /\ Asked(mix[c]).pc = "idle" /\ Asked(mix[c]).heard = {} /\ Asked(mix[c]).api = "off"
        /\ Asked(mix[c]).got = {}
    BY DEF Asked
  <2> QED BY <1>1, <2>3, <2>4 DEF Sound
<1>3. call \in [Calls -> CallRecord]
  BY <1>1, <1>2
<1>4. SessionTypeOK
  BY <1>3, TypesApart DEF SessionInit
<1>5. IsFiniteSet(feed) /\ \A m \in feed : Placed(m)
  BY FS_EmptySet DEF SessionInit
<1>6. CookiesKnown
  BY <1>2 DEF SessionInit, CookiesKnown, Signed, Profiles
<1>7. OwnProfileUndisturbed /\ WrongAccountExplained
  BY <1>2 DEF SessionInit, OwnProfileUndisturbed, WrongAccountExplained, Working
<1> QED BY <1>2, <1>4, <1>5, <1>6, <1>7 DEF SessionInv

LEMMA StutterKeeps ==
    ASSUME SessionInv, UNCHANGED sessionVars
    PROVE  SessionInv'
BY DEF SessionInv, sessionVars, SessionTypeOK, Sound, Own, Placed, CookiesKnown, Live, Profile,
       Default, OwnProfileUndisturbed, WrongAccountExplained

LEMMA SessionStepKeeps == SessionInv /\ [SessionNext]_sessionVars => SessionInv'
<1> SUFFICES ASSUME SessionInv, [SessionNext]_sessionVars
             PROVE  SessionInv'
  OBVIOUS
<1>1. ASSUME NEW c \in Calls, Begin(c) \/ CallStep(c) \/ Respond(c) \/ PostsInDialog(c)
      PROVE  SessionInv'
  BY <1>1, BeginKeeps, UnlockKeeps, LaunchKeeps, LoginKeeps, ComposeKeeps, SubmitKeeps,
     CheckKeeps, AwaitKeeps, ConfirmKeeps, ScreenshotKeeps, NextItemKeeps, CloseKeeps,
     TimerFiresKeeps, RespondKeeps, PostsInDialogKeeps DEF CallStep
<1>2. ASSUME NEW i \in Symbols, Stranger(i)
      PROVE  SessionInv'
  BY <1>2, StrangerKeeps
<1> QED BY <1>1, <1>2, StutterKeeps DEF SessionNext

\* The invariant holds however the calls and the page interleave.
THEOREM SessionInvariant == SessionSpec => []SessionInv
BY InitSession, SessionStepKeeps, PTL DEF SessionSpec

\* Every variable keeps to its type.
THEOREM SessionTypeCorrect == SessionSpec => []SessionTypeOK
<1>1. SessionInv => SessionTypeOK
  BY DEF SessionInv
<1> QED BY <1>1, SessionInvariant, PTL

\* A message whose attempt was answered in time is not submitted again
\* (waitForPublishConfirmation, interceptPostApiResponse).
THEOREM AnswersEndAttempts == SessionSpec => []NoResubmitAfterAnswer
<1>1. SessionInv => NoResubmitAfterAnswer
  <2> SUFFICES ASSUME SessionInv, NEW m \in feed, NEW c \in Calls,
                      Own(m, c, call[c].item), m.n = PostAttempts
               PROVE  call[c].heard \subseteq {PostAttempts}
    BY DEF NoResubmitAfterAnswer
  <2>1. Placed(m) /\ Sound(c, call[c]) /\ call[c].try \in {1, 2} /\ call[c].item \in {1, 2}
    BY RecordIn DEF SessionInv
  <2>2. call[c].pc = "done" \/ call[c].try = PostAttempts
    BY <2>1, Numbers DEF Placed, Own
  <2> QED BY <2>1, <2>2 DEF Sound
<1> QED BY <1>1, SessionInvariant, PTL

\* A message under another account than its call's comes from a session found
\* on the shared profile, never from a login of the call's own
\* (performLoginIfNeeded, detectAccountMismatch).
THEOREM WrongAccountsExplained == SessionSpec => []WrongAccountExplained
<1>1. SessionInv => WrongAccountExplained
  BY DEF SessionInv
<1> QED BY <1>1, SessionInvariant, PTL

\* An id that the API gave is the call's own message (waitForPublishConfirmation).
THEOREM ForeignIdsExplained == SessionSpec => []ForeignIdExplained
<1>1. SessionInv => ForeignIdExplained
  BY DEF SessionInv, Sound, ForeignIdExplained
<1> QED BY <1>1, SessionInvariant, PTL

\* Only another call for the same account takes the browser of a manual post
\* (releaseStaleChromeProfileLock).
THEOREM ManualPostsUndisturbed == SessionSpec => []OwnProfileUndisturbed
<1>1. SessionInv => OwnProfileUndisturbed
  BY DEF SessionInv
<1> QED BY <1>1, SessionInvariant, PTL

-----------------------------------------------------------------------------
(* How far a call of StockTwits has to go.                                 *)

\* The steps of the code in their order, the last being the end.
Place == [idle |-> 12, unlock |-> 11, launch |-> 10, login |-> 9, compose |-> 8, submit |-> 7,
          check |-> 6, await |-> 5, confirm |-> 4, shot |-> 3, next |-> 2, close |-> 1,
          done |-> 0]

\* The attempts that may come after the one under way.
Attempts(r) == (BatchSize - r.item) * PostAttempts + (PostAttempts - r.try)

\* The listener's timer is a step of its own, within the wait for it.
Rank(r) == IF r.pc = "done" THEN 0
           ELSE 1 + 30 * Attempts(r) + 2 * Place[r.pc] + (IF r.api = "open" THEN 1 ELSE 0)

LEMMA RankIsNat ==
    ASSUME NEW r \in CallRecord
    PROVE  /\ Rank(r) \in Nat /\ Attempts(r) \in 0 .. 3 /\ Place[r.pc] \in 0 .. 12
           /\ r.pc # "done" => Rank(r) > 0
<1>1. r.item \in {1, 2} /\ r.try \in {1, 2} /\ PostAttempts = 2 /\ BatchSize = 2
  BY Numbers DEF CallRecord
<1>2. Attempts(r) \in 0 .. 3
  BY <1>1 DEF Attempts
<1>3. Place[r.pc] \in 0 .. 12
  BY DEF CallRecord, Steps, Place
<1> QED BY <1>2, <1>3 DEF Rank

\* The ways in which a call gets nearer to its end.
Onward(old, r) ==
    \/ old.pc # "done" /\ r.pc = "done"
    \/ /\ r.item = old.item /\ r.try = old.try
       /\ \/ Place[r.pc] < Place[old.pc]
          \/ r.pc = old.pc /\ old.pc # "done" /\ old.api = "open" /\ r.api # "open"
    \/ old.pc = "confirm" /\ r.pc = "compose" /\ r.item = old.item /\ r.try = old.try + 1
    \/ old.pc = "next" /\ r.pc = "compose" /\ r.item = old.item + 1 /\ r.try = 1

LEMMA OnwardFalls ==
    ASSUME NEW old \in CallRecord, NEW r \in CallRecord, Onward(old, r)
    PROVE  Rank(r) < Rank(old)
<1>1. /\ old.item \in {1, 2} /\ old.try \in {1, 2} /\ r.item \in {1, 2} /\ r.try \in {1, 2}
      /\ PostAttempts = 2 /\ BatchSize = 2
  BY Numbers DEF CallRecord
<1>2. /\ Attempts(old) = (2 - old.item) * 2 + (2 - old.try)
      /\ Attempts(r) = (2 - r.item) * 2 + (2 - r.try)
  BY <1>1 DEF Attempts
<1>3. CASE old.pc # "done" /\ r.pc = "done"
  BY <1>3, RankIsNat DEF Rank
<1>4. CASE r.pc # "done" /\ r.item = old.item /\ r.try = old.try /\ Place[r.pc] < Place[old.pc]
  <2>1. old.pc # "done" /\ Attempts(r) = Attempts(old)
    <3>1. old.pc = "done" => Place[old.pc] = 0
      BY DEF Place
    <3> QED BY <1>2, <1>4, <3>1, RankIsNat
  <2> QED BY <1>4, <2>1, RankIsNat DEF Rank
<1>5. CASE /\ r.item = old.item /\ r.try = old.try /\ r.pc = old.pc /\ old.pc # "done"
           /\ old.api = "open" /\ r.api # "open"
  BY <1>2, <1>5, RankIsNat DEF Rank
<1>6. CASE \/ old.pc = "confirm" /\ r.pc = "compose" /\ r.item = old.item /\ r.try = old.try + 1
           \/ old.pc = "next" /\ r.pc = "compose" /\ r.item = old.item + 1 /\ r.try = 1
  <2>1. Attempts(r) <= Attempts(old) - 1
    BY <1>1, <1>2, <1>6
  <2>2. Place[r.pc] = 8 /\ Place[old.pc] >= 2 /\ r.pc # "done" /\ old.pc # "done"
    BY <1>6 DEF Place
  <2>3. /\ Rank(r) = 1 + 30 * Attempts(r) + 16 + (IF r.api = "open" THEN 1 ELSE 0)
        /\ Rank(old) = 1 + 30 * Attempts(old) + 2 * Place[old.pc]
                       + (IF old.api = "open" THEN 1 ELSE 0)
    BY <2>2 DEF Rank
  <2>4. Attempts(r) \in 0 .. 3 /\ Attempts(old) \in 0 .. 3 /\ Place[old.pc] \in 0 .. 12
    BY RankIsNat
  <2>5. \A x, y \in 0 .. 3, p \in 0 .. 12, s, t \in 0 .. 1 :
            x <= y - 1 /\ p >= 2 => 1 + 30 * x + 16 + s < 1 + 30 * y + 2 * p + t
    OBVIOUS
  <2>6. (IF r.api = "open" THEN 1 ELSE 0) \in 0 .. 1 /\ (IF old.api = "open" THEN 1 ELSE 0) \in 0 .. 1
    OBVIOUS
  <2> QED BY <2>1, <2>2, <2>3, <2>4, <2>5, <2>6
<1>7. Place[r.pc] < Place[old.pc] => old.pc # "done"
  <2>1. old.pc = "done" => Place[old.pc] = 0
    BY DEF Place
  <2> QED BY <2>1, RankIsNat
<1> QED BY <1>3, <1>4, <1>5, <1>6, <1>7 DEF Onward

\* A change of the step alone.
LEMMA StepOnward ==
    ASSUME NEW old \in CallRecord, NEW r, r.item = old.item, r.try = old.try,
           Place[r.pc] < Place[old.pc]
    PROVE  Onward(old, r)
BY DEF Onward

\* The call gets to the record r, and to nothing else.
LEMMA GoesOnward ==
    ASSUME SessionInv, SessionInv', NEW c \in Calls, NEW r, Goes(c, r), Onward(call[c], r)
    PROVE  Rank(call'[c]) < Rank(call[c])
<1>1. call[c] \in CallRecord /\ call'[c] \in CallRecord /\ call'[c] = r
  BY TypesApart DEF SessionInv, Goes, SessionTypeOK, CallRecord, ApiAnswers
<1> QED BY <1>1, OnwardFalls

LEMMA EndsOnward ==
    ASSUME NEW old \in CallRecord, Place[old.pc] > 1, NEW how
    PROVE  Onward(old, Ends(old, how)) /\ Onward(old, [Ends(old, how) EXCEPT !.got = {}])
BY DEF CallRecord, Ends, Onward, Place

LEMMA ItemOnward ==
    ASSUME NEW old \in CallRecord, Place[old.pc] > 3
    PROVE  Onward(old, ItemFails(old)) /\ \A m : Onward(old, ItemPosted(old, m))
<1>1. Place["next"] = 2 /\ Place["shot"] = 3 /\ Place[old.pc] \in 0 .. 12
  BY RankIsNat DEF Place
<1>2. Onward(old, ItemFails(old))
  <2>1. CASE old.kind = "batch"
    <3> DEFINE r == [old EXCEPT !.pc = "next", !.before = {}]
    <3>1. r.pc = "next" /\ r.item = old.item /\ r.try = old.try
      BY DEF CallRecord
    <3> QED BY <1>1, <2>1, <3>1 DEF Onward, ItemFails
  <2>2. CASE old.kind # "batch"
    <3>1. Place[old.pc] > 1
      BY <1>1
    <3> QED BY <2>2, <3>1, EndsOnward DEF ItemFails
  <2> QED BY <2>1, <2>2
<1>3. ASSUME NEW m PROVE Onward(old, ItemPosted(old, m))
  <2> DEFINE r == ItemPosted(old, m)
  <2>1. r.pc \in {"next", "shot"} /\ r.item = old.item /\ r.try = old.try
    BY DEF CallRecord, ItemPosted
  <2> HIDE DEF r
  <2>2. Onward(old, r)
    BY <1>1, <2>1 DEF Onward
  <2> QED BY <2>2 DEF r
<1> QED BY <1>2, <1>3

\* A step of a call brings it nearer to its end.
LEMMA CallGoesOnward ==
    ASSUME SessionInv, SessionInv', NEW c \in Calls, CallStep(c)
    PROVE  Rank(call'[c]) < Rank(call[c])
<1> DEFINE r == call[c]
<1>1. r \in CallRecord
  BY RecordIn
<1>2. \A n \in {"launch", "login", "compose", "submit", "check", "await", "confirm"} :
          Place[n] > 3
  BY DEF Place
<1>3. Place["shot"] > 1 /\ Place["next"] > 1
  BY DEF Place
<1> SUFFICES \E q : Goes(c, q) /\ Onward(call[c], q)
  BY GoesOnward
<1>4. CASE Unlock(c)
  BY <1>1, <1>4 DEF Unlock, At, Onward, Place, CallRecord
<1>5. CASE Launch(c)
  <2>1. r.pc = "launch"
    BY <1>5 DEF Launch, At
  <2>2. CASE Goes(c, [r EXCEPT !.pc = "done", !.ended = "threw"])
    <3> DEFINE q == [r EXCEPT !.pc = "done", !.ended = "threw"]
    <3>1. q.pc = "done"
      BY <1>1 DEF CallRecord
    <3>2. Onward(r, q)
      BY <2>1, <3>1 DEF Onward
    <3> QED BY <2>2, <3>2
  <2>3. CASE Goes(c, Ends(r, "returned"))
    <3>1. Place[r.pc] > 1
      BY <2>1 DEF Place
    <3>2. Onward(r, Ends(r, "returned"))
      BY <1>1, <3>1, EndsOnward
    <3> QED BY <2>3, <3>2
  <2>4. CASE Goes(c, [r EXCEPT !.pc = "login"])
    BY <1>1, <2>1, <2>4 DEF Onward, Place, CallRecord
  <2> QED BY <1>5, <2>2, <2>3, <2>4 DEF Launch
<1>6. CASE Compose(c)
  <2>1. r.pc = "compose"
    BY <1>6 DEF Compose, At
  <2>2. CASE NoComposer(c)
    BY <1>1, <1>2, <2>1, <2>2, ItemOnward DEF NoComposer
  <2>3. CASE Typed(c)
    <3>1. PICK ids \in Snapshots(c) :
                Goes(c, [r EXCEPT !.pc = "submit", !.before = ids, !.wire = "quiet", !.api = "open"])
      BY <2>3 DEF Typed
    <3> DEFINE q == [r EXCEPT !.pc = "submit", !.before = ids, !.wire = "quiet", !.api = "open"]
    <3>2. q.pc = "submit" /\ q.item = r.item /\ q.try = r.try
      BY <1>1 DEF CallRecord
    <3>3. Place["submit"] < Place["compose"]
      BY DEF Place
    <3>4. Onward(r, q)
      BY <1>1, <2>1, <3>2, <3>3, StepOnward
    <3> QED BY <3>1, <3>4
  <2> QED BY <1>6, <2>2, <2>3 DEF Compose
<1>7. CASE Check(c)
  <2>1. r.pc = "check"
    BY <1>7 DEF Check, At
  <2>2. CASE Goes(c, [r EXCEPT !.pc = "await"])
    BY <1>1, <2>1, <2>2 DEF Onward, Place, CallRecord
  <2>3. CASE Goes(c, ItemFails(r))
    BY <1>1, <1>2, <2>1, <2>3, ItemOnward
  <2> QED BY <1>7, <2>2, <2>3 DEF Check
<1>8. CASE Await(c)
  <2>1. r.pc = "await"
    BY <1>8 DEF Await, At
  <2>2. CASE \E m \in feed : Goes(c, ItemPosted(r, m))
    BY <1>1, <1>2, <2>1, <2>2, ItemOnward
  <2>3. CASE Goes(c, ItemFails(r))
    BY <1>1, <1>2, <2>1, <2>3, ItemOnward
  <2>4. CASE Goes(c, [r EXCEPT !.pc = "confirm"])
    BY <1>1, <2>1, <2>4 DEF Onward, Place, CallRecord
  <2> QED BY <1>8, <2>2, <2>3, <2>4 DEF Await
<1>9. CASE Confirm(c)
  <2>1. r.pc = "confirm"
    BY <1>9 DEF Confirm, At
  <2>2. CASE \E m : Goes(c, ItemPosted(r, m))
    BY <1>1, <1>2, <2>1, <2>2, ItemOnward
  <2>3. CASE Goes(c, ItemFails(r))
    BY <1>1, <1>2, <2>1, <2>3, ItemOnward
  <2>4. CASE Goes(c, [r EXCEPT !.pc = "compose", !.try = @ + 1])
    <3> DEFINE q == [r EXCEPT !.pc = "compose", !.try = @ + 1]
    <3>1. q.pc = "compose" /\ q.item = r.item /\ q.try = r.try + 1
      BY <1>1 DEF CallRecord
    <3>2. Onward(r, q)
      BY <2>1, <3>1 DEF Onward
    <3> QED BY <2>4, <3>2
  <2> QED BY <1>9, <2>2, <2>3, <2>4 DEF Confirm
<1>10. CASE Screenshot(c)
  BY <1>1, <1>3, <1>10, EndsOnward DEF Screenshot, At
<1>11. CASE NextItem(c)
  <2>1. r.pc = "next"
    BY <1>11 DEF NextItem, At
  <2>2. CASE Goes(c, Ends(r, "returned"))
    BY <1>1, <1>3, <2>1, <2>2, EndsOnward
  <2>3. CASE Goes(c, [r EXCEPT !.pc = "compose", !.item = @ + 1, !.try = 1, !.heard = {}])
    <3> DEFINE q == [r EXCEPT !.pc = "compose", !.item = @ + 1, !.try = 1, !.heard = {}]
    <3>1. q.pc = "compose" /\ q.item = r.item + 1 /\ q.try = 1
      BY <1>1 DEF CallRecord
    <3>2. Onward(r, q)
      BY <2>1, <3>1 DEF Onward
    <3> QED BY <2>3, <3>2
  <2> QED BY <1>11, <2>2, <2>3 DEF NextItem
<1>12. CASE Close(c)
  <2>1. r.pc = "close"
    BY <1>12 DEF Close, At
  <2> DEFINE q == [Asked(r) EXCEPT !.pc = "done", !.found = r.found, !.ended = r.ended]
  <2>2. Goes(c, q)
    BY <1>12 DEF Close
  <2>3. q.pc = "done"
    BY DEF Asked
  <2> QED BY <2>1, <2>2, <2>3 DEF Onward
<1>13. CASE TimerFires(c)
  <2> DEFINE q == [r EXCEPT !.api = "timeout"]
  <2>1. r.pc \in {"await", "next"} /\ r.api = "open" /\ Goes(c, q)
    BY <1>13 DEF TimerFires, At
  <2>2. q.pc = r.pc /\ q.item = r.item /\ q.try = r.try /\ q.api = "timeout"
    BY <1>1 DEF CallRecord
  <2> QED BY <2>1, <2>2 DEF Onward
<1>14. CASE Submit(c)
  <2>1. r.pc = "submit"
    BY <1>14 DEF Submit, At
  <2>2. CASE Goes(c, ItemFails(r))
    BY <1>1, <1>2, <2>1, <2>2, ItemOnward
  <2>3. CASE Goes(c, Submitted(c)) \/ \E w : Goes(c, [Submitted(c) EXCEPT !.wire = w])
    <3>1. Submitted(c).pc = "check" /\ Submitted(c).item = r.item /\ Submitted(c).try = r.try
      BY <1>1 DEF Submitted, CallRecord
    <3>2. \A w : /\ [Submitted(c) EXCEPT !.wire = w].pc = "check"
                 /\ [Submitted(c) EXCEPT !.wire = w].item = r.item
                 /\ [Submitted(c) EXCEPT !.wire = w].try = r.try
      BY <1>1 DEF Submitted, CallRecord
    <3>3. Place["check"] < Place["submit"]
      BY DEF Place
    <3>4. PICK q : Goes(c, q) /\ q.pc = "check" /\ q.item = r.item /\ q.try = r.try
      BY <2>3, <3>1, <3>2
    <3> QED BY <1>1, <2>1, <3>3, <3>4, StepOnward
  <2> QED BY <1>14, <2>2, <2>3 DEF Submit, NoButton, CashtagAsked, NothingClicked, Accepted, Refused
<1>15. CASE Login(c)
  <2>1. r.pc = "login"
    BY <1>15 DEF Login, At
  <2>2. CASE Goes(c, Ends(r, "threw"))
    <3>1. Place[r.pc] > 1
      BY <2>1 DEF Place
    <3>2. Onward(r, Ends(r, "threw"))
      BY <1>1, <3>1, EndsOnward
    <3> QED BY <2>2, <3>2
  <2>3. ASSUME NEW b \in BOOLEAN, NEW q \in LoggedIn([r EXCEPT !.found = b]), Goes(c, q)
        PROVE  \E x : Goes(c, x) /\ Onward(call[c], x)
    <3> DEFINE s == [r EXCEPT !.found = b]
    <3>1. s \in CallRecord /\ s.pc = "login" /\ s.item = r.item /\ s.try = r.try
      BY <1>1, <2>1 DEF CallRecord
    <3> HIDE DEF s
    <3>2. q \in {WarmedUp(s), Ends(s, "returned"), Ends(s, "threw")}
      BY <2>3 DEF LoggedIn, Visited, s
    <3>3. q.pc \in {"compose", "close"} /\ q.item = r.item /\ q.try = r.try
      BY <3>1, <3>2 DEF WarmedUp, Ends, CallRecord
    <3>4. Place["compose"] < Place["login"] /\ Place["close"] < Place["login"]
      BY DEF Place
    <3> QED BY <2>1, <2>3, <3>3, <3>4 DEF Onward
  <2> QED BY <1>15, <2>2, <2>3 DEF Login, UsesFound, SignsIn, LoginStops, Restricted
<1> QED BY <1>4, <1>5, <1>6, <1>7, <1>8, <1>9, <1>10, <1>11, <1>12, <1>13, <1>14, <1>15
        DEF CallStep

\* A step that leaves the place, the item and the attempt leaves the rank, or
\* lowers it when the listener settles.
LEMMA RankStays ==
    ASSUME NEW old \in CallRecord, NEW r \in CallRecord, r.pc = old.pc, r.item = old.item,
           r.try = old.try, r.api = old.api \/ old.api = "open"
    PROVE  Rank(r) <= Rank(old)
<1>1. Attempts(r) = Attempts(old)
  BY DEF Attempts
<1> QED BY <1>1, RankIsNat DEF Rank

\* No step, of whatever call or of the site, takes a call away from its end.
LEMMA NobodyGoesBack ==
    ASSUME SessionInv, SessionInv', [SessionNext]_sessionVars, NEW c \in Calls
    PROVE  Rank(call'[c]) <= Rank(call[c])
<1>1. call[c] \in CallRecord /\ call'[c] \in CallRecord
  BY TypesApart DEF SessionInv, SessionTypeOK, CallRecord, ApiAnswers
<1>2. call'[c] = call[c] => Rank(call'[c]) <= Rank(call[c])
  BY <1>1, RankIsNat
<1>3. ASSUME NEW d \in Calls, Begin(d) \/ CallStep(d) \/ Respond(d) \/ PostsInDialog(d)
      PROVE  Rank(call'[c]) <= Rank(call[c])
  <2>1. CASE c # d
    <3>1. ASSUME NEW r, Goes(d, r) PROVE call'[c] = call[c]
      BY <2>1, <3>1, TypesApart DEF Goes, SessionInv, SessionTypeOK
    <3>2. \E r : Goes(d, r)
      BY <1>3 DEF Begin, CallStep, Respond, PostsInDialog, Accepted, Unlock, Launch, Login,
                  Compose, NoComposer, Typed, Submit, NoButton, CashtagAsked, NothingClicked,
                  Refused, Check, Await, Confirm, Screenshot, NextItem, Close, TimerFires,
                  UsesFound, SignsIn, LoginStops, Restricted
    <3> QED BY <1>2, <3>1, <3>2
  <2>2. CASE c = d /\ CallStep(c)
    <3>1. Rank(call'[c]) < Rank(call[c])
      BY <2>2, CallGoesOnward
    <3> QED BY <1>1, <3>1, RankIsNat
  <2>3. CASE c = d /\ Begin(c)
    <3> DEFINE q == [call[c] EXCEPT !.pc = "unlock"]
    <3>1. call[c].pc = "idle" /\ Goes(c, q)
      BY <2>3 DEF Begin, At
    <3>2. q.pc = "unlock" /\ q.item = call[c].item /\ q.try = call[c].try
      BY <1>1 DEF CallRecord
    <3>3. Place["unlock"] < Place["idle"]
      BY DEF Place
    <3>4. Onward(call[c], q)
      BY <1>1, <3>1, <3>2, <3>3, StepOnward
    <3>5. Rank(call'[c]) < Rank(call[c])
      BY <3>1, <3>4, GoesOnward
    <3> QED BY <1>1, <3>5, RankIsNat
  <2>4. CASE c = d /\ Respond(c)
    <3> DEFINE q == [call[c] EXCEPT !.api = call[c].wire, !.wire = "quiet",
                                    !.heard = @ \cup {call[c].try}]
    <3>1. call[c].api = "open" /\ call'[c] = q
      BY <2>4, TypesApart DEF Respond, Goes, SessionInv, SessionTypeOK
    <3>2. q.pc = call[c].pc /\ q.item = call[c].item /\ q.try = call[c].try
      BY <1>1 DEF CallRecord
    <3> QED BY <1>1, <3>1, <3>2, RankStays
  <2>5. CASE c = d /\ PostsInDialog(c)
    <3>1. PICK w : Goes(c, [call[c] EXCEPT !.wire = w])
      BY <2>5 DEF PostsInDialog, Accepted
    <3> DEFINE q == [call[c] EXCEPT !.wire = w]
    <3>2. call'[c] = q
      BY <3>1, TypesApart DEF Goes, SessionInv, SessionTypeOK
    <3>3. q.pc = call[c].pc /\ q.item = call[c].item /\ q.try = call[c].try /\ q.api = call[c].api
      BY <1>1 DEF CallRecord
    <3> QED BY <1>1, <3>2, <3>3, RankStays
  <2> QED BY <1>3, <2>1, <2>2, <2>3, <2>4, <2>5
<1>4. CASE (\E i \in Symbols : Stranger(i)) \/ UNCHANGED sessionVars
  BY <1>2, <1>4 DEF Stranger, sessionVars
<1> QED BY <1>3, <1>4 DEF SessionNext

\* Every step of a call of StockTwits brings it nearer to its end, by a measure
\* that is a natural number and that no other call, no answer of the site and no
\* stranger's message raises: a submission is repeated once, a batch moves on
\* symbol by symbol, and no order of refusals, timeouts, errors of the page and
\* lost browsers makes publishMessage go round for ever.  With the fairness of
\* CallsEnd, it is why a call ends.
THEOREM CallsWindDown ==
    SessionSpec =>
        [][\A c \in Calls : /\ Rank(call[c]) \in Nat
                            /\ Rank(call'[c]) <= Rank(call[c])
                            /\ CallStep(c) => Rank(call'[c]) < Rank(call[c])]_sessionVars
<1>1. SessionInv /\ SessionInv' /\ [SessionNext]_sessionVars =>
        \A c \in Calls : /\ Rank(call[c]) \in Nat
                         /\ Rank(call'[c]) <= Rank(call[c])
                         /\ CallStep(c) => Rank(call'[c]) < Rank(call[c])
  BY RecordIn, RankIsNat, NobodyGoesBack, CallGoesOnward
<1> QED BY <1>1, SessionInvariant, PTL DEF SessionSpec

-----------------------------------------------------------------------------
(* dlvr.it.                                                                *)

Request == [step : ReqSteps, on : Users \cup {NoUser}, then : {"looking", "calling"},
            cookie : MaybeCookie, again : BOOLEAN, delivered : Nat]

\* Only a request that is over has delivered its message, and once.
Modest(r) == r \in Request /\ r.delivered \in {0, 1}
             /\ (r.step \notin {"failing", "done", "failed"} => r.delivered = 0)

RequestsModest == req \in [Users -> Request] /\ \A u \in Users : Modest(req[u])

\* A workspace's renewal is the browser of a user of that workspace, and runs.
RenewalsOwned ==
    /\ flight \in [Users -> Places]
    /\ refreshes \in [Workspaces -> Users \cup {NoUser}]
    /\ \A u \in Users : flight[u] # "none" => refreshes[Workspace(u)] = u
    /\ \A w \in Workspaces : refreshes[w] # NoUser =>
           Workspace(refreshes[w]) = w /\ flight[refreshes[w]] # "none"

KeptTyped ==
    /\ remembered \in [Workspaces -> MaybeCookie] /\ onDisk \in [Workspaces -> MaybeCookie]
    /\ profile \in [Workspaces -> MaybeCookie]
    /\ issued \in 0 .. MaxCookie /\ valid \subseteq 1 .. issued
    /\ rows \in [Workspaces -> Statuses] /\ restarted \in BOOLEAN

DlvritInv == demand \in Demands /\ RequestsModest /\ RenewalsOwned /\ KeptTyped

\* What a demand is.
LEMMA Asked4 ==
    ASSUME demand \in Demands, NEW u \in Users
    PROVE  /\ Workspace(u) \in Workspaces
           /\ demand[u].op \in {"post", "connect", "reload"}
BY DlvritConstants DEF Workspace

LEMMA EndedModest ==
    ASSUME RequestsModest, NEW u \in Users, NEW step \in {"linking", "failing", "done", "failed"},
           step = "linking" => req[u].delivered = 0
    PROVE  Modest(Ended(u, step))
<1>1. req[u] \in Request /\ Modest(req[u])
  BY DEF RequestsModest
<1>2. Fresh \in Request
  BY DEF Fresh, Request, ReqSteps, MaybeCookie
<1>3. req[u].delivered \in Nat /\ step \in ReqSteps
  BY <1>1 DEF Request, ReqSteps
<1>4. /\ Ended(u, step) \in Request
      /\ Ended(u, step).step = step /\ Ended(u, step).delivered = req[u].delivered
  BY <1>2, <1>3 DEF Ended, Request
<1> QED BY <1>1, <1>4 DEF Modest

\* A request that changes alone.
LEMMA OneRequest ==
    ASSUME RequestsModest, NEW u \in Users, NEW r, Modest(r), req' = [req EXCEPT ![u] = r]
    PROVE  RequestsModest'
BY DEF RequestsModest, Modest

\* RenewalsOwned after a step, in the terms before it.
LEMMA OwnedThen ==
    ASSUME UNCHANGED demand,
           flight' \in [Users -> Places],
           refreshes' \in [Workspaces -> Users \cup {NoUser}],
           \A u \in Users : flight'[u] # "none" => refreshes'[Workspace(u)] = u,
           \A w \in Workspaces : refreshes'[w] # NoUser =>
               Workspace(refreshes'[w]) = w /\ flight'[refreshes'[w]] # "none"
    PROVE  RenewalsOwned'
<1>1. \A v : Workspace(v)' = Workspace(v)
  BY DEF Workspace
<1> QED BY <1>1 DEF RenewalsOwned

\* refreshSession: the renewal that runs is shared, or a new one is owned.
LEMMA RenewKeeps ==
    ASSUME demand \in Demands, UNCHANGED demand, RequestsModest, RenewalsOwned,
           NEW u \in Users, NEW then \in {"looking", "calling"}, NEW r \in Request,
           r.delivered = 0, Renew(u, then, r)
    PROVE  RequestsModest' /\ RenewalsOwned'
<1> DEFINE w == Workspace(u)
           on == IF refreshes[w] = NoUser THEN u ELSE refreshes[w]
           new == [r EXCEPT !.step = "waiting", !.then = then, !.on = on]
<1>1. w \in Workspaces /\ u # NoUser
  BY Asked4, DlvritConstants
<1>2. on \in Users
  BY <1>1 DEF RenewalsOwned
<1>3. new \in Request /\ new.delivered = 0
  BY <1>2 DEF Request, ReqSteps
<1>4. req' = [req EXCEPT ![u] = new] /\ refreshes' = [refreshes EXCEPT ![w] = on]
      /\ flight' = IF refreshes[w] = NoUser THEN [flight EXCEPT ![u] = "landing"] ELSE flight
  BY DEF Renew
<1>5. Modest(new)
  BY <1>3 DEF Modest
<1>6. RequestsModest'
  BY <1>4, <1>5, OneRequest
<1>7. \A v \in Users : Workspace(v)' = Workspace(v) /\ Workspace(v) \in Workspaces
  BY Asked4 DEF Workspace
<1>8. CASE refreshes[w] = NoUser
  <2>1. refreshes' = [refreshes EXCEPT ![w] = u] /\ flight' = [flight EXCEPT ![u] = "landing"]
    BY <1>4, <1>8
  <2>2. \A v \in Users : Workspace(v) = w => flight[v] = "none"
    BY <1>8, DlvritConstants DEF RenewalsOwned
  <2>3. \A v \in Users : flight'[v] # "none" => refreshes'[Workspace(v)] = v
    BY <1>1, <1>7, <2>1, <2>2 DEF RenewalsOwned
  <2>4. \A x \in Workspaces : refreshes'[x] # NoUser =>
            Workspace(refreshes'[x]) = x /\ flight'[refreshes'[x]] # "none"
    BY <1>1, <2>1 DEF RenewalsOwned
  <2>5. /\ flight' \in [Users -> Places]
        /\ refreshes' \in [Workspaces -> Users \cup {NoUser}]
    BY <2>1 DEF RenewalsOwned, Places
  <2> QED BY <1>6, <2>3, <2>4, <2>5, OwnedThen
<1>9. CASE refreshes[w] # NoUser
  <2>1. refreshes' = refreshes /\ flight' = flight
    BY <1>4, <1>9 DEF RenewalsOwned
  <2> QED BY <1>6, <2>1, OwnedThen DEF RenewalsOwned
<1> QED BY <1>6, <1>8, <1>9

\* A renewal that ends leaves the map; no other is affected.
LEMMA RenewalEnds ==
    ASSUME demand \in Demands, UNCHANGED demand, RenewalsOwned, NEW f \in Users,
           flight[f] # "none", flight' = [flight EXCEPT ![f] = "none"],
           refreshes' = [refreshes EXCEPT ![Workspace(f)] = NoUser]
    PROVE  RenewalsOwned'
<1>1. \A v \in Users : Workspace(v)' = Workspace(v) /\ Workspace(v) \in Workspaces
  BY Asked4 DEF Workspace
<1>2. \A v \in Users : v # f /\ flight[v] # "none" => Workspace(v) # Workspace(f)
  BY DEF RenewalsOwned
<1>3. \A v \in Users : flight'[v] # "none" => refreshes'[Workspace(v)] = v
  BY <1>1, <1>2 DEF RenewalsOwned
<1>4. \A x \in Workspaces : refreshes'[x] # NoUser => x # Workspace(f) /\ refreshes[x] # f
                                                      /\ refreshes'[x] = refreshes[x]
  BY DEF RenewalsOwned
<1>5. \A x \in Workspaces : refreshes'[x] # NoUser =>
          Workspace(refreshes'[x]) = x /\ flight'[refreshes'[x]] # "none"
  BY <1>4 DEF RenewalsOwned
<1>6. /\ flight' \in [Users -> Places]
      /\ refreshes' \in [Workspaces -> Users \cup {NoUser}]
  BY DEF RenewalsOwned, Places
<1> QED BY <1>3, <1>5, <1>6, OwnedThen

LEMMA RejectsKeeps ==
    ASSUME demand \in Demands, UNCHANGED demand, RequestsModest, RenewalsOwned,
           NEW f \in Users, flight[f] # "none", Rejects(f)
    PROVE  RequestsModest' /\ RenewalsOwned'
<1>1. RenewalsOwned'
  BY RenewalEnds DEF Rejects
<1>2. \A u \in Users : Modest(Ended(u, "failing"))
  BY EndedModest
<1>3. req' = [u \in Users |-> IF u \in Waiters(f) THEN Ended(u, "failing") ELSE req[u]]
  BY DEF Rejects
<1>4. \A u \in Users : Modest(req'[u])
  BY <1>2, <1>3 DEF RequestsModest
<1> QED BY <1>1, <1>3, <1>4 DEF RequestsModest, Modest

\* A browser that is routed, logs in, has its cookie or gives up stays the
\* renewal it was.
LEMMA FlightGoesOn ==
    ASSUME UNCHANGED <<demand, refreshes>>, RenewalsOwned, NEW f \in Users,
           NEW place \in Places \ {"none"}, flight[f] # "none",
           flight' = [flight EXCEPT ![f] = place]
    PROVE  RenewalsOwned'
<1>1. \A v \in Users : flight'[v] # "none" <=> flight[v] # "none"
  BY DEF RenewalsOwned
<1> QED BY <1>1, OwnedThen DEF RenewalsOwned

-----------------------------------------------------------------------------
LEMMA InitDlvrit == DlvritInit => DlvritInv
<1> SUFFICES ASSUME DlvritInit PROVE DlvritInv
  OBVIOUS
<1>1. demand \in Demands
  BY DEF DlvritInit
<1>2. Fresh \in Request /\ Modest(Fresh)
  BY DEF Fresh, Request, ReqSteps, MaybeCookie, Modest
<1>3. RequestsModest
  BY <1>2 DEF DlvritInit, RequestsModest
<1>4. RenewalsOwned
  BY DEF DlvritInit, RenewalsOwned, Places
<1>5. issued \in {0, 1} /\ valid = 1 .. issued
  BY DEF DlvritInit
<1>6. KeptTyped
  <2>1. issued \in 0 .. MaxCookie /\ valid \subseteq 1 .. issued /\ valid \subseteq Cookies
    BY <1>5, DlvritConstants DEF Cookies
  <2>2. \A k \in {NoCookie} \cup valid : [w \in Workspaces |-> k] \in [Workspaces -> MaybeCookie]
    BY <2>1 DEF MaybeCookie
  <2>3. onDisk \in [Workspaces -> MaybeCookie]
    BY <2>2 DEF DlvritInit
  <2>4. profile \in [Workspaces -> MaybeCookie]
    BY <1>5, DlvritConstants DEF DlvritInit, MaybeCookie, Cookies
  <2>5. remembered \in [Workspaces -> MaybeCookie] /\ rows \in [Workspaces -> Statuses]
    BY DEF DlvritInit, MaybeCookie, Statuses
  <2> QED BY <2>1, <2>3, <2>4, <2>5 DEF DlvritInit, KeptTyped
<1> QED BY <1>1, <1>3, <1>4, <1>6 DEF DlvritInv

LEMMA Ask4SessionKeeps ==
    ASSUME DlvritInv, NEW u \in Users, Ask4Session(u)
    PROVE  DlvritInv'
<1>1. req[u] \in Request /\ Modest(req[u]) /\ req[u].step = "idle" /\ req[u].delivered = 0
  BY DEF DlvritInv, RequestsModest, Ask4Session, DlvritAt, Modest
<1>2. UNCHANGED demand /\ Workspace(u) \in Workspaces
  BY Asked4 DEF Ask4Session, DlvritInv
<1>3. RequestsModest' /\ RenewalsOwned'
  <2>1. CASE Operator(u)
    BY <1>1, <1>2, <2>1, RenewKeeps DEF Ask4Session, DlvritInv
  <2>2. CASE ~Operator(u)
    <3>1. req' = [req EXCEPT ![u].step = "looking"] /\ UNCHANGED <<flight, refreshes>>
      BY <2>2 DEF Ask4Session
    <3>2. [req[u] EXCEPT !.step = "looking"] \in Request
      BY <1>1 DEF Request, ReqSteps
    <3>3. Modest([req[u] EXCEPT !.step = "looking"])
      BY <1>1, <3>2 DEF Modest, Request
    <3>4. RequestsModest'
      BY <3>1, <3>3, OneRequest DEF DlvritInv
    <3> QED BY <1>2, <3>1, <3>4, OwnedThen DEF DlvritInv, RenewalsOwned
  <2> QED BY <2>1, <2>2
<1>4. KeptTyped'
  BY <1>2 DEF Ask4Session, DlvritInv, KeptTyped, Statuses
<1> QED BY <1>2, <1>3, <1>4 DEF DlvritInv

LEMMA LookKeeps ==
    ASSUME DlvritInv, NEW u \in Users, Look(u)
    PROVE  DlvritInv'
<1> DEFINE w == Workspace(u)
           kept == IF remembered[w] # NoCookie THEN remembered[w] ELSE onDisk[w]
<1>1. req[u] \in Request /\ Modest(req[u]) /\ req[u].step = "looking" /\ req[u].delivered = 0
  BY DEF DlvritInv, RequestsModest, Look, DlvritAt, Modest
<1>2. UNCHANGED demand /\ w \in Workspaces /\ kept \in MaybeCookie
  BY Asked4 DEF Look, KeptCookie, DlvritInv, KeptTyped
<1>3. CASE kept = NoCookie
  <2>1. RequestsModest' /\ RenewalsOwned'
    BY <1>1, <1>2, <1>3, RenewKeeps DEF Look, KeptCookie, DlvritInv
  <2>2. KeptTyped'
    BY <1>3 DEF Look, KeptCookie, DlvritInv, KeptTyped
  <2> QED BY <1>2, <2>1, <2>2 DEF DlvritInv
<1>4. CASE kept # NoCookie
  <2> DEFINE r == [req[u] EXCEPT !.step = "calling", !.cookie = kept]
  <2>1. /\ req' = [req EXCEPT ![u] = r] /\ UNCHANGED <<flight, refreshes>>
        /\ remembered' = [remembered EXCEPT ![w] = kept]
    BY <1>4 DEF Look, KeptCookie
  <2>2. r \in Request /\ r.delivered = 0
    BY <1>1, <1>2 DEF Request, ReqSteps
  <2>3. Modest(r)
    BY <2>2 DEF Modest
  <2>4. RequestsModest'
    BY <2>1, <2>3, OneRequest DEF DlvritInv
  <2>5. RenewalsOwned'
    BY <1>2, <2>1, OwnedThen DEF DlvritInv, RenewalsOwned
  <2>6. KeptTyped'
    BY <1>2, <2>1 DEF Look, KeptCookie, DlvritInv, KeptTyped
  <2> QED BY <1>2, <2>4, <2>5, <2>6 DEF DlvritInv
<1> QED BY <1>3, <1>4

\* A browser that gives up is still to be closed.
LEMMA GivesUpKeeps ==
    ASSUME DlvritInv, NEW f \in Users, flight[f] # "none", GivesUp(f),
           UNCHANGED <<demand, remembered, onDisk, valid, issued, rows, restarted>>
    PROVE  DlvritInv'
<1>1. RenewalsOwned'
  BY FlightGoesOn DEF GivesUp, DlvritInv, Places
<1>2. RequestsModest'
  BY DEF GivesUp, DlvritInv, RequestsModest, Modest
<1>3. profile' \in [Workspaces -> MaybeCookie]
  BY DEF GivesUp, DlvritInv, KeptTyped, MaybeCookie
<1>4. KeptTyped'
  BY <1>3 DEF DlvritInv, KeptTyped
<1> QED BY <1>1, <1>2, <1>4 DEF DlvritInv

\* A renewal that fails for all who share it.
LEMMA RejectedKeeps ==
    ASSUME DlvritInv, NEW f \in Users, flight[f] # "none", Rejects(f),
           UNCHANGED <<demand, remembered, onDisk, profile, valid, issued, rows, restarted>>
    PROVE  DlvritInv'
<1>1. RequestsModest' /\ RenewalsOwned'
  BY RejectsKeeps DEF DlvritInv
<1> QED BY <1>1 DEF DlvritInv, KeptTyped

\* The ways a browser fails.
LEMMA FlightFailsKeeps ==
    ASSUME DlvritInv, NEW f \in Users, LandFails(f) \/ SignInFails(f) \/ ExtractFails(f)
    PROVE  DlvritInv'
<1>1. /\ flight[f] # "none"
      /\ UNCHANGED <<demand, remembered, onDisk, valid, issued, rows, restarted>>
      /\ (Rejects(f) /\ UNCHANGED profile) \/ GivesUp(f)
  BY DEF LandFails, SignInFails, ExtractFails
<1> QED BY <1>1, GivesUpKeeps, RejectedKeeps

LEMMA LandsKeeps ==
    ASSUME DlvritInv, NEW f \in Users, Lands(f)
    PROVE  DlvritInv'
<1>1. RenewalsOwned'
  BY FlightGoesOn DEF Lands, DlvritInv, Places
<1>2. RequestsModest' /\ KeptTyped'
  BY DEF Lands, DlvritInv, RequestsModest, Modest, KeptTyped
<1> QED BY <1>1, <1>2 DEF DlvritInv, Lands

LEMMA LogsInKeeps ==
    ASSUME DlvritInv, NEW f \in Users, LogsIn(f)
    PROVE  DlvritInv'
<1>1. RenewalsOwned'
  BY FlightGoesOn DEF LogsIn, DlvritInv, Places
<1>2. RequestsModest'
  BY DEF LogsIn, DlvritInv, RequestsModest, Modest
<1>3. issued + 1 \in Cookies /\ issued' \in 0 .. MaxCookie /\ valid' \subseteq 1 .. issued'
  BY DlvritConstants DEF LogsIn, DlvritInv, KeptTyped, Cookies
<1>4. profile' \in [Workspaces -> MaybeCookie]
  BY <1>3 DEF LogsIn, DlvritInv, KeptTyped, MaybeCookie
<1>5. KeptTyped'
  BY <1>3, <1>4 DEF LogsIn, DlvritInv, KeptTyped
<1> QED BY <1>1, <1>2, <1>5 DEF DlvritInv, LogsIn

LEMMA ExtractsKeeps ==
    ASSUME DlvritInv, NEW f \in Users, Extracts(f)
    PROVE  DlvritInv'
<1>1. UNCHANGED demand /\ Workspace(f) \in Workspaces /\ profile[Workspace(f)] \in MaybeCookie
  BY Asked4 DEF Extracts, DlvritInv, KeptTyped
<1>2. RenewalsOwned'
  BY FlightGoesOn DEF Extracts, DlvritInv, Places
<1>3. RequestsModest'
  BY DEF Extracts, DlvritInv, RequestsModest, Modest
<1>4. KeptTyped'
  BY <1>1 DEF Extracts, DlvritInv, KeptTyped
<1> QED BY <1>1, <1>2, <1>3, <1>4 DEF DlvritInv

\* What a request is that goes on with the cookie of its renewal.
LEMMA Resumed ==
    ASSUME DlvritInv, NEW f \in Users, Resolves(f), NEW u \in Waiters(f), flight[f] # "none"
    PROVE  /\ u \in Users /\ req'[u] \in Request /\ req'[u].delivered = 0
           /\ req'[u].step = req[u].then /\ req[u].then \in {"looking", "calling"}
           /\ req'[u].cookie = profile[Workspace(f)]
<1>1. u \in Users /\ req[u] \in Request /\ Modest(req[u])
  BY DEF Waiters, DlvritInv, RequestsModest
<1>2. req[u].delivered = 0
  BY <1>1 DEF Waiters, DlvritAt, Modest
<1>3. PICK k \in MaybeCookie : k = profile[Workspace(f)]
  BY Asked4 DEF DlvritInv, KeptTyped
<1>4. req'[u] = GoesOn(req[u], k)
  BY <1>1, <1>3 DEF Resolves
<1>5. req[u].then \in {"looking", "calling"}
  BY <1>1 DEF Request
<1>6. /\ GoesOn(req[u], k) \in Request /\ GoesOn(req[u], k).delivered = 0
      /\ GoesOn(req[u], k).step = req[u].then /\ GoesOn(req[u], k).cookie = k
  BY <1>1, <1>2, <1>3, <1>5 DEF GoesOn, Request, ReqSteps
<1> QED BY <1>1, <1>3, <1>4, <1>5, <1>6

LEMMA ClosesKeeps ==
    ASSUME DlvritInv, NEW f \in Users, Closes(f)
    PROVE  DlvritInv'
<1> DEFINE w == Workspace(f)
<1>1. UNCHANGED <<demand, remembered, onDisk, profile, valid, issued, rows, restarted>>
      /\ w \in Workspaces /\ profile[w] \in MaybeCookie /\ flight[f] # "none"
  BY Asked4 DEF Closes, DlvritInv, KeptTyped
<1>2. CASE Resolves(f)
  <2>1. RenewalsOwned'
    BY <1>1, <1>2, RenewalEnds DEF Resolves, DlvritInv
  <2>2. ASSUME NEW u \in Waiters(f)
        PROVE  Modest(req'[u])
    BY <1>1, <1>2, Resumed DEF Modest
  <2>3. \A u \in Users \ Waiters(f) : req'[u] = req[u] /\ Modest(req[u])
    BY <1>2 DEF Resolves, DlvritInv, RequestsModest
  <2>4. \A u \in Users : Modest(req'[u])
    BY <2>2, <2>3
  <2>5. req' = [u \in Users |-> req'[u]]
    BY <1>2 DEF Resolves
  <2>6. RequestsModest'
    BY <2>4, <2>5 DEF RequestsModest, Modest
  <2> QED BY <1>1, <2>1, <2>6 DEF DlvritInv, KeptTyped
<1>3. CASE Rejects(f)
  BY <1>1, <1>3, RejectedKeeps
<1> QED BY <1>2, <1>3 DEF Closes

LEMMA AnswersKeeps ==
    ASSUME DlvritInv, NEW u \in Users, Answers(u)
    PROVE  DlvritInv'
<1>1. req[u] \in Request /\ Modest(req[u]) /\ req[u].step = "calling" /\ req[u].delivered = 0
  BY DEF DlvritInv, RequestsModest, Answers, DlvritAt, Modest
<1>2. UNCHANGED demand /\ KeptTyped'
  BY DEF Answers, DlvritInv, KeptTyped
<1>3. CASE Renew(u, "calling", [req[u] EXCEPT !.again = TRUE])
  <2>1. [req[u] EXCEPT !.again = TRUE] \in Request
        /\ [req[u] EXCEPT !.again = TRUE].delivered = 0
    BY <1>1 DEF Request
  <2> QED BY <1>2, <1>3, <2>1, RenewKeeps DEF DlvritInv
<1>4. ASSUME NEW r, Modest(r), req' = [req EXCEPT ![u] = r], UNCHANGED <<flight, refreshes>>
      PROVE  DlvritInv'
  <2>1. RequestsModest'
    BY <1>4, OneRequest DEF DlvritInv
  <2>2. RenewalsOwned'
    BY <1>2, <1>4, OwnedThen DEF DlvritInv, RenewalsOwned
  <2> QED BY <1>2, <2>1, <2>2 DEF DlvritInv
<1>5. \A step \in {"linking", "failing", "done"} : Modest(Ended(u, step))
  BY <1>1, EndedModest DEF DlvritInv
<1>6. ASSUME NEW step \in {"done", "failing"}
      PROVE  Modest([Ended(u, step) EXCEPT !.delivered = @ + 1])
  <2>1. Ended(u, step) \in Request
    BY <1>5 DEF Modest
  <2>2. Ended(u, step).step = step /\ Ended(u, step).delivered = 0
    BY <1>1 DEF Ended, Fresh
  <2>3. [Ended(u, step) EXCEPT !.delivered = @ + 1] \in Request
    BY <2>1, <2>2 DEF Request
  <2>4. [Ended(u, step) EXCEPT !.delivered = @ + 1].delivered = 1
    BY <2>1, <2>2 DEF Request
  <2>5. [Ended(u, step) EXCEPT !.delivered = @ + 1].step = step
    BY <2>1, <2>2 DEF Request
  <2> QED BY <2>3, <2>4, <2>5 DEF Modest
<1>7. CASE /\ req' = [req EXCEPT ![u] = Ended(u, "linking")] /\ UNCHANGED <<flight, refreshes>>
  BY <1>4, <1>5, <1>7
<1>8. CASE /\ req' = [req EXCEPT ![u] = Ended(u, "failing")] /\ UNCHANGED <<flight, refreshes>>
  BY <1>4, <1>5, <1>8
<1>9. CASE /\ \E step \in {"done", "failing"} :
                req' = [req EXCEPT ![u] = [Ended(u, step) EXCEPT !.delivered = @ + 1]]
           /\ UNCHANGED <<flight, refreshes>>
  BY <1>4, <1>6, <1>9
<1> QED BY <1>3, <1>7, <1>8, <1>9 DEF Answers

LEMMA LinksKeeps ==
    ASSUME DlvritInv, NEW u \in Users, Links(u)
    PROVE  DlvritInv'
<1>1. req[u] \in Request /\ req[u].delivered = 0
  BY DEF DlvritInv, RequestsModest, Links, DlvritAt, Modest
<1>2. \A step \in {"done", "failing"} : Modest([req[u] EXCEPT !.step = step])
  <2>1. \A step \in {"done", "failing"} : [req[u] EXCEPT !.step = step] \in Request
                                           /\ [req[u] EXCEPT !.step = step].delivered = 0
    BY <1>1 DEF Request, ReqSteps
  <2> QED BY <2>1 DEF Modest
<1>3. RequestsModest'
  BY <1>2, OneRequest DEF Links, DlvritInv
<1>4. UNCHANGED <<demand, flight, refreshes>> /\ Workspace(u) \in Workspaces
  BY Asked4 DEF Links, DlvritInv
<1>5. RenewalsOwned'
  BY <1>4, OwnedThen DEF DlvritInv, RenewalsOwned
<1>6. KeptTyped'
  BY <1>4 DEF Links, DlvritInv, KeptTyped, Statuses
<1> QED BY <1>3, <1>4, <1>5, <1>6 DEF DlvritInv

LEMMA FailsKeeps ==
    ASSUME DlvritInv, NEW u \in Users, Fails(u)
    PROVE  DlvritInv'
<1>1. req[u] \in Request /\ req[u].delivered \in {0, 1}
  BY DEF DlvritInv, RequestsModest, Modest
<1>2. Modest([req[u] EXCEPT !.step = "failed"])
  <2>1. [req[u] EXCEPT !.step = "failed"] \in Request
        /\ [req[u] EXCEPT !.step = "failed"].delivered \in {0, 1}
        /\ [req[u] EXCEPT !.step = "failed"].step = "failed"
    BY <1>1 DEF Request, ReqSteps
  <2> QED BY <2>1 DEF Modest
<1>3. RequestsModest'
  BY <1>2, OneRequest DEF Fails, DlvritInv
<1>4. UNCHANGED <<demand, flight, refreshes>> /\ Workspace(u) \in Workspaces
  BY Asked4 DEF Fails, DlvritInv
<1>5. RenewalsOwned'
  BY <1>4, OwnedThen DEF DlvritInv, RenewalsOwned
<1>6. KeptTyped'
  BY <1>4 DEF Fails, DlvritInv, KeptTyped, Statuses
<1> QED BY <1>3, <1>4, <1>5, <1>6 DEF DlvritInv

\* The site forgets a cookie, or a kept one gets too old.
LEMMA AgingKeeps ==
    ASSUME DlvritInv, SiteForgets \/ \E w \in Workspaces : Ages(w)
    PROVE  DlvritInv'
<1>1. UNCHANGED <<demand, req, flight, refreshes>>
  BY DEF SiteForgets, Ages
<1>2. RequestsModest' /\ RenewalsOwned'
  BY <1>1, OwnedThen DEF DlvritInv, RequestsModest, RenewalsOwned, Modest
<1>3. KeptTyped'
  BY DEF SiteForgets, Ages, DlvritInv, KeptTyped, MaybeCookie
<1> QED BY <1>1, <1>2, <1>3 DEF DlvritInv

LEMMA RestartKeeps ==
    ASSUME DlvritInv, Restart
    PROVE  DlvritInv'
<1>1. \A u \in Users : Modest(Ended(u, "failed")) /\ Modest(req[u])
  BY EndedModest DEF DlvritInv, RequestsModest
<1>2. req' = [u \in Users |-> IF req[u].step \in {"idle", "done"} THEN req[u]
                                ELSE Ended(u, "failed")]
  BY DEF Restart
<1>3. RequestsModest'
  BY <1>1, <1>2 DEF RequestsModest, Modest
<1>4. RenewalsOwned'
  <2>1. /\ flight' \in [Users -> Places]
        /\ refreshes' \in [Workspaces -> Users \cup {NoUser}]
    BY DEF Restart, Places
  <2> QED BY <2>1, OwnedThen DEF Restart
<1>5. KeptTyped'
  BY DEF Restart, DlvritInv, KeptTyped, MaybeCookie
<1> QED BY <1>3, <1>4, <1>5 DEF DlvritInv, Restart

-----------------------------------------------------------------------------
\* No step of a user, a browser, the site or the process breaks the invariant.
LEMMA DlvritStepKeeps == DlvritInv /\ [DlvritNext]_dlvritVars => DlvritInv'
<1> SUFFICES ASSUME DlvritInv, [DlvritNext]_dlvritVars PROVE DlvritInv'
  OBVIOUS
<1>1. ASSUME NEW u \in Users, UserStep(u) PROVE DlvritInv'
  BY <1>1, Ask4SessionKeeps, LookKeeps, AnswersKeeps, LinksKeeps, FailsKeeps DEF UserStep
<1>2. ASSUME NEW f \in Users, FlightStep(f) PROVE DlvritInv'
  BY <1>2, FlightFailsKeeps, LandsKeeps, LogsInKeeps, ExtractsKeeps, ClosesKeeps DEF FlightStep
<1>3. CASE SiteForgets \/ Restart \/ \E w \in Workspaces : Ages(w)
  BY <1>3, AgingKeeps, RestartKeeps
<1>4. CASE UNCHANGED dlvritVars
  <2>1. UNCHANGED <<demand, flight, refreshes>>
    BY <1>4 DEF dlvritVars
  <2>2. RenewalsOwned'
    BY <2>1, OwnedThen DEF DlvritInv, RenewalsOwned
  <2>3. RequestsModest' /\ KeptTyped'
    BY <1>4 DEF dlvritVars, DlvritInv, RequestsModest, Modest, KeptTyped
  <2> QED BY <2>1, <2>2, <2>3 DEF DlvritInv
<1> QED BY <1>1, <1>2, <1>3, <1>4 DEF DlvritNext

\* The invariant, of every behaviour: renewals are owned, deliveries counted.
THEOREM DlvritInvariant == DlvritSpec => []DlvritInv
BY InitDlvrit, DlvritStepKeeps, PTL DEF DlvritSpec

\* Cookies, requests, renewals and rows keep their types, whatever the site
\* answers and forgets, and over a restart.
THEOREM DlvritTypeCorrect == DlvritSpec => []DlvritTypeOK
<1>1. DlvritInv => DlvritTypeOK
  BY DEF DlvritInv, DlvritTypeOK, RequestsModest, RenewalsOwned, KeptTyped, Request
<1> QED BY <1>1, DlvritInvariant, PTL

\* Never do two browsers log in to one workspace, nor does a renewal that has
\* ended wait in the map of dlvrit-session.service.ts.
THEOREM RenewalsUnique == DlvritSpec => []OneRenewalPerWorkspace
<1>1. DlvritInv => OneRenewalPerWorkspace
  BY DEF DlvritInv, RenewalsOwned, OneRenewalPerWorkspace
<1> QED BY <1>1, DlvritInvariant, PTL

\* A message goes to dlvr.it once at most, for any number of users that renew
\* the session under it.
THEOREM DeliveredOnce == DlvritSpec => []PostedAtMostOnce
<1>1. DlvritInv => PostedAtMostOnce
  BY DEF DlvritInv, RequestsModest, Modest, PostedAtMostOnce
<1> QED BY <1>1, DlvritInvariant, PTL

-----------------------------------------------------------------------------
(* Who a waiting request and a row that is CONNECTING wait for.            *)

\* A request that waits, waits for a browser that runs for its workspace.
WaitersServed ==
    \A u \in Users : DlvritAt(u, "waiting") =>
        /\ req[u].on \in Users /\ flight[req[u].on] # "none"
        /\ Workspace(req[u].on) = Workspace(u)

Underway(u) == req[u].step \in {"looking", "waiting", "calling", "linking", "failing"}

\* A row that is CONNECTING has an operator's request that will write it.
ConnectingHeld ==
    \A w \in Workspaces : rows[w] = "CONNECTING" /\ ~restarted =>
        \E u \in Users : Operator(u) /\ Workspace(u) = w /\ Underway(u)

HeldInv == WaitersServed /\ ConnectingHeld

\* A waiting request has waited before for the same browser, which still runs,
\* or begins to wait for one.
LEMMA StillServed ==
    ASSUME WaitersServed, UNCHANGED demand,
           \A u \in Users : req'[u].step = "waiting" =>
               \/ /\ req[u].step = "waiting" /\ req'[u].on = req[u].on
                  /\ flight'[req[u].on] # "none"
               \/ /\ req'[u].on \in Users /\ flight'[req'[u].on] # "none"
                  /\ Workspace(req'[u].on) = Workspace(u)
    PROVE  WaitersServed'
BY DEF WaitersServed, DlvritAt, Workspace

\* A row gets CONNECTING by a request that is under way, and a request that
\* ends writes it.
LEMMA StillHeld ==
    ASSUME ConnectingHeld, UNCHANGED demand, restarted => restarted',
           \A w \in Workspaces : rows'[w] = "CONNECTING" =>
               \/ rows[w] = "CONNECTING"
               \/ \E u \in Users : Operator(u) /\ Workspace(u) = w /\ Underway(u)',
           \A u \in Users : Operator(u) /\ Underway(u) =>
               Underway(u)' \/ rows'[Workspace(u)] # "CONNECTING" \/ restarted'
    PROVE  ConnectingHeld'
<1>1. \A u : Operator(u)' = Operator(u) /\ Workspace(u)' = Workspace(u)
  BY DEF Operator, Workspace
<1> SUFFICES ASSUME NEW w \in Workspaces, rows'[w] = "CONNECTING", ~restarted'
             PROVE  \E u \in Users : Operator(u) /\ Workspace(u) = w /\ Underway(u)'
  BY <1>1 DEF ConnectingHeld
<1>2. CASE rows[w] = "CONNECTING"
  <2>1. PICK u \in Users : Operator(u) /\ Workspace(u) = w /\ Underway(u)
    BY <1>2 DEF ConnectingHeld
  <2> QED BY <2>1
<1>3. CASE rows[w] # "CONNECTING"
  BY <1>3
<1> QED BY <1>2, <1>3

\* A request that shares a renewal, or starts one, waits for a browser.
LEMMA RenewServes ==
    ASSUME DlvritInv, HeldInv, UNCHANGED demand, NEW u \in Users,
           NEW then, NEW r \in Request, Renew(u, then, r)
    PROVE  /\ WaitersServed' /\ Underway(u)'
           /\ \A v \in Users \ {u} : req'[v] = req[v]
<1> DEFINE w == Workspace(u)
           on == IF refreshes[w] = NoUser THEN u ELSE refreshes[w]
<1>1. w \in Workspaces /\ u # NoUser
  BY Asked4, DlvritConstants DEF DlvritInv
<1>2. /\ req' = [req EXCEPT ![u] = [r EXCEPT !.step = "waiting", !.then = then, !.on = on]]
      /\ flight' = IF refreshes[w] = NoUser THEN [flight EXCEPT ![u] = "landing"] ELSE flight
  BY DEF Renew
<1>3. req'[u].step = "waiting" /\ req'[u].on = on /\ \A v \in Users \ {u} : req'[v] = req[v]
  BY <1>2 DEF DlvritInv, RequestsModest, Request
<1>4. on \in Users /\ flight'[on] # "none" /\ Workspace(on) = w
  BY <1>1, <1>2 DEF DlvritInv, RenewalsOwned
<1>5. \A v \in Users : flight[v] # "none" => flight'[v] # "none"
  BY <1>2 DEF DlvritInv, RenewalsOwned
<1>6. \A v \in Users : req[v].step = "waiting" =>
          req[v].on \in Users /\ flight[req[v].on] # "none"
  BY DEF HeldInv, WaitersServed, DlvritAt
<1> HIDE DEF on, w
<1>7. WaitersServed'
  <2>1. ASSUME NEW v \in Users, req'[v].step = "waiting"
        PROVE  \/ /\ req[v].step = "waiting" /\ req'[v].on = req[v].on
                  /\ flight'[req[v].on] # "none"
               \/ /\ req'[v].on \in Users /\ flight'[req'[v].on] # "none"
                  /\ Workspace(req'[v].on) = Workspace(v)
    <3>1. CASE v = u
      BY <1>3, <1>4, <3>1 DEF w
    <3>2. CASE v # u
      BY <1>3, <1>5, <1>6, <2>1, <3>2
    <3> QED BY <3>1, <3>2
  <2> QED BY <2>1, StillServed DEF HeldInv
<1> QED BY <1>3, <1>7 DEF Underway

\* A renewal that ends ends the wait of all who share it, and of nobody else.
LEMMA EndServes ==
    ASSUME DlvritInv, HeldInv, UNCHANGED demand, NEW f \in Users,
           flight' = [flight EXCEPT ![f] = "none"],
           \A u \in Waiters(f) : req'[u].step \in {"looking", "calling", "failing"},
           \A u \in Users \ Waiters(f) : req'[u] = req[u],
           UNCHANGED <<rows, restarted>>
    PROVE  HeldInv'
<1>1. \A g \in Users \ {f} : flight'[g] = flight[g]
  BY DEF DlvritInv, RenewalsOwned
<1>2. WaitersServed'
  <2>1. ASSUME NEW v \in Users, req'[v].step = "waiting"
        PROVE  req[v].step = "waiting" /\ req'[v].on = req[v].on /\ flight'[req[v].on] # "none"
    <3>1. v \notin Waiters(f) /\ req'[v] = req[v]
      BY <2>1
    <3>2. req[v].step = "waiting" /\ req[v].on # f
      BY <2>1, <3>1 DEF Waiters, DlvritAt
    <3>3. req[v].on \in Users /\ flight[req[v].on] # "none"
      BY <3>2 DEF HeldInv, WaitersServed, DlvritAt
    <3> QED BY <1>1, <3>1, <3>2, <3>3
  <2> QED BY <2>1, StillServed DEF HeldInv
<1>3. \A u \in Users : Underway(u) => Underway(u)'
  BY DEF Underway, Waiters
<1>4. ConnectingHeld'
  BY <1>3, StillHeld DEF HeldInv
<1> QED BY <1>2, <1>4 DEF HeldInv

\* A request that goes on without a renewal, or ends when its row is written.
LEMMA RequestServes ==
    ASSUME DlvritInv, HeldInv, UNCHANGED <<demand, flight, restarted>>, NEW u \in Users,
           NEW r, req' = [req EXCEPT ![u] = r], r.step # "waiting",
           \A w \in Workspaces : rows'[w] = "CONNECTING" => rows[w] = "CONNECTING",
           \/ r.step \in {"looking", "calling", "linking", "failing"}
           \/ ~Operator(u) \/ rows'[Workspace(u)] # "CONNECTING"
    PROVE  HeldInv'
<1>1. req'[u] = r /\ \A v \in Users \ {u} : req'[v] = req[v]
  BY DEF DlvritInv, RequestsModest
<1>2. WaitersServed'
  <2>1. ASSUME NEW v \in Users, req'[v].step = "waiting"
        PROVE  req[v].step = "waiting" /\ req'[v].on = req[v].on /\ flight'[req[v].on] # "none"
    <3>1. v # u /\ req'[v] = req[v]
      BY <1>1, <2>1
    <3> QED BY <2>1, <3>1 DEF HeldInv, WaitersServed, DlvritAt
  <2> QED BY <2>1, StillServed DEF HeldInv
<1>3. \A v \in Users : Operator(v) /\ Underway(v) =>
          Underway(v)' \/ rows'[Workspace(v)] # "CONNECTING"
  BY <1>1 DEF Underway
<1>4. ConnectingHeld'
  BY <1>3, StillHeld DEF HeldInv
<1> QED BY <1>2, <1>4 DEF HeldInv

LEMMA Ask4SessionServes ==
    ASSUME DlvritInv, HeldInv, NEW u \in Users, Ask4Session(u)
    PROVE  HeldInv'
<1>1. UNCHANGED <<demand, restarted>> /\ req[u] \in Request /\ Workspace(u) \in Workspaces
  BY Asked4 DEF Ask4Session, DlvritInv, RequestsModest
<1>2. CASE Operator(u)
  <2>1. /\ WaitersServed' /\ Underway(u)'
        /\ \A v \in Users \ {u} : req'[v] = req[v]
    BY <1>1, <1>2, RenewServes DEF Ask4Session
  <2>2. \A w \in Workspaces : rows'[w] = "CONNECTING" => rows[w] = "CONNECTING" \/ w = Workspace(u)
    BY DEF Ask4Session, DlvritInv, KeptTyped
  <2>3. \A v \in Users : Underway(v) => Underway(v)'
    BY <2>1 DEF Underway
  <2>4. ConnectingHeld'
    BY <1>1, <1>2, <2>1, <2>2, <2>3, StillHeld DEF HeldInv
  <2> QED BY <2>1, <2>4 DEF HeldInv
<1>3. CASE ~Operator(u)
  <2> DEFINE r == [req[u] EXCEPT !.step = "looking"]
  <2>1. req' = [req EXCEPT ![u] = r] /\ UNCHANGED flight /\ rows' = rows
    BY <1>3 DEF Ask4Session, Operator
  <2>2. r.step = "looking"
    BY <1>1 DEF Request
  <2> HIDE DEF r
  <2> QED BY <1>1, <2>1, <2>2, RequestServes
<1> QED BY <1>2, <1>3

LEMMA LookServes ==
    ASSUME DlvritInv, HeldInv, NEW u \in Users, Look(u)
    PROVE  HeldInv'
<1> DEFINE w == Workspace(u)
           kept == IF remembered[w] # NoCookie THEN remembered[w] ELSE onDisk[w]
<1>1. UNCHANGED <<demand, rows, restarted>> /\ req[u] \in Request
  BY DEF Look, KeptCookie, DlvritInv, RequestsModest
<1>2. CASE kept = NoCookie
  <2>1. WaitersServed' /\ Underway(u)' /\ \A v \in Users \ {u} : req'[v] = req[v]
    BY <1>1, <1>2, RenewServes DEF Look, KeptCookie
  <2>2. \A v \in Users : Underway(v) => Underway(v)'
    BY <2>1 DEF Underway
  <2>3. ConnectingHeld'
    BY <1>1, <2>2, StillHeld DEF HeldInv
  <2> QED BY <2>1, <2>3 DEF HeldInv
<1>3. CASE kept # NoCookie
  <2> DEFINE r == [req[u] EXCEPT !.step = "calling", !.cookie = kept]
  <2>1. req' = [req EXCEPT ![u] = r] /\ UNCHANGED flight
    BY <1>3 DEF Look, KeptCookie
  <2>2. r.step = "calling"
    BY <1>1 DEF Request
  <2> HIDE DEF r
  <2> QED BY <1>1, <2>1, <2>2, RequestServes
<1> QED BY <1>2, <1>3

\* Only the request of a post is over with the answer.
LEMMA AnswersServes ==
    ASSUME DlvritInv, HeldInv, NEW u \in Users, Answers(u)
    PROVE  HeldInv'
<1>1. UNCHANGED <<demand, rows, restarted>> /\ req[u] \in Request
  BY DEF Answers, DlvritInv, RequestsModest
<1>2. CASE Renew(u, "calling", [req[u] EXCEPT !.again = TRUE])
  <2>1. [req[u] EXCEPT !.again = TRUE] \in Request
    BY <1>1 DEF Request
  <2>2. WaitersServed' /\ Underway(u)' /\ \A v \in Users \ {u} : req'[v] = req[v]
    BY <1>1, <1>2, <2>1, RenewServes
  <2>3. \A v \in Users : Underway(v) => Underway(v)'
    BY <2>2 DEF Underway
  <2>4. ConnectingHeld'
    BY <1>1, <2>3, StillHeld DEF HeldInv
  <2> QED BY <2>2, <2>4 DEF HeldInv
<1>3. \A step : Ended(u, step).step = step
  BY DEF Ended, Fresh
<1>4. \A step : [Ended(u, step) EXCEPT !.delivered = @ + 1].step = step
  BY DEF Ended, Fresh
<1>5. CASE /\ UNCHANGED flight
           /\ \E step \in {"linking", "failing"} : req' = [req EXCEPT ![u] = Ended(u, step)]
  <2>1. PICK step \in {"linking", "failing"} : req' = [req EXCEPT ![u] = Ended(u, step)]
    BY <1>5
  <2> QED BY <1>1, <1>3, <1>5, <2>1, RequestServes
<1>6. CASE /\ UNCHANGED flight /\ ~Operator(u)
           /\ \E step \in {"done", "failing"} :
                 req' = [req EXCEPT ![u] = [Ended(u, step) EXCEPT !.delivered = @ + 1]]
  <2>1. PICK step \in {"done", "failing"} :
            req' = [req EXCEPT ![u] = [Ended(u, step) EXCEPT !.delivered = @ + 1]]
    BY <1>6
  <2> QED BY <1>1, <1>4, <1>6, <2>1, RequestServes
<1> QED BY <1>2, <1>5, <1>6 DEF Answers

LEMMA LinksServes ==
    ASSUME DlvritInv, HeldInv, NEW u \in Users, Links(u)
    PROVE  HeldInv'
<1>1. UNCHANGED <<demand, flight, restarted>> /\ req[u] \in Request
      /\ Workspace(u) \in Workspaces
  BY Asked4 DEF Links, DlvritInv, RequestsModest
<1>2. \A step : [req[u] EXCEPT !.step = step].step = step
  BY <1>1 DEF Request
<1>3. CASE /\ req' = [req EXCEPT ![u].step = "done"]
           /\ rows' = [rows EXCEPT ![Workspace(u)] = "ACTIVE"]
  <2>1. /\ \A w \in Workspaces : rows'[w] = "CONNECTING" => rows[w] = "CONNECTING"
        /\ rows'[Workspace(u)] # "CONNECTING"
    BY <1>1, <1>3 DEF DlvritInv, KeptTyped
  <2> QED BY <1>1, <1>2, <1>3, <2>1, RequestServes
<1>4. CASE req' = [req EXCEPT ![u].step = "failing"] /\ UNCHANGED rows
  BY <1>1, <1>2, <1>4, RequestServes
<1> QED BY <1>3, <1>4 DEF Links

LEMMA FailsServes ==
    ASSUME DlvritInv, HeldInv, NEW u \in Users, Fails(u)
    PROVE  HeldInv'
<1>1. UNCHANGED <<demand, flight, restarted>> /\ req[u] \in Request
      /\ Workspace(u) \in Workspaces /\ req' = [req EXCEPT ![u].step = "failed"]
  BY Asked4 DEF Fails, DlvritInv, RequestsModest
<1>2. [req[u] EXCEPT !.step = "failed"].step = "failed"
  BY <1>1 DEF Request
<1>3. /\ \A w \in Workspaces : rows'[w] = "CONNECTING" => rows[w] = "CONNECTING"
      /\ ~Operator(u) \/ rows'[Workspace(u)] # "CONNECTING"
  BY <1>1 DEF Fails, DlvritInv, KeptTyped
<1> QED BY <1>1, <1>2, <1>3, RequestServes

LEMMA FlightServes ==
    ASSUME DlvritInv, HeldInv, NEW f \in Users, FlightStep(f)
    PROVE  HeldInv'
<1>0. UNCHANGED <<demand, rows, restarted>>
  BY DEF FlightStep, LandFails, Lands, LogsIn, SignInFails, Extracts, ExtractFails, Closes
<1>1. CASE Lands(f) \/ LogsIn(f) \/ Extracts(f) \/ GivesUp(f)
  <2>1. /\ UNCHANGED req
        /\ \A g \in Users : flight[g] # "none" => flight'[g] # "none"
    BY <1>1 DEF Lands, LogsIn, Extracts, GivesUp, DlvritInv, RenewalsOwned
  <2>2. WaitersServed'
    BY <1>0, <2>1 DEF HeldInv, WaitersServed, DlvritAt, Workspace
  <2>3. ConnectingHeld'
    BY <1>0, <2>1, StillHeld DEF HeldInv, Underway
  <2> QED BY <2>2, <2>3 DEF HeldInv
<1>2. CASE Rejects(f)
  <2>1. \A u : Ended(u, "failing").step = "failing"
    BY DEF Ended, Fresh
  <2>2. /\ \A u \in Waiters(f) : req'[u].step = "failing"
        /\ \A u \in Users \ Waiters(f) : req'[u] = req[u]
    BY <1>2, <2>1 DEF Rejects, Waiters
  <2> QED BY <1>0, <1>2, <2>2, EndServes DEF Rejects
<1>3. CASE Resolves(f) /\ flight[f] # "none"
  <2>1. ASSUME NEW u \in Waiters(f)
        PROVE  req'[u].step \in {"looking", "calling"}
    BY <1>3, Resumed
  <2>2. \A u \in Users \ Waiters(f) : req'[u] = req[u]
    BY <1>3 DEF Resolves, Waiters
  <2> QED BY <1>0, <1>3, <2>1, <2>2, EndServes DEF Resolves
<1> QED BY <1>1, <1>2, <1>3 DEF FlightStep, LandFails, SignInFails, ExtractFails, Closes

\* A restart ends all that wait.
LEMMA RestartServes ==
    ASSUME DlvritInv, HeldInv, Restart
    PROVE  HeldInv'
<1>1. \A u : Ended(u, "failed").step = "failed"
  BY DEF Ended, Fresh
<1>2. \A u \in Users : req'[u].step # "waiting"
  BY <1>1 DEF Restart
<1>3. WaitersServed'
  BY <1>2 DEF WaitersServed, DlvritAt
<1> QED BY <1>3 DEF HeldInv, ConnectingHeld, Restart

LEMMA HeldStepKeeps == DlvritInv /\ HeldInv /\ [DlvritNext]_dlvritVars => HeldInv'
<1> SUFFICES ASSUME DlvritInv, HeldInv, [DlvritNext]_dlvritVars PROVE HeldInv'
  OBVIOUS
<1>1. ASSUME NEW u \in Users, UserStep(u) PROVE HeldInv'
  BY <1>1, Ask4SessionServes, LookServes, AnswersServes, LinksServes, FailsServes DEF UserStep
<1>2. ASSUME UNCHANGED <<demand, req, flight, rows, restarted>> PROVE HeldInv'
  BY <1>2 DEF HeldInv, WaitersServed, ConnectingHeld, DlvritAt, Underway, Operator, Workspace
<1>3. CASE SiteForgets \/ (\E w \in Workspaces : Ages(w)) \/ UNCHANGED dlvritVars
  BY <1>2, <1>3 DEF SiteForgets, Ages, dlvritVars
<1> QED BY <1>1, <1>3, FlightServes, RestartServes DEF DlvritNext

\* No request waits in vain: a browser runs for its workspace, although the one
\* it was sharing may have ended, been rejected or been lost with the process.
\* And until a restart a CONNECTING row has a request that will write it: what
\* ConnectingSettles needs of the states, for any users and workspaces.
THEOREM NobodyWaitsInVain == DlvritSpec => [](WaitersServed /\ ConnectingHeld)
<1>1. DlvritInit => HeldInv
  BY DEF DlvritInit, Fresh, HeldInv, WaitersServed, ConnectingHeld, DlvritAt
<1>2. HeldInv <=> WaitersServed /\ ConnectingHeld
  BY DEF HeldInv
<1> QED BY <1>1, <1>2, HeldStepKeeps, DlvritInvariant, PTL DEF DlvritSpec

-----------------------------------------------------------------------------
(* The renewals as SharedRenewals has them.                                *)

\* A renewal whose browser is being closed has stored the profile's cookie,
\* which no other browser of that workspace can touch.
StoredKnown == \A f \in Users : flight[f] = "stored" => profile[Workspace(f)] # NoCookie

\* Two browsers serve two workspaces.
LEMMA WorkspacesApart ==
    ASSUME DlvritInv, NEW f \in Users, NEW g \in Users, f # g,
           flight[f] # "none", flight[g] # "none"
    PROVE  Workspace(f) # Workspace(g)
BY DEF DlvritInv, RenewalsOwned

LEMMA StoredStays ==
    DlvritInv /\ StoredKnown /\ [DlvritNext]_dlvritVars => StoredKnown'
<1> SUFFICES ASSUME DlvritInv, StoredKnown, [DlvritNext]_dlvritVars
             PROVE  StoredKnown'
  OBVIOUS
<1>1. \A v \in Users : Workspace(v) \in Workspaces
  BY Asked4 DEF DlvritInv
<1>2. /\ flight \in [Users -> Places] /\ profile \in [Workspaces -> MaybeCookie]
  BY DEF DlvritInv, RenewalsOwned, KeptTyped
<1>3. ASSUME UNCHANGED <<demand, profile>>,
             \A v \in Users : flight'[v] = "stored" => flight[v] = "stored"
      PROVE  StoredKnown'
  BY <1>3 DEF StoredKnown, Workspace
<1>4. ASSUME NEW u \in Users, NEW then, NEW r, Renew(u, then, r)
      PROVE  \A v \in Users : flight'[v] = "stored" => flight[v] = "stored"
  BY <1>2, <1>4 DEF Renew
<1>5. ASSUME NEW u \in Users, UserStep(u) PROVE StoredKnown'
  BY <1>3, <1>4, <1>5 DEF UserStep, Ask4Session, Look, Answers, Links, Fails
<1>6. ASSUME NEW f \in Users, flight[f] # "none", UNCHANGED demand, NEW place \in Places, NEW k,
             flight' = [flight EXCEPT ![f] = place],
             profile' = [profile EXCEPT ![Workspace(f)] = k],
             place = "stored" => k # NoCookie
      PROVE  StoredKnown'
  <2>1. ASSUME NEW g \in Users, flight'[g] = "stored" PROVE profile'[Workspace(g)] # NoCookie
    <3>1. CASE g = f
      BY <1>1, <1>2, <1>6, <2>1, <3>1
    <3>2. CASE g # f
      <4>1. flight[g] = "stored"
        BY <1>2, <1>6, <2>1, <3>2
      <4>2. Workspace(g) # Workspace(f)
        BY <1>6, <3>2, <4>1, WorkspacesApart
      <4> QED BY <1>1, <1>2, <1>6, <4>1, <4>2 DEF StoredKnown
    <3> QED BY <3>1, <3>2
  <2> QED BY <1>6, <2>1 DEF StoredKnown, Workspace
<1>7. ASSUME NEW f \in Users, FlightStep(f) PROVE StoredKnown'
  <2>1. flight[f] # "none" /\ UNCHANGED demand
    BY <1>7 DEF FlightStep, LandFails, Lands, LogsIn, SignInFails, Extracts, ExtractFails, Closes
  <2>2. profile = [profile EXCEPT ![Workspace(f)] = profile[Workspace(f)]]
    BY <1>1, <1>2
  <2>3. CASE Lands(f)
    BY <1>2, <1>3, <2>3 DEF Lands
  <2>4. CASE LogsIn(f)
    BY <1>6, <2>1, <2>4 DEF LogsIn, Places
  <2>5. CASE GivesUp(f)
    BY <1>6, <2>1, <2>2, <2>5 DEF GivesUp, Places
  <2>6. CASE Extracts(f)
    BY <1>6, <2>1, <2>2, <2>6 DEF Extracts, Places
  <2>7. CASE (Rejects(f) \/ Resolves(f)) /\ UNCHANGED profile
    BY <1>2, <1>3, <2>1, <2>7 DEF Rejects, Resolves
  <2> QED BY <1>7, <2>3, <2>4, <2>5, <2>6, <2>7
          DEF FlightStep, LandFails, SignInFails, ExtractFails, Closes
<1>8. CASE SiteForgets \/ Restart \/ (\E w \in Workspaces : Ages(w)) \/ UNCHANGED dlvritVars
  BY <1>3, <1>8 DEF SiteForgets, Restart, Ages, dlvritVars
<1> QED BY <1>5, <1>7, <1>8 DEF DlvritNext

LEMMA StoredInvariant == DlvritSpec => []StoredKnown
<1>1. DlvritInit => StoredKnown
  BY DEF DlvritInit, StoredKnown
<1> QED BY <1>1, StoredStays, DlvritInvariant, PTL DEF DlvritSpec

\* What the mapping needs to know of a request.
LEMMA ProgressKnown ==
    ASSUME DlvritInv
    PROVE  \A u \in Users :
               /\ req[u].step \in ReqSteps
               /\ Progress[req[u].step] = "waiting" <=> DlvritAt(u, "waiting")
<1>1. \A u \in Users : req[u].step \in ReqSteps
  BY DEF DlvritInv, RequestsModest, Request
<1> QED BY <1>1 DEF ReqSteps, Progress, DlvritAt

\* A request that changes alone is one move.
LEMMA OneMoves ==
    ASSUME DlvritInv, UNCHANGED demand, NEW u \in Users, NEW r, req' = [req EXCEPT ![u] = r]
    PROVE  Shared!Moves(u, Progress[r.step], IF r.step = "calling" THEN r.cookie ELSE NoCookie)
<1>1. req \in [Users -> Request]
  BY DEF DlvritInv, RequestsModest
<1>2. /\ [v \in Users |-> Progress[req'[v].step]] =
             [[v \in Users |-> Progress[req[v].step]] EXCEPT ![u] = Progress[r.step]]
      /\ [v \in Users |-> IF req'[v].step = "calling" THEN req'[v].cookie ELSE NoCookie] =
             [[v \in Users |-> IF req[v].step = "calling" THEN req[v].cookie ELSE NoCookie]
                 EXCEPT ![u] = IF r.step = "calling" THEN r.cookie ELSE NoCookie]
  BY <1>1
<1>3. [v \in Users |-> demand'[v].ws] = [v \in Users |-> demand[v].ws]
  OBVIOUS
<1> QED BY <1>2, <1>3 DEF Shared!Moves, DlvritAt, Workspace

\* What no browser changes, no renewal has brought anew.
LEMMA BroughtStays ==
    ASSUME UNCHANGED <<flight, refreshes, profile>>
    PROVE  [w \in Workspaces |-> StoredCookie(w)]' = [w \in Workspaces |-> StoredCookie(w)]
BY DEF StoredCookie

\* refreshSession, by a request that may ask for a session.
LEMMA RenewJoins ==
    ASSUME DlvritInv, UNCHANGED <<demand, remembered, onDisk, profile>>, NEW u \in Users, NEW then,
           NEW r \in Request, Renew(u, then, r),
           req[u].step \in {"idle", "looking", "calling"},
           req[u].step = "looking" => KeptCookie(Workspace(u)) = NoCookie
    PROVE  Shared!Joins(u)
<1> DEFINE w == Workspace(u)
           on == IF refreshes[w] = NoUser THEN u ELSE refreshes[w]
           new == [r EXCEPT !.step = "waiting", !.then = then, !.on = on]
<1>1. w \in Workspaces /\ u # NoUser
  BY Asked4, DlvritConstants DEF DlvritInv
<1>2. req' = [req EXCEPT ![u] = new] /\ refreshes' = [refreshes EXCEPT ![w] = on]
  BY DEF Renew
<1>3. new.step = "waiting" /\ Progress["waiting"] = "waiting"
  BY DEF Request, Progress
<1> HIDE DEF new
<1>4. Shared!Moves(u, "waiting", NoCookie)
  BY <1>2, <1>3, OneMoves
<1>5. {x \in Workspaces : refreshes'[x] # NoUser} = {x \in Workspaces : refreshes[x] # NoUser} \cup {w}
  BY <1>1, <1>2 DEF DlvritInv, RenewalsOwned
<1>6. [x \in Workspaces |-> KeptCookie(x)]' = [x \in Workspaces |-> KeptCookie(x)]
  BY DEF KeptCookie
<1>7. /\ Progress[req[u].step] \in {"absent", "looking", "holding"}
      /\ Progress[req[u].step] = "looking" => KeptCookie(w) = NoCookie
  BY DEF Progress
<1>8. \A x \in Workspaces : StoredCookie(x)' = StoredCookie(x)
  <2>1. CASE refreshes[w] = NoUser
    <3>1. refreshes' = [refreshes EXCEPT ![w] = u] /\ flight' = [flight EXCEPT ![u] = "landing"]
      BY <2>1 DEF Renew
    <3>2. \A x \in Workspaces \ {w} : refreshes'[x] = refreshes[x] /\ refreshes[x] # u
      BY <1>1, <3>1 DEF DlvritInv, RenewalsOwned
    <3>3. refreshes'[w] = u /\ flight'[u] = "landing"
      BY <1>1, <3>1 DEF DlvritInv, RenewalsOwned
    <3>4. \A v \in Users \ {u} : flight'[v] = flight[v]
      BY <3>1 DEF DlvritInv, RenewalsOwned
    <3>5. \A x \in Workspaces : refreshes[x] \in Users \cup {NoUser}
      BY DEF DlvritInv, RenewalsOwned
    <3> QED BY <2>1, <3>2, <3>3, <3>4, <3>5 DEF StoredCookie
  <2>2. CASE refreshes[w] # NoUser
    <3>1. refreshes' = refreshes /\ flight' = flight
      BY <2>2 DEF Renew, DlvritInv, RenewalsOwned
    <3> QED BY <3>1 DEF StoredCookie
  <2> QED BY <2>1, <2>2
<1>9. [x \in Workspaces |-> StoredCookie(x)]' = [x \in Workspaces |-> StoredCookie(x)]
  BY <1>8
<1> QED BY <1>1, <1>4, <1>5, <1>6, <1>7, <1>9 DEF Shared!Joins

\* The renewal a browser of f serves is all that wait for its workspace.
LEMMA WaitersAreSharers ==
    ASSUME DlvritInv, WaitersServed, NEW f \in Users, flight[f] # "none"
    PROVE  /\ Waiters(f) = Shared!Sharers(Workspace(f))
           /\ Workspace(f) \in Workspaces /\ refreshes[Workspace(f)] = f /\ f # NoUser
<1>1. Workspace(f) \in Workspaces /\ refreshes[Workspace(f)] = f /\ f # NoUser
  BY Asked4, DlvritConstants DEF DlvritInv, RenewalsOwned
<1>2. ASSUME NEW u \in Users, DlvritAt(u, "waiting")
      PROVE  req[u].on = f <=> Workspace(u) = Workspace(f)
  BY <1>1, <1>2 DEF WaitersServed, DlvritInv, RenewalsOwned
<1>3. Shared!Sharers(Workspace(f)) =
          {u \in Users : DlvritAt(u, "waiting") /\ Workspace(u) = Workspace(f)}
  BY ProgressKnown DEF Shared!Sharers
<1> QED BY <1>1, <1>2, <1>3 DEF Waiters

\* What a browser brings or takes away, it does to its own workspace.
LEMMA BroughtByOwn ==
    ASSUME DlvritInv, NEW f \in Users, flight[f] # "none", NEW w, w = Workspace(f),
           \A v \in Users \ {f} : flight'[v] = flight[v],
           \A x \in Workspaces \ {w} : refreshes'[x] = refreshes[x] /\ profile'[x] = profile[x],
           NEW k, k = (IF refreshes'[w] # NoUser /\ flight'[refreshes'[w]] = "stored"
                       THEN profile'[w] ELSE NoCookie)
    PROVE  [x \in Workspaces |-> StoredCookie(x)]' =
               [[x \in Workspaces |-> StoredCookie(x)] EXCEPT ![w] = k]
<1>1. \A x \in Workspaces \ {w} : refreshes[x] \in (Users \cup {NoUser}) \ {f}
  BY Asked4, DlvritConstants DEF DlvritInv, RenewalsOwned
<1>2. \A x \in Workspaces \ {w} : StoredCookie(x)' = StoredCookie(x)
  BY <1>1 DEF StoredCookie
<1>3. StoredCookie(w)' = k
  BY DEF StoredCookie
<1> QED BY <1>2, <1>3

\* A renewal that ends, for better or worse.
LEMMA EndEnds ==
    ASSUME DlvritInv, UNCHANGED <<demand, remembered, onDisk, profile>>,
           NEW f \in Users, flight[f] # "none", NEW w, w = Workspace(f),
           flight' = [flight EXCEPT ![f] = "none"],
           refreshes' = [refreshes EXCEPT ![w] = NoUser]
    PROVE  Shared!Ends(w)
<1>1. w \in Workspaces /\ refreshes[w] = f /\ f # NoUser
  BY Asked4, DlvritConstants DEF DlvritInv, RenewalsOwned
<1>2. {x \in Workspaces : refreshes'[x] # NoUser} = {x \in Workspaces : refreshes[x] # NoUser} \ {w}
      /\ w \in {x \in Workspaces : refreshes[x] # NoUser}
  BY <1>1 DEF DlvritInv, RenewalsOwned
<1>3. [x \in Workspaces |-> KeptCookie(x)]' = [x \in Workspaces |-> KeptCookie(x)]
      /\ [v \in Users |-> demand'[v].ws] = [v \in Users |-> demand[v].ws]
  BY DEF KeptCookie
<1>4. /\ \A v \in Users \ {f} : flight'[v] = flight[v]
      /\ \A x \in Workspaces \ {w} : refreshes'[x] = refreshes[x] /\ profile'[x] = profile[x]
      /\ refreshes'[w] = NoUser
  BY <1>1 DEF DlvritInv, RenewalsOwned
<1>5. [x \in Workspaces |-> StoredCookie(x)]' =
          [[x \in Workspaces |-> StoredCookie(x)] EXCEPT ![w] = NoCookie]
  BY <1>4, BroughtByOwn
<1> QED BY <1>2, <1>3, <1>5 DEF Shared!Ends, Workspace

LEMMA RejectBreaks ==
    ASSUME DlvritInv, WaitersServed, UNCHANGED <<demand, remembered, onDisk, profile>>,
           NEW f \in Users, flight[f] # "none", Rejects(f), NEW w, w = Workspace(f)
    PROVE  Shared!Breaks(w)
<1>1. Waiters(f) = Shared!Sharers(w)
  BY WaitersAreSharers
<1>2. Shared!Ends(w)
  BY EndEnds DEF Rejects
<1>3. req' = [u \in Users |-> IF u \in Waiters(f) THEN Ended(u, "failing") ELSE req[u]]
  BY DEF Rejects
<1>4. \A u : Ended(u, "failing").step = "failing"
  BY DEF Ended, Fresh
<1>5. Progress["failing"] = "failed" /\ \A u \in Waiters(f) : req[u].step = "waiting"
  BY DEF Progress, Waiters, DlvritAt
<1>6. [u \in Users |-> Progress[req'[u].step]] =
          [u \in Users |-> IF u \in Waiters(f) THEN "failed"
                           ELSE [v \in Users |-> Progress[req[v].step]][u]]
  BY <1>3, <1>4, <1>5
<1>7. [u \in Users |-> IF req'[u].step = "calling" THEN req'[u].cookie ELSE NoCookie] =
          [u \in Users |-> IF req[u].step = "calling" THEN req[u].cookie ELSE NoCookie]
  BY <1>3, <1>4, <1>5
<1> QED BY <1>1, <1>2, <1>6, <1>7 DEF Shared!Breaks, DlvritAt

\* The cookie is stored, and the renewal runs on.
LEMMA ExtractStores ==
    ASSUME DlvritInv, NEW f \in Users, Extracts(f), NEW w, w = Workspace(f)
    PROVE  Shared!Stores(w)
<1>1. w \in Workspaces /\ refreshes[w] = f /\ f # NoUser /\ flight[f] = "inside"
  BY Asked4, DlvritConstants DEF DlvritInv, RenewalsOwned, Extracts
<1>2. PICK k : k = profile[w]
  OBVIOUS
<1>3. /\ remembered' = [remembered EXCEPT ![w] = k] /\ k # NoCookie
      /\ flight' = [flight EXCEPT ![f] = "stored"]
      /\ UNCHANGED <<demand, req, refreshes, profile>>
      /\ \A x \in Workspaces \ {w} : onDisk'[x] = onDisk[x]
  BY <1>2 DEF Extracts, DlvritInv, KeptTyped
<1>4. k \in Cookies
  BY <1>1, <1>2, <1>3 DEF DlvritInv, KeptTyped, MaybeCookie
<1>5. /\ \A v \in Users \ {f} : flight'[v] = flight[v]
      /\ flight'[f] = "stored"
  BY <1>3 DEF DlvritInv, RenewalsOwned
<1>6. [x \in Workspaces |-> StoredCookie(x)]' =
          [[x \in Workspaces |-> StoredCookie(x)] EXCEPT ![w] = k]
  BY <1>1, <1>2, <1>3, <1>5, BroughtByOwn
<1>7. [x \in Workspaces |-> KeptCookie(x)]' =
          [[x \in Workspaces |-> KeptCookie(x)] EXCEPT ![w] = k]
  BY <1>1, <1>3 DEF KeptCookie, DlvritInv, KeptTyped
<1>8. w \in {x \in Workspaces : refreshes[x] # NoUser}
      /\ [x \in Workspaces |-> StoredCookie(x)][w] = NoCookie
  BY <1>1 DEF StoredCookie
<1> QED BY <1>3, <1>4, <1>6, <1>7, <1>8 DEF Shared!Stores, DlvritAt, Workspace

\* The browser is closed, and all who waited have the cookie it has stored.
LEMMA CloseSucceeds ==
    ASSUME DlvritInv, WaitersServed, StoredKnown, UNCHANGED <<demand, remembered, onDisk, profile>>,
           NEW f \in Users, flight[f] = "stored", Resolves(f), NEW w, w = Workspace(f)
    PROVE  Shared!Succeeds(w)
<1> DEFINE W == Waiters(f)
           lookers == {u \in W : req[u].then = "looking"}
<1>0. PICK k : k = profile[w]
  OBVIOUS
<1>1. /\ W = Shared!Sharers(w)
      /\ w \in Workspaces /\ refreshes[w] = f /\ f # NoUser
  BY WaitersAreSharers
<1>2. Shared!Ends(w)
  BY EndEnds DEF Resolves
<1>3. StoredCookie(w) = k /\ k # NoCookie
  BY <1>0, <1>1 DEF StoredCookie, StoredKnown
<1>4. ASSUME NEW u \in W
      PROVE  /\ u \in Users /\ req[u].then \in {"looking", "calling"}
             /\ req'[u].step = req[u].then /\ req'[u].cookie = k
  BY <1>0, Resumed
<1>5. \A u \in Users \ W : req'[u] = req[u]
  BY DEF Resolves
<1> HIDE DEF W
<1>6. lookers \in SUBSET W
  OBVIOUS
<1>7. Progress["looking"] = "looking" /\ Progress["calling"] = "holding"
  BY DEF Progress
<1>8. [u \in Users |-> Progress[req'[u].step]] =
          [u \in Users |-> IF u \in lookers THEN "looking"
                           ELSE IF u \in W THEN "holding"
                           ELSE [v \in Users |-> Progress[req[v].step]][u]]
  BY <1>4, <1>5, <1>7
<1>9. [u \in Users |-> IF req'[u].step = "calling" THEN req'[u].cookie ELSE NoCookie] =
          [u \in Users |-> IF u \in W \ lookers THEN k
                           ELSE [v \in Users |-> IF req[v].step = "calling" THEN req[v].cookie
                                                 ELSE NoCookie][u]]
  <2>1. ASSUME NEW u \in Users
        PROVE  (IF req'[u].step = "calling" THEN req'[u].cookie ELSE NoCookie) =
               IF u \in W \ lookers THEN k
               ELSE IF req[u].step = "calling" THEN req[u].cookie ELSE NoCookie
    <3>1. CASE u \in W
      <4>1. req[u].step = "waiting"
        BY <3>1 DEF W, Waiters, DlvritAt
      <4> QED BY <1>4, <3>1, <4>1
    <3>2. CASE u \notin W
      BY <1>5, <3>2
    <3> QED BY <3>1, <3>2
  <2> QED BY <2>1
<1>10. [x \in Workspaces |-> StoredCookie(x)][w] = k
  BY <1>1, <1>3
<1>11. Shared!Sharers(w) = W /\ lookers \in SUBSET Shared!Sharers(w)
  BY <1>1, <1>6
<1>12. \E looking \in SUBSET Shared!Sharers(w) :
          /\ [u \in Users |-> Progress[req[u].step]]' =
                 [u \in Users |-> IF u \in looking THEN "looking"
                                  ELSE IF u \in Shared!Sharers(w) THEN "holding"
                                  ELSE [v \in Users |-> Progress[req[v].step]][u]]
          /\ [u \in Users |-> IF DlvritAt(u, "calling") THEN req[u].cookie ELSE NoCookie]' =
                 [u \in Users |-> IF u \in Shared!Sharers(w) \ looking
                     THEN [x \in Workspaces |-> StoredCookie(x)][w]
                     ELSE [v \in Users |-> IF DlvritAt(v, "calling") THEN req[v].cookie
                                           ELSE NoCookie][u]]
  <2> HIDE DEF lookers
  <2> USE <1>11
  <2> WITNESS lookers \in SUBSET Shared!Sharers(w)
  <2> QED BY <1>8, <1>9, <1>10, <1>11 DEF DlvritAt
<1> QED BY <1>2, <1>3, <1>10, <1>12 DEF Shared!Succeeds

-----------------------------------------------------------------------------
\* What the renewals and the kept cookies look like stays.
SameRenewals ==
    /\ {w \in Workspaces : refreshes'[w] # NoUser} = {w \in Workspaces : refreshes[w] # NoUser}
    /\ [w \in Workspaces |-> KeptCookie(w)]' = [w \in Workspaces |-> KeptCookie(w)]
    /\ [w \in Workspaces |-> StoredCookie(w)]' = [w \in Workspaces |-> StoredCookie(w)]

LEMMA MovesAlone ==
    ASSUME DlvritInv, UNCHANGED <<demand, refreshes, flight, profile>>,
           \A w \in Workspaces : KeptCookie(w)' = KeptCookie(w),
           NEW u \in Users, NEW r, req' = [req EXCEPT ![u] = r],
           NEW step, step = Progress[r.step],
           NEW k, k = (IF r.step = "calling" THEN r.cookie ELSE NoCookie)
    PROVE  Shared!Moves(u, step, k) /\ SameRenewals
<1>1. Shared!Moves(u, step, k)
  BY OneMoves
<1> QED BY <1>1, BroughtStays DEF SameRenewals

LEMMA LeavesAlone ==
    ASSUME DlvritInv, UNCHANGED <<demand, refreshes, flight, profile, remembered, onDisk>>,
           NEW u \in Users, req[u].step \in {"calling", "linking"},
           NEW r, req' = [req EXCEPT ![u] = r], r.step \in {"linking", "done", "failing"}
    PROVE  Shared!Leaves(u)
<1> DEFINE step == Progress[r.step]
<1>1. /\ step \in {"served", "failed"} /\ r.step # "calling"
      /\ Progress[req[u].step] \in {"holding", "served"}
  BY DEF Progress
<1>2. \A w \in Workspaces : KeptCookie(w)' = KeptCookie(w)
  BY DEF KeptCookie
<1>3. step = Progress[r.step]
  OBVIOUS
<1> HIDE DEF step
<1>4. Shared!Moves(u, step, NoCookie) /\ SameRenewals
  BY <1>1, <1>2, <1>3, MovesAlone
<1> QED BY <1>1, <1>4 DEF Shared!Leaves, SameRenewals

LEMMA UserShares ==
    ASSUME DlvritInv, NEW u \in Users, UserStep(u)
    PROVE  [Shared!RenewalNext]_(Shared!renewalVars)
<1>1. req[u] \in Request /\ u \in Users
  BY DEF DlvritInv, RequestsModest
<1>2. /\ UNCHANGED demand
      /\ ~ Look(u) => UNCHANGED remembered
      /\ UNCHANGED <<onDisk, profile>>
  BY DEF UserStep, Ask4Session, Look, Answers, Links, Fails
<1>3. CASE Ask4Session(u)
  <2>1. req[u].step = "idle" /\ UNCHANGED remembered
    BY <1>3 DEF Ask4Session, DlvritAt
  <2>2. CASE Renew(u, "looking", req[u])
    <3>1. Shared!Joins(u)
      BY <1>1, <1>2, <2>1, <2>2, RenewJoins
    <3> QED BY <3>1 DEF Shared!RenewalNext
  <2>3. CASE req' = [req EXCEPT ![u].step = "looking"] /\ UNCHANGED <<flight, refreshes>>
    <3> DEFINE r == [req[u] EXCEPT !.step = "looking"]
    <3>1. req' = [req EXCEPT ![u] = r]
      BY <2>3
    <3>2. r.step = "looking" /\ Progress["looking"] = "looking" /\ Progress["idle"] = "absent"
      BY <1>1 DEF Request, Progress
    <3> HIDE DEF r
    <3>3. \A w \in Workspaces : KeptCookie(w)' = KeptCookie(w)
      BY <1>2, <2>1 DEF KeptCookie
    <3>4. Shared!Moves(u, "looking", NoCookie) /\ SameRenewals
      BY <1>2, <2>3, <3>1, <3>2, <3>3, MovesAlone
    <3>5. Shared!Comes(u)
      BY <1>1, <2>1, <3>2, <3>4 DEF Shared!Comes, SameRenewals
    <3> QED BY <1>1, <3>5 DEF Shared!RenewalNext
  <2> QED BY <1>3, <2>2, <2>3 DEF Ask4Session
<1>4. CASE Look(u)
  <2>1. req[u].step = "looking" /\ Workspace(u) \in Workspaces
    BY <1>4, Asked4 DEF Look, DlvritAt, DlvritInv
  <2>2. CASE KeptCookie(Workspace(u)) = NoCookie
    <3>1. Renew(u, "calling", req[u]) /\ UNCHANGED remembered
      BY <1>4, <2>2 DEF Look
    <3>2. Shared!Joins(u)
      BY <1>1, <1>2, <2>1, <2>2, <3>1, RenewJoins
    <3> QED BY <3>2 DEF Shared!RenewalNext
  <2>3. CASE KeptCookie(Workspace(u)) # NoCookie
    <3>0. PICK k : k = KeptCookie(Workspace(u))
      OBVIOUS
    <3> DEFINE r == [req[u] EXCEPT !.step = "calling", !.cookie = k]
    <3>1. /\ req' = [req EXCEPT ![u] = r] /\ UNCHANGED <<flight, refreshes>>
          /\ remembered' = [remembered EXCEPT ![Workspace(u)] = k]
      BY <1>4, <2>3, <3>0 DEF Look
    <3>2. r.step = "calling" /\ r.cookie = k /\ Progress["calling"] = "holding"
          /\ Progress["looking"] = "looking"
      BY <1>1 DEF Request, Progress
    <3>3. \A w \in Workspaces : KeptCookie(w)' = KeptCookie(w)
      BY <1>2, <2>1, <2>3, <3>0, <3>1 DEF KeptCookie, DlvritInv, KeptTyped
    <3>4. k # NoCookie
      BY <2>3, <3>0
    <3> HIDE DEF r
    <3>5. Shared!Moves(u, "holding", k) /\ SameRenewals
      BY <1>2, <3>1, <3>2, <3>3, MovesAlone
    <3>6. [w \in Workspaces |-> KeptCookie(w)][[v \in Users |-> Workspace(v)][u]] = k
      BY <2>1, <3>0
    <3>7. [v \in Users |-> Progress[req[v].step]][u] = "looking"
      BY <2>1, <3>2
    <3>8. Shared!Finds(u)
      BY <3>4, <3>5, <3>6, <3>7 DEF Shared!Finds, Shared!Moves, SameRenewals
    <3> QED BY <3>8 DEF Shared!RenewalNext
  <2> QED BY <2>2, <2>3
<1>5. CASE Answers(u)
  <2>1. req[u].step = "calling" /\ UNCHANGED remembered
    BY <1>5 DEF Answers, DlvritAt
  <2>2. CASE Renew(u, "calling", [req[u] EXCEPT !.again = TRUE])
    <3>1. [req[u] EXCEPT !.again = TRUE] \in Request
      BY <1>1 DEF Request
    <3>2. Shared!Joins(u)
      BY <1>2, <2>1, <2>2, <3>1, RenewJoins
    <3> QED BY <3>2 DEF Shared!RenewalNext
  <2>3. \A step : /\ Ended(u, step).step = step
                  /\ [Ended(u, step) EXCEPT !.delivered = @ + 1].step = step
    BY DEF Ended, Fresh
  <2>4. CASE UNCHANGED <<flight, refreshes>> /\ \E step \in {"linking", "failing", "done"} :
                  \/ req' = [req EXCEPT ![u] = Ended(u, step)]
                  \/ req' = [req EXCEPT ![u] = [Ended(u, step) EXCEPT !.delivered = @ + 1]]
    <3>1. PICK r : req' = [req EXCEPT ![u] = r] /\ r.step \in {"linking", "failing", "done"}
      BY <2>3, <2>4
    <3>2. Shared!Leaves(u)
      BY <1>2, <2>1, <2>4, <3>1, LeavesAlone
    <3> QED BY <3>2 DEF Shared!RenewalNext
  <2> QED BY <1>5, <2>2, <2>4 DEF Answers
<1>6. CASE Links(u)
  <2>1. req[u].step = "linking" /\ UNCHANGED <<flight, refreshes, remembered>>
    BY <1>6 DEF Links, DlvritAt
  <2>2. PICK step \in {"done", "failing"} : req' = [req EXCEPT ![u] = [req[u] EXCEPT !.step = step]]
    BY <1>6 DEF Links
  <2> DEFINE r == [req[u] EXCEPT !.step = step]
  <2>3. r.step = step
    BY <1>1 DEF Request
  <2> HIDE DEF r
  <2>4. Shared!Leaves(u)
    BY <1>2, <2>1, <2>2, <2>3, LeavesAlone DEF r
  <2> QED BY <2>4 DEF Shared!RenewalNext
<1>7. CASE Fails(u)
  <2> DEFINE r == [req[u] EXCEPT !.step = "failed"]
  <2>1. /\ req[u].step = "failing" /\ UNCHANGED <<flight, refreshes, remembered>>
        /\ req' = [req EXCEPT ![u] = r]
    BY <1>7 DEF Fails, DlvritAt
  <2>2. r.step = "failed" /\ Progress["failed"] = "failed" /\ Progress["failing"] = "failed"
    BY <1>1 DEF Request, Progress
  <2> HIDE DEF r
  <2>3. \A w \in Workspaces : KeptCookie(w)' = KeptCookie(w)
    BY <1>2, <2>1 DEF KeptCookie
  <2>4. [v \in Users |-> Progress[req'[v].step]] = [v \in Users |-> Progress[req[v].step]]
    BY <2>1, <2>2 DEF DlvritInv, RequestsModest
  <2>5. [v \in Users |-> IF DlvritAt(v, "calling") THEN req[v].cookie ELSE NoCookie]' =
            [v \in Users |-> IF DlvritAt(v, "calling") THEN req[v].cookie ELSE NoCookie]
    BY <2>1, <2>2 DEF DlvritInv, RequestsModest, DlvritAt
  <2>6. UNCHANGED Shared!renewalVars
    BY <1>2, <2>1, <2>3, <2>4, <2>5, BroughtStays DEF Shared!renewalVars, Workspace
  <2> QED BY <2>6
<1> QED BY <1>3, <1>4, <1>5, <1>6, <1>7 DEF UserStep

\* A browser is not seen until it has its cookie; when it ends, it ends for all.
LEMMA FlightShares ==
    ASSUME DlvritInv, WaitersServed, StoredKnown, NEW f \in Users, FlightStep(f)
    PROVE  [Shared!RenewalNext]_(Shared!renewalVars)
<1>0. PICK w \in Workspaces : w = Workspace(f)
  BY Asked4 DEF DlvritInv
<1>1. flight[f] # "none" /\ UNCHANGED demand
  BY DEF FlightStep, LandFails, Lands, LogsIn, SignInFails, Extracts, ExtractFails, Closes
<1>2. CASE Rejects(f) /\ UNCHANGED <<remembered, onDisk, profile>>
  <2>1. Shared!Breaks(w)
    BY <1>0, <1>1, <1>2, RejectBreaks
  <2> QED BY <2>1 DEF Shared!RenewalNext
<1>3. CASE Resolves(f) /\ flight[f] = "stored" /\ UNCHANGED <<remembered, onDisk, profile>>
  <2>1. Shared!Succeeds(w)
    BY <1>0, <1>1, <1>3, CloseSucceeds
  <2> QED BY <2>1 DEF Shared!RenewalNext
<1>4. CASE Extracts(f)
  <2>1. Shared!Stores(w)
    BY <1>0, <1>4, ExtractStores
  <2> QED BY <2>1 DEF Shared!RenewalNext
<1>5. CASE (Lands(f) \/ LogsIn(f) \/ GivesUp(f)) /\ flight[f] # "stored"
           /\ UNCHANGED <<remembered, onDisk>>
  <2>1. UNCHANGED <<req, refreshes>>
    BY <1>5 DEF Lands, LogsIn, GivesUp
  <2>2. refreshes[w] = f /\ f # NoUser
    BY <1>0, <1>1, WaitersAreSharers
  <2>3. /\ \A v \in Users \ {f} : flight'[v] = flight[v]
        /\ flight'[f] # "stored"
        /\ \A x \in Workspaces \ {w} : refreshes'[x] = refreshes[x] /\ profile'[x] = profile[x]
    BY <1>0, <1>5, <2>1 DEF Lands, LogsIn, GivesUp, DlvritInv, RenewalsOwned, KeptTyped
  <2>4. [x \in Workspaces |-> StoredCookie(x)]' =
            [[x \in Workspaces |-> StoredCookie(x)] EXCEPT ![w] = NoCookie]
    BY <1>0, <1>1, <2>1, <2>2, <2>3, BroughtByOwn
  <2>5. StoredCookie(w) = NoCookie
    BY <1>5, <2>2 DEF StoredCookie
  <2>6. [x \in Workspaces |-> StoredCookie(x)]' = [x \in Workspaces |-> StoredCookie(x)]
    BY <2>4, <2>5
  <2>7. UNCHANGED Shared!renewalVars
    BY <1>1, <1>5, <2>1, <2>6 DEF Shared!renewalVars, DlvritAt, Workspace, KeptCookie
  <2> QED BY <2>7
<1> QED BY <1>2, <1>3, <1>4, <1>5
        DEF FlightStep, LandFails, Lands, LogsIn, SignInFails, ExtractFails, Closes

LEMMA AgingShares ==
    ASSUME DlvritInv, NEW w \in Workspaces, Ages(w)
    PROVE  Shared!Forgets(w)
<1>1. /\ UNCHANGED <<demand, req, flight, refreshes, profile>>
      /\ remembered' = [remembered EXCEPT ![w] = NoCookie]
      /\ onDisk' = [onDisk EXCEPT ![w] = NoCookie]
  BY DEF Ages
<1>2. [x \in Workspaces |-> KeptCookie(x)]' =
          [[x \in Workspaces |-> KeptCookie(x)] EXCEPT ![w] = NoCookie]
  BY <1>1 DEF KeptCookie, DlvritInv, KeptTyped
<1> QED BY <1>1, <1>2, BroughtStays DEF Shared!Forgets, DlvritAt, Workspace

\* What is kept after a restart may be an older cookie: that of the file.
LEMMA RestartShares ==
    ASSUME DlvritInv, Restart
    PROVE  Shared!Restarts
<1> DEFINE stay == {u \in Users : req[u].step = "done"}
<1>1. /\ req' = [u \in Users |-> IF req[u].step \in {"idle", "done"} THEN req[u]
                                 ELSE Ended(u, "failed")]
      /\ refreshes' = [w \in Workspaces |-> NoUser] /\ UNCHANGED <<demand, onDisk>>
      /\ remembered' = [w \in Workspaces |-> NoCookie]
  BY DEF Restart
<1>2. \A u : Ended(u, "failed").step = "failed"
  BY DEF Ended, Fresh
<1>3. \A u \in Users : /\ req[u].step \in ReqSteps
                       /\ Progress[req[u].step] = "absent" <=> req[u].step = "idle"
  BY ProgressKnown DEF ReqSteps, Progress
<1>4. /\ stay \in SUBSET {u \in Users : [v \in Users |-> Progress[req[v].step]][u] = "served"}
      /\ Progress["failed"] = "failed"
  BY DEF Progress
<1>5. [u \in Users |-> Progress[req'[u].step]] =
          [u \in Users |-> IF [v \in Users |-> Progress[req[v].step]][u] = "absent" \/ u \in stay
                           THEN [v \in Users |-> Progress[req[v].step]][u] ELSE "failed"]
  BY <1>1, <1>2, <1>3, <1>4
<1>6. [u \in Users |-> IF req'[u].step = "calling" THEN req'[u].cookie ELSE NoCookie] =
          [u \in Users |-> NoCookie]
  BY <1>1, <1>2
<1>7. {w \in Workspaces : refreshes'[w] # NoUser} = {}
  BY <1>1
<1>9. [w \in Workspaces |-> StoredCookie(w)]' = [w \in Workspaces |-> NoCookie]
  BY <1>1 DEF StoredCookie
<1>8. [w \in Workspaces |-> KeptCookie(w)]' \in [Workspaces -> Cookies \cup {NoCookie}]
  BY <1>1 DEF KeptCookie, DlvritInv, KeptTyped, MaybeCookie
<1> HIDE DEF stay
<1> QED BY <1>1, <1>4, <1>5, <1>6, <1>7, <1>8, <1>9
        DEF Shared!Restarts, Shared!MaybeKept, DlvritAt, Workspace

-----------------------------------------------------------------------------
\* Each step of the sessions is one of SharedRenewals, or is not seen there.
LEMMA SharedStep ==
    DlvritInv /\ WaitersServed /\ StoredKnown /\ [DlvritNext]_dlvritVars
        => [Shared!RenewalNext]_(Shared!renewalVars)
<1> SUFFICES ASSUME DlvritInv, WaitersServed, StoredKnown, [DlvritNext]_dlvritVars
             PROVE  [Shared!RenewalNext]_(Shared!renewalVars)
  OBVIOUS
<1>1. CASE \E u \in Users : UserStep(u) \/ FlightStep(u)
  BY <1>1, UserShares, FlightShares
<1>2. CASE \E w \in Workspaces : Ages(w)
  BY <1>2, AgingShares DEF Shared!RenewalNext
<1>3. CASE Restart
  BY <1>3, RestartShares DEF Shared!RenewalNext
<1>4. CASE SiteForgets \/ UNCHANGED dlvritVars
  <2>1. UNCHANGED <<demand, req, flight, refreshes, remembered, onDisk, profile>>
    BY <1>4 DEF SiteForgets, dlvritVars
  <2>2. UNCHANGED Shared!renewalVars
    BY <2>1, BroughtStays DEF Shared!renewalVars, DlvritAt, Workspace, KeptCookie
  <2> QED BY <2>2
<1> QED BY <1>1, <1>2, <1>3, <1>4 DEF DlvritNext

\* dlvrit-session.service.ts keeps what SharedRenewals promises its users, for
\* any number of them: one renewal per workspace at a time, which stores its
\* cookie, is then found and still shared, and ends for all who wait for that
\* workspace: with the cookie it has stored, or in a failure that takes no
\* stored cookie back.
THEOREM RenewalsImplemented == DlvritSpec => RenewalsShared
<1>1. DlvritInit => Shared!RenewalInit
  <2> SUFFICES ASSUME DlvritInit PROVE Shared!RenewalInit
    OBVIOUS
  <2>1. DlvritInv
    BY InitDlvrit
  <2>2. [u \in Users |-> Workspace(u)] \in [Users -> Workspaces]
    BY <2>1, Asked4 DEF DlvritInv
  <2>3. req = [u \in Users |-> Fresh] /\ refreshes = [w \in Workspaces |-> NoUser]
    BY DEF DlvritInit
  <2>4. Fresh.step = "idle" /\ Progress["idle"] = "absent"
    BY DEF Fresh, Progress
  <2>5. [w \in Workspaces |-> KeptCookie(w)] \in [Workspaces -> Cookies \cup {NoCookie}]
    BY <2>1 DEF KeptCookie, DlvritInv, KeptTyped, MaybeCookie
  <2>6. [u \in Users |-> IF DlvritAt(u, "calling") THEN req[u].cookie ELSE NoCookie] =
            [u \in Users |-> NoCookie]
    BY <2>3, <2>4 DEF DlvritAt
  <2>7. [w \in Workspaces |-> StoredCookie(w)] = [w \in Workspaces |-> NoCookie]
    BY <2>3 DEF StoredCookie
  <2> QED BY <2>2, <2>3, <2>4, <2>5, <2>6, <2>7 DEF Shared!RenewalInit, Shared!MaybeKept
<1> QED BY <1>1, SharedStep, DlvritInvariant, StoredInvariant, NobodyWaitsInVain, PTL
        DEF DlvritSpec, RenewalsShared, Shared!RenewalSpec

-----------------------------------------------------------------------------
(* The two together, as they are checked.                                  *)

\* A behaviour follows one component and leaves the other as it was: the
\* invariant of the one that is followed is that of its own specification.
BothInv == (part = "stocktwits" => SessionInv) /\ (part = "dlvrit" => DlvritInv)

\* Whichever component a behaviour follows, its variables keep their types.
THEOREM BothTypeCorrect == BothSpec => []BothTypeOK
<1>1. BothInit => BothInv
  BY InitSession, InitDlvrit DEF BothInit, BothInv
<1>2. BothInv /\ [BothNext]_bothVars => BothInv'
  BY SessionStepKeeps, DlvritStepKeeps DEF BothInv, BothNext, bothVars
<1>3. BothInv => BothTypeOK
  BY DEF BothInv, BothTypeOK, SessionInv, DlvritInv, DlvritTypeOK, RequestsModest,
         RenewalsOwned, KeptTyped, Request
<1> QED  BY <1>1, <1>2, <1>3, PTL DEF BothSpec

=============================================================================
