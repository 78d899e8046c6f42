-------------------------------- MODULE Circles --------------------------------
(***************************************************************************)
(* Who looks after a Silicon, and who may share with it.                    *)
(*                                                                          *)
(* A Silicon's custodian is a Carbon.  That Carbon and the other Silicons   *)
(* it looks after are the Silicon's circle: the Carbon acts in its drive    *)
(* with the owner's rights, and the circle may share with it, as may        *)
(* accounts on a list that the Silicon or its custodian keeps.  Carbons     *)
(* accept shares from everyone.                                             *)
(*                                                                          *)
(* Who the custodian is decides Silicon Accounts, which is external.        *)
(* Briefcase keeps what it read there in a row per account, believes a row  *)
(* for a while, asks again afterwards, and hears of changes by events that  *)
(* arrive late and in any order.  A request reads several rows, one after   *)
(* the other, before it acts.                                               *)
(***************************************************************************)
EXTENDS Integers, Sequences, SequencesExt, TLC

CONSTANTS
    Carbons, Silicons, NoCustodian,
    Helpers,     \* requests at work at once
    RowTTL,      \* BRIEFCASE_ACCOUNT_CACHE_TTL
    AnswerTime,  \* between an answer of Silicon Accounts and its transaction, at most
    LearnBatch,  \* Silicons a listing asks about
    Settings,    \* bounds, of which one holds: the custodians and rows at first, what
                 \* may be requested, what may happen and to whom, and how often
    MaxCircleTime

Members == Carbons \cup Silicons
KindOf(a) == IF a \in Carbons THEN "carbon" ELSE "silicon"
Custodians == Carbons \cup {NoCustodian}

Errands == UNION {Settings[i].errands : i \in DOMAIN Settings}

ASSUME CirclesAssumption ==
    /\ Carbons \cap Silicons = {} /\ NoCustodian \notin Members
    /\ RowTTL \in Nat \ {0} /\ AnswerTime \in Nat /\ LearnBatch \in Nat \ {0} /\ MaxCircleTime \in Nat
    /\ \A i \in DOMAIN Settings : /\ Settings[i].custodian \in [Silicons -> Custodians]
                                /\ Settings[i].recorded \subseteq Members
    /\ \A e \in Errands : e.by \in Members /\ e.on \in Members /\ e.with \in Members

VARIABLES
    ward,      \* Silicon Accounts: the custodian of each Silicon,
    until,     \* which Carbons ceased to be it, and when,
    closed,    \* and the accounts that were deleted
    news,      \* events: changes of a custodian
    heard,     \* accounts_webhook_receipts: what was applied
    today,
    known,     \* briefcase.accounts, by account
    allowed,   \* silicon_share_allowances
    grants,    \* live shares: to whom, of which kind, and by whom
    work,      \* each request under way: its errand, what is still to do and what it found;
               \* and its history: what it could know to be true, whenever it looked
               \* ("hints"), and what had been heard when it began ("heardThen")
    prolonged, \* history: rows an event confirmed that were no longer true
    stale,     \* history: rows a lookup filled that were no longer true
    passed,    \* history: Silicons whose news was passed over, their row naming a Carbon
    overlapped, \* history: allowances that a request under way added to a deleted account
    acted,     \* history: what was done on the strength of the rows
    option, asked, happened \* counters of the bounds

worldVars == <<ward, until, closed, news>>
rowVars == <<known, heard, prolonged, stale, passed>>
circleVars == <<worldVars, rowVars, work, today, allowed, grants, overlapped, acted,
                option, asked, happened>>

Setting == Settings[option]

CustodyRow(kind, custodian, observed, refreshed, deleted) ==
    [kind |-> kind, custodian |-> custodian, observed |-> observed,
     refreshed |-> refreshed, deleted |-> deleted]
NoAccount == CustodyRow("none", NoCustodian, 0, 0, FALSE)
Seen(row) == row.kind # "none"
RowOf(a) == IF a \in DOMAIN known THEN known[a] ELSE NoAccount
Keep(a, row) == known' = (a :> row) @@ known

NoFact == [kind |-> "none", custodian |-> NoCustodian, how |-> "none"]
NoReply == [of |-> NoCustodian, custodian |-> NoCustodian, deleted |-> FALSE, at |-> 0]

\* The cutover recorded accounts before they signed in, Silicons without
\* their custodian.
CirclesInit ==
    /\ option \in DOMAIN Settings
    /\ ward = Setting.custodian
    /\ until = {} /\ closed = {} /\ news = {} /\ heard = {} /\ today = 1
    /\ known = [a \in Setting.recorded |-> CustodyRow(KindOf(a), NoCustodian, 0, 0, FALSE)]
    /\ allowed = {} /\ grants = {} /\ work = <<>>
    /\ prolonged = {} /\ stale = {} /\ passed = {} /\ overlapped = {} /\ acted = {}
    /\ asked = 0 /\ happened = 0

-----------------------------------------------------------------------------
(* What the rows say. *)

IsFresh(row) == row.refreshed + RowTTL > today

\* A Carbon has no custodian to be looked up.
FreshCustody(row) ==
    Seen(row) /\ (row.kind = "carbon" \/ (row.custodian # NoCustodian /\ IsFresh(row)))

Anchor(a, fact) == IF fact.kind = "carbon" THEN a ELSE fact.custodian

\* A Silicon whose custodian is unknown is in its own circle only.
SameCircle(a, b, f) ==
    \/ a = b
    \/ Anchor(a, f[a]) # NoCustodian /\ Anchor(a, f[a]) = Anchor(b, f[b])

\* A mutant: whoever looks after it.
LookedAfter(carbon, fact) == fact.kind = "silicon" /\ fact.custodian # NoCustodian
IsCustodianOf(carbon, fact) == fact.kind = "silicon" /\ fact.custodian = carbon

CustodialSilicons(carbon) ==
    {a \in DOMAIN known : known[a].kind = "silicon" /\ known[a].custodian = carbon /\ ~known[a].deleted}

SiliconsWithoutCustodian ==
    {a \in DOMAIN known : /\ known[a].kind = "silicon" /\ known[a].custodian = NoCustodian
                      /\ ~known[a].deleted /\ known[a].refreshed + RowTTL < today}

\* A batch of them, the ones asked about longest ago first.
UnknownCustodians ==
    LET longestAgo(a, b) == known[a].refreshed <= known[b].refreshed
        inOrder == SetToSortSeq(SiliconsWithoutCustodian, longestAgo)
    IN SubSeq(inOrder, 1, IF Len(inOrder) < LearnBatch THEN Len(inOrder) ELSE LearnBatch)

\* A share is found by the account it names, of the kind it names.
Conveys(g, a) == g.to = a /\ g.kind = KindOf(a)

-----------------------------------------------------------------------------
(* What was true lately. *)

\* The Carbon was the Silicon's custodian within the time for which a row is
\* believed that was read then.
Held(a, b) ==
    \/ a = b
    \/ /\ a \in Silicons
       /\ \/ ward[a] = b
          \/ \E u \in until : u.silicon = a /\ u.from = b /\ u.at + RowTTL + AnswerTime > today

Noticed(h) == [held |-> h.held \cup {p \in Members \X Carbons : Held(p[1], p[2])},
               allowed |-> h.allowed \cup allowed]

\* What would entitle the request, by anything that was true while it ran.
LooksAfter(h, carbon, a) == a \in Silicons /\ <<a, carbon>> \in h.held
MayShare(h, a, b) ==
    \/ b \in Carbons \/ a = b
    \/ \E carbon \in Carbons : {<<a, carbon>>, <<b, carbon>>} \subseteq h.held
    \/ <<b, a>> \in h.allowed

-----------------------------------------------------------------------------
(* Requests. *)

Todo(what, a) == [what |-> what, on |-> a]
Busy(c) == c \in DOMAIN work
At(c, step) == Busy(c) /\ work[c].step = step
Errand(c) == work[c].errand
What(c) == Head(work[c].todo).what
On(c) == Head(work[c].todo).on
Working(c) == At(c, "working") /\ work[c].todo # <<>>
Done(c) == At(c, "working") /\ work[c].todo = <<>>
By(c) == Errand(c).by
NamesAnAccount(c) == What(c) \in {"resolve", "sharer"}

\* The request goes on, with what is new about it, or it ends.
Go(c, new) == work' = [work EXCEPT ![c] = new @@ [hints |-> Noticed(@.hints)] @@ @]
LeaveOff(c) == work' = Restrict(work, DOMAIN work \ {c})

ListChange == {"allow", "disallow"}

\* The handlers: a share, a change of a Silicon's list, a request in another
\* drive, and lists of drives and of shared entries.
Plan(e) ==
    CASE e.do = "share" \/ e.do \in ListChange -> <<Todo("resolve", e.on)>>
      [] e.do = "enter" -> <<Todo("enter", e.on)>>
      [] e.do = "drives" -> <<Todo("learning", e.by), Todo("list", e.by)>>
      [] e.do = "shared" -> <<Todo("shared", e.by)>>
      [] e.do = "me" -> <<Todo("profile", e.by)>>

\* The row after a verified token was seen.
Sighted(a) ==
    IF Seen(RowOf(a)) THEN [RowOf(a) EXCEPT !.kind = KindOf(a)]
    ELSE CustodyRow(KindOf(a), NoCustodian, 0, today, FALSE)

\* A Silicon whose custodian is unknown is looked up at once.
BeginErrand(c, e) ==
    LET first == IF e.by \in Silicons /\ RowOf(e.by).custodian = NoCustodian
                 THEN <<Todo("sight", e.by)>> ELSE <<>>
        none == [held |-> {}, allowed |-> {}]
    IN  /\ ~Busy(c) /\ asked < Setting.requests
        /\ ~RowOf(e.by).deleted
        /\ Keep(e.by, Sighted(e.by))
        /\ work' = (c :> [step |-> "working", errand |-> e, todo |-> first \o Plan(e), facts |-> <<>>,
                          answer |-> NoReply, hints |-> Noticed(none), heardThen |-> heard]) @@ work
        /\ asked' = asked + 1
        /\ UNCHANGED <<worldVars, heard, prolonged, stale, passed, today, allowed, grants, overlapped, acted,
                       option, happened>>

FactOf(row, how) == [kind |-> row.kind, custodian |-> row.custodian, how |-> how]

\* Whether a request goes on with a row it has found: an account that can be
\* shared with, of the kind it was said to be; and a Silicon that the caller
\* manages.
Accepts(c, row) ==
    LET e == Errand(c) IN
    CASE NamesAnAccount(c) ->
            /\ ~row.deleted
            /\ e.do = "share" => row.kind = e.kind
            /\ What(c) = "resolve" /\ e.do \in ListChange => row.kind = "silicon"
      [] What(c) = "custody" -> e.do \in ListChange => IsCustodianOf(e.by, row)
      [] OTHER -> TRUE

\* What a resolved account asks for next.
Further(c, row) ==
    LET e == Errand(c) IN
    IF What(c) # "resolve" THEN <<>>
    ELSE IF e.do = "share"
    THEN IF row.kind = "carbon" \/ e.on = e.by THEN <<>>
         ELSE <<Todo("custody", e.by), Todo("custody", e.on)>>
    ELSE (IF e.on = e.by THEN <<>> ELSE <<Todo("custody", e.on)>>) \o <<Todo("sharer", e.with)>>

FactsOf(c) == [a \in Members |-> IF a \in DOMAIN work[c].facts THEN work[c].facts[a] ELSE NoFact]

Deed(c, what, a, entitled, how) ==
    acted' = acted \cup {[did |-> what, entitled |-> entitled,
                          misled |-> how \cap {"fallback", "prolonged"} # {}]}
Grounds(c, a) == {FactsOf(c)[By(c)].how, FactsOf(c)[a].how}

\* The caller acts in the drive of another account, with the owner's rights if
\* it is a Silicon that it looks after.
GoOn(c, row, how) ==
    IF Accepts(c, row)
    THEN /\ Go(c, [step |-> "working", answer |-> NoReply,
                   todo |-> Further(c, row) \o Tail(work[c].todo),
                   facts |-> IF What(c) \in {"custody", "enter"}
                             THEN (On(c) :> FactOf(row, how)) @@ work[c].facts ELSE work[c].facts])
         /\ IF What(c) = "enter" /\ By(c) \in Carbons /\ IsCustodianOf(By(c), row)
            THEN Deed(c, "enter", On(c), LooksAfter(Noticed(work[c].hints), By(c), On(c)), {how})
            ELSE UNCHANGED acted
    ELSE LeaveOff(c) /\ UNCHANGED acted

\* A row is enough for an account named by its uuid, and for custody and the
\* caller's own profile while it is fresh.
RowSuffices(c) ==
    LET row == RowOf(On(c)) IN
    CASE NamesAnAccount(c) -> Errand(c).named = "uuid" /\ Seen(row)
      [] What(c) \in {"custody", "enter"} -> FreshCustody(row)
      [] What(c) = "profile" -> IsFresh(row)
      [] OTHER -> FALSE

UseRow(c) ==
    /\ Working(c) /\ RowSuffices(c)
    /\ GoOn(c, RowOf(On(c)), IF On(c) \in prolonged THEN "prolonged" ELSE "row")
    /\ UNCHANGED <<worldVars, rowVars, today, allowed, grants, overlapped, option, asked, happened>>

LooksUp == {"resolve", "sharer", "custody", "enter", "profile", "sight", "learn"}

\* A profile without a name is read again.
NeedsAnswer(c) ==
    Working(c) /\ What(c) \in LooksUp /\ (~RowSuffices(c) \/ What(c) = "profile")

\* An id leads to nobody once its account is deleted, and nobody reads the
\* profile of a deleted account.
Reachable(c) ==
    On(c) \in closed => What(c) # "profile" /\ ~(NamesAnAccount(c) /\ Errand(c).named = "id")

AskAccounts(c) ==
    /\ NeedsAnswer(c) /\ Reachable(c)
    /\ Go(c, [step |-> "answered",
              answer |-> [of |-> On(c), custodian |-> IF On(c) \in Silicons THEN ward[On(c)] ELSE NoCustodian,
                          deleted |-> On(c) \in closed, at |-> today]])
    /\ UNCHANGED <<worldVars, rowVars, today, allowed, grants, overlapped, acted, option, asked, happened>>

\* The row after a snapshot; its kind is not changed.
Filled(row, r) ==
    IF Seen(row)
    THEN [row EXCEPT !.custodian = IF r.custodian = NoCustodian THEN @ ELSE r.custodian,
                     !.observed = IF r.custodian = NoCustodian THEN @ ELSE today,
                     !.refreshed = today,
                     !.deleted = @ \/ r.deleted]
    ELSE CustodyRow(KindOf(r.of), r.custodian, IF r.custodian = NoCustodian THEN 0 ELSE today, today, r.deleted)

\* A custodian cannot be stored in the row of a Carbon, which a Silicon has
\* that Briefcase knows only from the end of its sign-ins.
Storable(row, r) == row.kind = "carbon" => r.custodian = NoCustodian

\* An account that is named by its id must be active there.
Inactive(c) ==
    NamesAnAccount(c) /\ Errand(c).named = "id" /\ On(c) \in Silicons
    /\ work[c].answer.custodian = NoCustodian

StoreAnswer(c) ==
    LET r == work[c].answer
        a == r.of
        row == Filled(RowOf(a), r)
    IN  /\ At(c, "answered") /\ ~Inactive(c) /\ Storable(RowOf(a), r)
        /\ Keep(a, row)
        /\ prolonged' = prolonged \ {a}
        /\ stale' = IF a \in Silicons /\ r.custodian # ward[a] THEN stale \cup {a} ELSE stale \ {a}
        /\ passed' = IF r.custodian = NoCustodian THEN passed ELSE passed \ {a}
        /\ GoOn(c, row, "answer")
        /\ UNCHANGED <<worldVars, heard, today, allowed, grants, overlapped, option, asked, happened>>

\* The budget is spent, Silicon Accounts cannot be reached or says something
\* else, or the answer cannot be stored.
NotAnswered(c) == NeedsAnswer(c) \/ At(c, "answered")

\* An account's own profile and custodian can wait, and a row that is not fresh
\* is better than none.
FallBack(c) ==
    /\ NotAnswered(c)
    /\ \/ What(c) \in {"sight", "profile"}
       \/ What(c) \in {"custody", "enter"} /\ Seen(RowOf(On(c)))
       \/ NamesAnAccount(c) /\ Errand(c).named = "id" /\ At(c, "working")
          /\ RowOf(On(c)).kind = KindOf(On(c)) /\ ~RowOf(On(c)).deleted /\ IsFresh(RowOf(On(c)))
    /\ GoOn(c, RowOf(On(c)), "fallback")
    /\ UNCHANGED <<worldVars, rowVars, today, allowed, grants, overlapped, option, asked, happened>>

BreakOff(c) ==
    /\ NotAnswered(c) /\ (NamesAnAccount(c) \/ What(c) \in {"custody", "enter", "profile"})
    /\ LeaveOff(c)
    /\ UNCHANGED <<worldVars, rowVars, today, allowed, grants, overlapped, acted, option, asked,
                   happened>>

-----------------------------------------------------------------------------
(* Lists. *)

Expand(c, steps) ==
    /\ Go(c, [todo |-> steps \o Tail(work[c].todo)])
    /\ UNCHANGED <<worldVars, rowVars, today, allowed, grants, overlapped, acted, option, asked, happened>>

Steps(what, accounts) == [i \in DOMAIN accounts |-> Todo(what, accounts[i])]

\* Only a Carbon looks after Silicons.
LearnUnknownCustodians(c) ==
    /\ Working(c) /\ What(c) = "learning"
    /\ Expand(c, IF By(c) \in Carbons THEN Steps("learn", UnknownCustodians) ELSE <<>>)

\* A failure ends the learning of this request.
StopLearning(c) ==
    /\ NotAnswered(c) /\ What(c) = "learn"
    /\ Go(c, [step |-> "working", answer |-> NoReply,
              todo |-> SelectSeq(work[c].todo, LAMBDA t : t.what # "learn")])
    /\ UNCHANGED <<worldVars, rowVars, today, allowed, grants, overlapped, acted, option, asked, happened>>

Confirmed(row) == [row EXCEPT !.refreshed = today]

\* What says nothing of the custodian, and still confirms the row.
Prolongs(a, row) ==
    prolonged' = IF row.custodian # NoCustodian /\ a \in Silicons /\ row.custodian # ward[a]
                 THEN prolonged \cup {a} ELSE prolonged \ {a}

\* Silicon Accounts does not know the account: it is not asked about for a while.
PutOff(c) ==
    /\ Working(c) /\ What(c) = "learn"
    /\ On(c) \in closed
    /\ Keep(On(c), Confirmed(RowOf(On(c))))
    /\ Prolongs(On(c), RowOf(On(c)))
    /\ Go(c, [todo |-> Tail(work[c].todo)])
    /\ UNCHANGED <<worldVars, heard, stale, passed, today, allowed, grants, overlapped, acted, option, asked,
                   happened>>

\* The drives of the Silicons whose row names the caller, each of them entered.
ListDrives(c) ==
    /\ Working(c) /\ What(c) = "list"
    /\ Expand(c, IF By(c) \in Carbons THEN Steps("enter", SetToSeq(CustodialSilicons(By(c)))) ELSE <<>>)

\* The drives that hold something shared with the caller.
SharedWith(a) == {g.by : g \in {x \in grants : Conveys(x, a) /\ x.by # a}}
ListSharedWithMe(c) ==
    /\ Working(c) /\ What(c) = "shared"
    /\ Expand(c, Steps("enter", SetToSeq(SharedWith(By(c)))))

-----------------------------------------------------------------------------
(* Effects. *)

Permitted(c) ==
    LET e == Errand(c) IN
    e.kind = "carbon" \/ SameCircle(e.by, e.on, FactsOf(c)) \/ <<e.on, e.by>> \in allowed

PermitShare(c) ==
    /\ Done(c) /\ Errand(c).do = "share"
    /\ IF Permitted(c) THEN Go(c, [step |-> "granting"]) ELSE LeaveOff(c)
    /\ UNCHANGED <<worldVars, rowVars, today, allowed, grants, overlapped, acted, option, asked,
                   happened>>

Farewell(a) == [silicon |-> a, to |-> NoCustodian, at |-> 0]

\* Accounts that were alive when the request began, and are not any more.
Departed(c, accounts) ==
    {a \in accounts : Farewell(a) \in heard /\ Farewell(a) \notin work[c].heardThen}

GrantShare(c) ==
    LET e == Errand(c)
        g == [to |-> e.on, kind |-> e.kind, by |-> e.by]
    IN  /\ At(c, "granting")
        /\ grants' = grants \cup {g}
        /\ overlapped' = overlapped \cup Departed(c, {e.on, e.by})
        /\ IF Conveys(g, e.on)
           THEN Deed(c, "share", e.on, MayShare(work[c].hints, e.by, e.on), Grounds(c, e.on)) ELSE UNCHANGED acted
        /\ LeaveOff(c)
        /\ UNCHANGED <<worldVars, rowVars, today, allowed, option, asked, happened>>

ChangeList(c) ==
    LET e == Errand(c) IN
    /\ Done(c) /\ e.do \in ListChange
    /\ e.do = "allow" => e.with # e.on
    /\ allowed' = IF e.do = "allow" THEN allowed \cup {<<e.on, e.with>>} ELSE allowed \ {<<e.on, e.with>>}
    /\ overlapped' = overlapped \cup Departed(c, IF e.do = "allow" THEN {e.on, e.with} ELSE {})
    /\ Deed(c, e.do, e.on, e.by = e.on \/ LooksAfter(work[c].hints, e.by, e.on), Grounds(c, e.on))
    /\ LeaveOff(c)
    /\ UNCHANGED <<worldVars, rowVars, today, grants, option, asked, happened>>

\* A Silicon is not put on its own list.
RefuseItself(c) ==
    /\ Done(c) /\ Errand(c).do = "allow" /\ Errand(c).with = Errand(c).on
    /\ LeaveOff(c)
    /\ UNCHANGED <<worldVars, rowVars, today, allowed, grants, overlapped, acted, option, asked,
                   happened>>

EndErrand(c) ==
    /\ Done(c) /\ Errand(c).do \in {"enter", "drives", "shared", "me"}
    /\ LeaveOff(c)
    /\ UNCHANGED <<worldVars, rowVars, today, allowed, grants, overlapped, acted, option, asked,
                   happened>>

-----------------------------------------------------------------------------
(* Silicon Accounts. *)

Elapse ==
    /\ today < MaxCircleTime
    /\ \A c \in Helpers : At(c, "answered") => work[c].answer.at + AnswerTime > today
    /\ today' = today + 1

Wait == Elapse /\ UNCHANGED <<worldVars, rowVars, work, allowed, grants, overlapped, acted,
                              option, asked, happened>>

May(what, a) ==
    /\ what \in Setting.events /\ a \in Setting.about
    /\ happened < Setting.happenings /\ happened' = happened + 1

Handover(s, b) ==
    /\ May("handover", s) /\ Elapse
    /\ ward[s] # b /\ {s, b} \cap closed = {}
    /\ ward' = [ward EXCEPT ![s] = b]
    /\ until' = IF ward[s] = NoCustodian THEN until
                ELSE until \cup {[silicon |-> s, from |-> ward[s], at |-> today]}
    /\ news' = news \cup {[silicon |-> s, to |-> b, at |-> today + 1]}
    /\ UNCHANGED <<closed, rowVars, work, allowed, grants, overlapped, acted, option, asked>>

\* Of a Carbon that looks after nobody.
CloseAccount(a) ==
    /\ May("deleted", a)
    /\ a \notin closed /\ \A s \in Silicons : ward[s] # a
    /\ closed' = closed \cup {a}
    /\ UNCHANGED <<ward, until, news, rowVars, work, today, allowed, grants, overlapped, acted,
                   option, asked>>

-----------------------------------------------------------------------------
(* Events. *)

Ensured(a, kind) == IF Seen(RowOf(a)) THEN RowOf(a) ELSE CustodyRow(kind, NoCustodian, 0, today, FALSE)

\* A mutant: changes are taken as they come.
EveryChange(row, e) == row.kind = "silicon"
NewlyChanged(row, e) == row.kind = "silicon" /\ row.observed < e.at

HearNews(e) ==
    LET a == e.silicon
        row == Ensured(a, "silicon")
    IN  /\ e \in news \ heard
        /\ heard' = heard \cup {e}
        /\ IF NewlyChanged(row, e)
           THEN /\ Keep(a, CustodyRow(row.kind, e.to, e.at, today, row.deleted))
                /\ Prolongs(a, known'[a])
                /\ stale' = IF e.to = ward[a] THEN stale \ {a} ELSE stale
                /\ UNCHANGED passed
           ELSE /\ Keep(a, row)
                /\ passed' = IF row.kind = "carbon" THEN passed \cup {a} ELSE passed
                /\ UNCHANGED <<prolonged, stale>>
        /\ UNCHANGED <<worldVars, work, today, allowed, grants, overlapped, acted, option, asked,
                       happened>>

\* One transaction deletes the account's drive, its shares and its place on
\* every list.
HearFarewell(a) ==
    LET row == Ensured(a, "carbon")
    IN  /\ a \in closed /\ Farewell(a) \notin heard
        /\ heard' = heard \cup {Farewell(a)}
        /\ Keep(a, [row EXCEPT !.deleted = TRUE])
        /\ grants' = {g \in grants : g.by # a /\ ~(g.to = a /\ g.kind = row.kind)}
        /\ allowed' = {p \in allowed : a \notin {p[1], p[2]}}
        /\ UNCHANGED <<worldVars, prolonged, stale, passed, work, today, overlapped, acted, option, asked,
                       happened>>

\* Another id or profile.
HearOther(a) ==
    /\ May("other", a)
    /\ Keep(a, Confirmed(Ensured(a, KindOf(a))))
    /\ Prolongs(a, known'[a])
    /\ UNCHANGED <<worldVars, heard, stale, passed, work, today, allowed, grants, overlapped, acted,
                   option, asked>>

\* The end of sign-ins of an account that Briefcase has never seen.
HearSignOut(a) ==
    /\ May("signed_out", a)
    /\ ~Seen(RowOf(a))
    /\ Keep(a, CustodyRow("carbon", NoCustodian, 0, today, FALSE))
    /\ UNCHANGED <<worldVars, heard, prolonged, stale, passed, work, today, allowed, grants, overlapped,
                   acted, option, asked>>

-----------------------------------------------------------------------------
HelperStep(c) ==
    \/ \E e \in Setting.errands : BeginErrand(c, e)
    \/ UseRow(c) \/ AskAccounts(c) \/ StoreAnswer(c) \/ FallBack(c) \/ BreakOff(c)
    \/ LearnUnknownCustodians(c) \/ StopLearning(c) \/ PutOff(c) \/ ListDrives(c) \/ ListSharedWithMe(c)
    \/ PermitShare(c) \/ GrantShare(c) \/ ChangeList(c) \/ RefuseItself(c) \/ EndErrand(c)

WorldStep ==
    \/ Wait
    \/ \E s \in Silicons, b \in Carbons : Handover(s, b)
    \/ \E a \in Members : CloseAccount(a) \/ HearFarewell(a) \/ HearOther(a) \/ HearSignOut(a)
    \/ \E e \in news : HearNews(e)

CirclesNext == (\E c \in Helpers : HelperStep(c)) \/ WorldStep

CirclesSpec == CirclesInit /\ [][CirclesNext]_circleVars

-----------------------------------------------------------------------------
(* Properties. *)

\* Every variable has values of its type, and no row is ahead of the clock.
CirclesTypeOK ==
    /\ ward \in [Silicons -> Custodians] /\ closed \subseteq Members
    /\ \A a \in DOMAIN known :
        /\ a \in Members
        /\ known[a].kind \in {"carbon", "silicon"} /\ known[a].custodian \in Custodians
        /\ known[a].custodian # NoCustodian => known[a].kind = "silicon"
        /\ known[a].observed \in 0 .. today /\ known[a].refreshed \in 0 .. today
    /\ allowed \subseteq Silicons \X Members
    /\ \A c \in DOMAIN work :
        c \in Helpers /\ work[c].step \in {"working", "answered", "granting"} /\ Errand(c) \in Errands
    /\ today \in 1 .. MaxCircleTime

\* A share reaches a Silicon only from its circle or an account on its list,
\* its list is changed only by itself or by its custodian, and only its
\* custodian acts in its drive: as things stood while the request ran, or no
\* longer ago than a row is believed; unless the lookup that the request made
\* failed, or an event confirmed a row that was not true any more.
OnlyTheEntitled == \A d \in acted : d.entitled \/ d.misled

\* When the latest change of its custodian was heard, in whatever order, a
\* Silicon's row does not name a former one, unless a lookup was stored that
\* the change had outrun, or news was passed over that came before its row was
\* known to be a Silicon's.
ChangesAreHeeded ==
    \A s \in Silicons \ (stale \cup passed) :
        (\A e \in news : e.silicon = s /\ (\A f \in news : f.silicon = s => f.at <= e.at) => e \in heard)
        => RowOf(s).custodian \in {ward[s], NoCustodian}

\* An account whose deletion was heard is on no list and has no share, unless a
\* request that was under way put it there.
DeletedAreGone ==
    \A a \in Members : Farewell(a) \in heard =>
        \/ a \in overlapped
        \/ /\ \A p \in allowed : a \notin {p[1], p[2]}
           /\ \A g \in grants : a # g.by /\ ~Conveys(g, a)

\* Silicons are open to their circle and to whom they allowed, however late
\* changes of their custodian are heard.
CirclesHold == OnlyTheEntitled /\ ChangesAreHeeded /\ DeletedAreGone
===============================================================================
