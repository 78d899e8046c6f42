------------------------------- MODULE Accounts -------------------------------
(***************************************************************************)
(* The cache of Silicon Accounts: a row per account, fed by the tokens that *)
(* requests present, by lookups made on behalf of requests, and by signed   *)
(* events that arrive late, more than once and in any order.  The row says  *)
(* which tokens are served, and whose drive a permanent address names.      *)
(*                                                                          *)
(* Silicon Accounts itself is external: accounts change their id, profile   *)
(* and sign-ins there, each change at a time of its own, and every change   *)
(* but a sign-in is announced by an event.  Time 0 stands for NULL.         *)
(***************************************************************************)
EXTENDS Naturals, FiniteSets

CONSTANTS
    Accounts,
    PublicIds, NoId,
    FirstId,   \* the id each account starts with
    Lookups,   \* lookups in flight at once, at most
    Stories,   \* bound: what may happen to which accounts in one behaviour
    MaxTime    \* bound on what happens

Kinds == {"id_changed", "updated", "signed_out", "access_removed", "deleted", "sign_in", "lookup"}

ASSUME AccountsAssumption ==
    /\ NoId \notin PublicIds
    /\ FirstId \in [Accounts -> PublicIds]
    /\ \A a, b \in Accounts : FirstId[a] = FirstId[b] => a = b
    /\ Stories \subseteq SUBSET (Accounts \X Kinds)
    /\ MaxTime \in Nat

VARIABLES
    real,     \* Silicon Accounts: the id, profile version and status
    clock,    \* the time of the latest change there
    events,   \* the events of all changes
    tokens,   \* access tokens issued
    account,  \* briefcase.accounts
    receipts, \* accounts_webhook_receipts
    former,   \* account_id_history
    lookup,   \* what each lookup in flight has read
    sighted,  \* history: the time at which the cached id was read
    outrun,   \* history: accounts that changed between a lookup and its use
    removals  \* history: how often the row lost its access

realVars == <<real, clock, events, tokens>>
cacheVars == <<account, receipts, former, sighted, outrun, removals>>
accountsVars == <<realVars, cacheVars, lookup>>

AccountRow(known, id, observed, status, revoked, profile, version) ==
    [known |-> known, id |-> id, observed |-> observed, status |-> status,
     revoked |-> revoked, profile |-> profile, version |-> version]
Unseen == AccountRow(FALSE, NoId, 0, "active", 0, 0, 0)
NoLookup == [account |-> NoId, kind |-> "none", id |-> NoId, profile |-> 0, at |-> 0]

AccountsInit ==
    /\ real = [a \in Accounts |-> [id |-> FirstId[a], profile |-> 1, status |-> "active"]]
    /\ clock = 1
    /\ events = {}
    /\ tokens = {}
    /\ account = [a \in Accounts |-> Unseen]
    /\ receipts = {}
    /\ former = {}
    /\ lookup = [k \in Lookups |-> NoLookup]
    /\ sighted = [a \in Accounts |-> 0]
    /\ outrun = {}
    /\ removals = [a \in Accounts |-> 0]

Later(s, t) == IF s > t THEN s ELSE t

-----------------------------------------------------------------------------
(* Silicon Accounts. *)

Told == {<<e.account, e.kind>> : e \in events} \cup {<<t.account, "sign_in">> : t \in tokens}
InStory(a, kind) == \E s \in Stories : Told \cup {<<a, kind>>} \subseteq s

Happens(a, kind) ==
    /\ InStory(a, kind)
    /\ real[a].status = "active"
    /\ clock < MaxTime
    /\ clock' = clock + 1
    /\ UNCHANGED <<cacheVars, lookup>>

Announce(a, kind, was) ==
    /\ Happens(a, kind)
    /\ events' = events \cup {[account |-> a, kind |-> kind, at |-> clock + 1, was |-> was,
                               id |-> real'[a].id, version |-> real'[a].profile]}
    /\ UNCHANGED tokens

ChangeId(a, i) ==
    /\ \A b \in Accounts : real[b].id # i
    /\ real' = [real EXCEPT ![a] = [id |-> i, profile |-> @.profile, status |-> @.status]]
    /\ Announce(a, "id_changed", real[a].id)

ChangeProfile(a) ==
    /\ real' = [real EXCEPT ![a] = [id |-> @.id, profile |-> @.profile + 1, status |-> @.status]]
    /\ Announce(a, "updated", NoId)

SignOut(a) == UNCHANGED real /\ Announce(a, "signed_out", NoId)
RemoveAccess(a) == UNCHANGED real /\ Announce(a, "access_removed", NoId)

DeleteAccount(a) ==
    /\ real' = [real EXCEPT ![a] = [id |-> NoId, profile |-> 0, status |-> "deleted"]]
    /\ Announce(a, "deleted", NoId)

IssueToken(a) ==
    /\ Happens(a, "sign_in")
    /\ tokens' = tokens \cup {[account |-> a, issued |-> clock + 1, id |-> real[a].id]}
    /\ UNCHANGED <<real, events>>

-----------------------------------------------------------------------------
(* Events. *)

Sights(a, row, at) ==
    sighted' = [sighted EXCEPT ![a] = IF row.id # account[a].id THEN at ELSE @]

WithIdAlways(row, i, at) ==
    AccountRow(row.known, i, at, row.status, row.revoked, row.profile, row.version)
WithId(row, i, at) == IF row.observed < at THEN WithIdAlways(row, i, at) ELSE row

Revoked(row, at) == [row EXCEPT !.revoked = Later(@, at)]

MarkDeleted(row, at) ==
    IF row.status = "deleted" THEN row
    ELSE AccountRow(row.known, row.id, row.observed, "deleted", Later(row.revoked, at), 0, row.version)

WithProfile(row, version) ==
    IF row.version >= version THEN row
    ELSE AccountRow(row.known, row.id, row.observed, row.status, row.revoked, version, version)

Updated(row, e) ==
    IF row.status = "deleted" THEN row ELSE WithId(WithProfile(row, e.version), e.id, e.at)

\* A row after an event.
Applied(row, e) ==
    CASE e.kind = "id_changed" -> WithId(row, e.id, e.at)
      [] e.kind = "updated" -> Updated(row, e)
      [] e.kind = "signed_out" -> Revoked(row, e.at)
      [] e.kind = "access_removed" ->
            [Revoked(row, e.at) EXCEPT !.status = IF @ = "active" THEN "access_removed" ELSE @]
      [] e.kind = "deleted" -> MarkDeleted(row, e.at)

\* The ids an account gave up, each with the time it last did.
Replaced(i, a, at) ==
    LET before == {h \in former : h.id = i /\ h.account = a}
    IN (former \ before) \cup
       {[id |-> i, account |-> a, at |-> IF \E h \in before : h.at > at
                                         THEN (CHOOSE h \in before : TRUE).at ELSE at]}

Deliver(e) ==
    LET a == e.account
        row == Applied([account[a] EXCEPT !.known = TRUE], e) IN
    /\ account' = [account EXCEPT ![a] = row]
    /\ former' = IF e.kind = "id_changed" THEN Replaced(e.was, a, e.at) ELSE former
    /\ removals' = [removals EXCEPT ![a] =
            IF row.status = "access_removed" /\ account[a].status = "active" THEN @ + 1 ELSE @]
    /\ Sights(a, row, e.at)
    /\ UNCHANGED <<realVars, lookup, outrun>>

\* One transaction: a delivery seen before changes nothing.
ApplyWebhook(e) ==
    /\ e \notin receipts
    /\ receipts' = receipts \cup {e}
    /\ Deliver(e)

-----------------------------------------------------------------------------
(* Tokens. *)

Reactivates(row, t) == row.status = "access_removed" /\ row.revoked < t.issued

TokenChanges(row, t) ==
    \/ ~row.known
    \/ row.id # t.id /\ row.observed < t.issued
    \/ Reactivates(row, t)

\* The row a request with the token sees.
Observed(row, t) ==
    IF ~TokenChanges(row, t) THEN row
    ELSE LET named == WithId(row, t.id, t.issued)
         IN AccountRow(TRUE, named.id, named.observed, IF Reactivates(row, t) THEN "active" ELSE row.status,
                       row.revoked, row.profile, row.version)

Served(t) ==
    LET row == Observed(account[t.account], t)
    IN row.status # "deleted" /\ ~(t.issued <= row.revoked)

ObserveToken(t) ==
    LET a == t.account
        row == Observed(account[a], t) IN
    /\ account' = [account EXCEPT ![a] = row]
    /\ Sights(a, row, t.issued)
    /\ UNCHANGED <<realVars, lookup, receipts, former, outrun, removals>>

-----------------------------------------------------------------------------
(* Lookups: a summary by uuid or id, the account's own profile with its     *)
(* token, or the account named by a proof.                                  *)

StartLookup(k, a, kind) ==
    /\ lookup[k] = NoLookup
    /\ InStory(a, "lookup")
    /\ kind \in {"profile", "proof"} => real[a].status = "active"
    /\ lookup' = [lookup EXCEPT ![k] = [account |-> a, kind |-> kind, id |-> real[a].id,
                                        profile |-> real[a].profile, at |-> clock]]
    /\ UNCHANGED <<realVars, cacheVars>>

\* The row after a snapshot that is stored at the given time.
Stored(row, found, now) ==
    LET version == IF found.kind = "profile" THEN Later(row.version, found.profile) ELSE row.version
    IN IF found.id # NoId
       THEN AccountRow(TRUE, found.id, now, row.status, row.revoked, found.profile, version)
       ELSE MarkDeleted(AccountRow(TRUE, row.id, row.observed, row.status, row.revoked,
                                   found.profile, version), now)

\* An account that a proof names is stored only if it is not known.
FirstSeen(row, found, now) ==
    IF row.known THEN row
    ELSE AccountRow(TRUE, found.id, now, row.status, row.revoked, row.profile, row.version)

\* The time is that of the database when the answer is stored.
UseLookup(k) ==
    /\ lookup[k] # NoLookup
    /\ LET found == lookup[k]
           a == found.account
           row == IF found.kind = "proof" THEN FirstSeen(account[a], found, clock)
                  ELSE Stored(account[a], found, clock) IN
       /\ account' = [account EXCEPT ![a] = row]
       /\ Sights(a, row, found.at)
       /\ outrun' = IF \E e \in events : e.account = a /\ e.at > found.at
                       THEN outrun \cup {a} ELSE outrun
    /\ lookup' = [lookup EXCEPT ![k] = NoLookup]
    /\ UNCHANGED <<realVars, receipts, former, removals>>

LookupFails(k) ==
    /\ lookup[k] # NoLookup
    /\ lookup' = [lookup EXCEPT ![k] = NoLookup]
    /\ UNCHANGED <<realVars, cacheVars>>

-----------------------------------------------------------------------------
AccountsNext ==
    \/ \E a \in Accounts :
        \/ \E i \in PublicIds : ChangeId(a, i)
        \/ ChangeProfile(a) \/ SignOut(a) \/ RemoveAccess(a) \/ DeleteAccount(a) \/ IssueToken(a)
    \/ \E e \in events : ApplyWebhook(e)
    \/ \E t \in tokens : ObserveToken(t)
    \/ \E k \in Lookups :
        \/ \E a \in Accounts, kind \in {"summary", "profile", "proof"} : StartLookup(k, a, kind)
        \/ UseLookup(k) \/ LookupFails(k)

AccountsSpec == AccountsInit /\ [][AccountsNext]_accountsVars

-----------------------------------------------------------------------------
(* Permanent addresses. *)

Holders(i) == {a \in Accounts : account[a].id = i /\ account[a].status # "deleted"}
RealHolders(i) == {a \in Accounts : real[a].id = i}

GaveUp(i) == {h \in former : h.id = i /\ account[h.account].status # "deleted"}
LatestGaveUp(i) == {h.account : h \in {g \in GaveUp(i) : \A f \in GaveUp(i) : f.at <= g.at}}

\* The accounts an address with the id leads to: the one cached holder, or the
\* answer of Silicon Accounts, or the account that gave it up last.
DriveOwner(i) ==
    IF Cardinality(Holders(i)) = 1 THEN Holders(i)
    ELSE IF RealHolders(i) # {} THEN RealHolders(i)
    ELSE LatestGaveUp(i)

-----------------------------------------------------------------------------
(* Properties. *)

\* Types, and no sighting is ahead of the clock.
AccountsTypeOK ==
    /\ \A a \in Accounts :
        /\ account[a].id \in PublicIds \cup {NoId}
        /\ account[a].id # NoId => account[a].known
        /\ account[a].id # NoId <=> account[a].observed # 0
        /\ account[a].observed \in 0..clock /\ account[a].revoked \in 0..clock
        /\ account[a].status \in {"active", "access_removed", "deleted"}
        /\ account[a].status # "active" => account[a].known
        /\ account[a].profile \in 0..clock /\ account[a].version \in 0..clock
        /\ sighted[a] \in 0..clock
    /\ receipts \subseteq events
    /\ outrun \subseteq Accounts

Ending == {"signed_out", "access_removed", "deleted"}

\* Once an event that ends sign-ins was applied, no token issued before it is
\* served again, whatever is applied later.
EndedTokensRefused ==
    \A e \in receipts, t \in tokens :
        e.kind \in Ending /\ e.account = t.account /\ t.issued < e.at => ~Served(t)

\* A token issued after the account's latest end of sign-ins is served,
\* whatever old events are still to come.
NewSignInsServed ==
    \A t \in tokens :
        (\A e \in events : e.kind \in Ending /\ e.account = t.account => e.at < t.issued) => Served(t)

\* An account loses its access once per event that says so.
RemovalsAnnounced ==
    \A a \in Accounts :
        removals[a] <= Cardinality({e \in events : e.account = a /\ e.kind = "access_removed"})

AllHeard(a) ==
    /\ \A e \in events : e.account = a => e \in receipts
    /\ \A k \in Lookups : lookup[k].account # a

\* When all events have arrived, in whatever order, the row tells the truth,
\* unless a lookup was stored that the account had outrun.
CacheConverges ==
    \A a \in Accounts \ outrun :
        AllHeard(a) =>
            /\ account[a].status = "deleted" <=> real[a].status = "deleted"
            /\ real[a].status = "active" => account[a].id \in {real[a].id, NoId}
            /\ account[a].profile \in {real[a].profile, 0}

\* Then a permanent address leads to the account that holds its id, or to the
\* live account that gave it up last.
AddressesReachHolders ==
    (\A a \in Accounts : AllHeard(a) /\ a \notin outrun) =>
        \A i \in PublicIds :
            LET given == {e \in events : /\ e.kind = "id_changed" /\ e.was = i
                                         /\ real[e.account].status = "active"}
            IN DriveOwner(i) = IF RealHolders(i) # {} THEN RealHolders(i)
                ELSE {e.account : e \in {g \in given : \A f \in given : f.at <= g.at}}

\* Tokens and the cached accounts follow the events, in whatever order events,
\* tokens and lookups arrive and however often each does.
AccountsFollowEvents ==
    /\ EndedTokensRefused /\ NewSignInsServed /\ RemovalsAnnounced
    /\ CacheConverges /\ AddressesReachHolders

\* A deletion is final, and an end of sign-ins is never taken back.
EndingsStay ==
    [][\A a \in Accounts :
        /\ account[a].status = "deleted" => account'[a].status = "deleted"
        /\ account'[a].revoked >= account[a].revoked]_accountsVars

\* The cached id is never replaced by an older one.
SightingsInOrder == [][\A a \in Accounts : sighted'[a] >= sighted[a]]_accountsVars

\* Only a lookup that was outrun replaces it by an older one.
SightingsInOrderUnlessOvertaken ==
    [][\A a \in Accounts : sighted'[a] < sighted[a] => a \in outrun']_accountsVars
=============================================================================
