---------------------------- MODULE Accounts_proofs ----------------------------
(***************************************************************************)
(* The account cache follows Silicon Accounts, for any number of accounts,  *)
(* events, tokens and lookups, in any order and any number of times; and    *)
(* what a host keeps of it in memory is no older than the code says, for    *)
(* any number of requests, keys and tokens.  In the end, the sign-in of a   *)
(* device, whatever is lost, killed or taken away meanwhile.                *)
(***************************************************************************)
EXTENDS Accounts, AccountsGateway, DeviceSignIn, FiniteSetTheorems, SequenceTheorems, TLAPS

Ids == PublicIds \union {NoId}
EventKinds == {"id_changed", "updated", "signed_out", "access_removed", "deleted"}
RealRows == [id : Ids, profile : Nat, status : {"active", "deleted"}]
AccountRows == [known : BOOLEAN, id : Ids, observed : Nat,
                status : {"active", "access_removed", "deleted"},
                revoked : Nat, profile : Nat, version : Nat]
EventRows == [account : Accounts, kind : EventKinds, at : Nat, was : Ids, id : Ids, version : Nat]
TokenRows == [account : Accounts, issued : Nat, id : PublicIds]
LookupRows == [account : Accounts, kind : {"summary", "profile", "proof"}, id : Ids,
               profile : Nat, at : Nat]
FormerRows == [id : Ids, account : Accounts, at : Nat]

AccountsTyped ==
    /\ real \in [Accounts -> RealRows] /\ clock \in Nat
    /\ events \subseteq EventRows /\ IsFiniteSet(events) /\ tokens \subseteq TokenRows
    /\ account \in [Accounts -> AccountRows] /\ receipts \subseteq events
    /\ former \subseteq FormerRows
    /\ lookup \in [Lookups -> LookupRows \union {NoLookup}]
    /\ sighted \in [Accounts -> Nat] /\ outrun \subseteq Accounts
    /\ removals \in [Accounts -> Nat]

\* An answer is on its way.
Asked(k) == lookup[k] # NoLookup

-----------------------------------------------------------------------------
(* Silicon Accounts, and the clock that orders what happens there. *)

\* Everything carries the time at which it happened, and no two events have one.
Dated ==
    /\ \A e \in events : e.at <= clock /\ \A f \in events : e.at = f.at => e = f
    /\ \A t \in tokens : t.issued > 0 /\ t.issued <= clock
    /\ \A k \in Lookups : Asked(k) => lookup[k].at <= clock

\* An account has an id while it lives, nobody else's, and its deletion is the
\* last that happens to it.
Living ==
    /\ \A a \in Accounts : real[a].id = NoId <=> real[a].status = "deleted"
    /\ \A a, b \in Accounts : real[a].id = real[b].id /\ real[a].id # NoId => a = b
    /\ \A e \in events : e.kind = "id_changed" => e.was # NoId
    /\ \A e \in events : e.id = NoId <=> e.kind = "deleted"
    /\ \A e \in events : e.kind = "deleted" =>
        /\ real[e.account].status = "deleted"
        /\ \A f \in events : f.account = e.account => f.at <= e.at
        /\ \A t \in tokens : t.account = e.account => t.issued < e.at
    /\ \A a \in Accounts : real[a].status = "deleted" =>
        /\ real[a].profile = 0
        /\ \E e \in events : e.account = a /\ e.kind = "deleted"
    /\ \A k \in Lookups : Asked(k) /\ lookup[k].id = NoId =>
        real[lookup[k].account].status = "deleted" /\ lookup[k].profile = 0
    /\ \A k \in Lookups : Asked(k) /\ lookup[k].kind = "proof" => lookup[k].id # NoId

\* What is known of an account's id: from whom, and of which time.
Seen(a, i, t) ==
    \/ i = real[a].id /\ t = clock
    \/ \E e \in events : e.account = a /\ e.id = i /\ e.at = t
    \/ \E k \in tokens : k.account = a /\ k.id = i /\ k.issued = t
    \/ \E k \in Lookups : Asked(k) /\ lookup[k].account = a /\ lookup[k].id = i /\ lookup[k].at = t
    \/ /\ account[a].id # NoId /\ account[a].id = i
       /\ t = sighted[a] \/ (a \notin outrun /\ t = account[a].observed)

\* The account changed its id, or was deleted, between two times.
Moved(a, s, t) ==
    \E e \in events : e.account = a /\ e.kind \in {"id_changed", "deleted"} /\ s < e.at /\ e.at <= t

\* Two sightings that differ have a change between them.
Agree ==
    \A a \in Accounts, i, j \in Ids, s, t \in Nat :
        Seen(a, i, s) /\ Seen(a, j, t) /\ s <= t /\ i # j => Moved(a, s, t)

-----------------------------------------------------------------------------
(* What the cache makes of it. *)

\* A row that has an id has seen it, and not after it was last observed.
Sighting ==
    \A a \in Accounts :
        /\ sighted[a] <= account[a].observed /\ account[a].observed <= clock
        /\ account[a].id = NoId => sighted[a] = 0

\* Sign-ins end with the events that end them and not otherwise.
Endings ==
    /\ \A e \in receipts : e.kind \in Ending => account[e.account].revoked >= e.at
    /\ \A a \in Accounts :
        /\ account[a].revoked <= clock
        /\ account[a].status = "deleted" => real[a].status = "deleted"
        /\ real[a].status = "active" /\ account[a].revoked # 0 =>
            \E e \in events : e.account = a /\ e.kind \in Ending /\ e.at = account[a].revoked
    /\ \A e \in receipts : e.kind = "deleted" => account[e.account].status = "deleted"
    /\ \A e \in events : e.kind = "deleted" /\ account[e.account].status = "deleted" =>
        account[e.account].revoked >= e.at

\* An event has been heard: the row knows what it says.
Heard ==
    \A e \in receipts :
        /\ e.kind = "id_changed" => account[e.account].observed >= e.at
        /\ e.kind = "updated" /\ account[e.account].status # "deleted" =>
            account[e.account].version >= e.version

\* Versions only grow, and the newest one comes with the newest profile.
Profiles ==
    /\ \A a \in Accounts : real[a].status = "active" =>
        /\ real[a].profile >= 1
        /\ account[a].profile <= real[a].profile /\ account[a].version <= real[a].profile
        /\ real[a].profile > 1 =>
            \E e \in events : e.account = a /\ e.kind = "updated" /\ e.version = real[a].profile
        /\ \A e \in events : e.account = a => e.version <= real[a].profile
        /\ a \notin outrun /\ (account[a].version = real[a].profile \/ real[a].profile = 1) =>
            account[a].profile \in {0, real[a].profile}
    /\ \A a \in Accounts \ outrun : account[a].status = "deleted" => account[a].profile = 0
    /\ \A k \in Lookups : Asked(k) =>
        LET a == lookup[k].account IN
        /\ real[a].status = "active" => lookup[k].profile <= real[a].profile
        /\ lookup[k].profile # real[a].profile =>
            \E e \in events : e.account = a /\ e.at > lookup[k].at

\* The ids given up are those that the events heard of say, each with the last time.
Given ==
    /\ \A h \in former : \E e \in receipts :
        e.kind = "id_changed" /\ e.was = h.id /\ e.account = h.account /\ e.at = h.at
    /\ \A e \in receipts : e.kind = "id_changed" =>
        \E h \in former : h.id = e.was /\ h.account = e.account /\ h.at >= e.at
    /\ \A g, h \in former : g.id = h.id /\ g.account = h.account => g = h

\* An account loses its access once per event heard.
Removals ==
    \A a \in Accounts :
        removals[a] <= Cardinality({e \in receipts : e.account = a /\ e.kind = "access_removed"})

AccountsInductive ==
    /\ AccountsTyped /\ Dated /\ Living /\ Agree /\ Sighting /\ Endings /\ Heard /\ Profiles
    /\ Given /\ Removals

-----------------------------------------------------------------------------
(* The operators on rows. *)

LEMMA RowFields ==
    ASSUME NEW k, NEW i, NEW o, NEW s, NEW r, NEW p, NEW v, NEW row, row = AccountRow(k, i, o, s, r, p, v)
    PROVE  /\ row.known = k /\ row.id = i /\ row.observed = o /\ row.status = s
           /\ row.revoked = r /\ row.profile = p /\ row.version = v
           /\ (k \in BOOLEAN /\ i \in Ids /\ o \in Nat /\ s \in {"active", "access_removed", "deleted"}
               /\ r \in Nat /\ p \in Nat /\ v \in Nat) => row \in AccountRows
  BY DEF AccountRow, AccountRows

\* An event gives a row its id, if it is newer than what the row has seen.
Renames(row, e) ==
    /\ e.kind = "id_changed" \/ (e.kind = "updated" /\ row.status # "deleted")
    /\ row.observed < e.at

LEMMA AppliedFields ==
    ASSUME NEW row \in AccountRows, NEW e \in EventRows, NEW new, new = Applied(row, e)
    PROVE  /\ new \in AccountRows /\ new.known = row.known
           /\ IF Renames(row, e) THEN new.id = e.id /\ new.observed = e.at
              ELSE new.id = row.id /\ new.observed = row.observed
           /\ new.status = IF e.kind = "deleted" THEN "deleted"
                           ELSE IF e.kind = "access_removed" /\ row.status = "active" THEN "access_removed"
                           ELSE row.status
           /\ new.revoked = IF e.kind \in {"signed_out", "access_removed"}
                               \/ (e.kind = "deleted" /\ row.status # "deleted")
                            THEN Later(row.revoked, e.at) ELSE row.revoked
           /\ new.profile = IF e.kind = "updated" /\ row.status # "deleted" /\ row.version < e.version
                            THEN e.version
                            ELSE IF e.kind = "deleted" /\ row.status # "deleted" THEN 0 ELSE row.profile
           /\ new.version = IF e.kind = "updated" /\ row.status # "deleted" /\ row.version < e.version
                            THEN e.version ELSE row.version
<1>1. /\ e.kind \in EventKinds /\ e.at \in Nat /\ e.version \in Nat /\ e.id \in Ids
      /\ row.known \in BOOLEAN /\ row.id \in Ids /\ row.observed \in Nat
      /\ row.status \in {"active", "access_removed", "deleted"}
      /\ row.revoked \in Nat /\ row.profile \in Nat /\ row.version \in Nat
  BY DEF EventRows, AccountRows
<1>2. Later(row.revoked, e.at) \in Nat
  BY <1>1 DEF Later
<1>3. CASE e.kind = "id_changed"
  <2>1. new = WithId(row, e.id, e.at)
    BY <1>3 DEF Applied
  <2> QED BY <1>1, <1>3, <2>1, RowFields DEF WithId, WithIdAlways, Renames
<1>4. CASE e.kind = "updated"
  <2>1. new = Updated(row, e)
    BY <1>4 DEF Applied
  <2>2. CASE row.status = "deleted"
    BY <1>4, <2>1, <2>2 DEF Updated, Renames
  <2>3. CASE row.status # "deleted"
    <3> DEFINE mid == WithProfile(row, e.version)
    <3>1. /\ mid \in AccountRows /\ mid.known = row.known /\ mid.id = row.id /\ mid.observed = row.observed
          /\ mid.status = row.status /\ mid.revoked = row.revoked
          /\ mid.profile = IF row.version < e.version THEN e.version ELSE row.profile
          /\ mid.version = IF row.version < e.version THEN e.version ELSE row.version
      BY <1>1, RowFields DEF WithProfile
    <3>2. new = WithId(mid, e.id, e.at)
      BY <2>1, <2>3 DEF Updated
    <3> HIDE DEF mid
    <3>3. mid.observed \in Nat /\ mid.profile \in Nat /\ mid.version \in Nat
      BY <3>1 DEF AccountRows
    <3>4. /\ new \in AccountRows /\ new.known = mid.known /\ new.status = mid.status /\ new.revoked = mid.revoked
          /\ new.profile = mid.profile /\ new.version = mid.version
          /\ IF mid.observed < e.at THEN new.id = e.id /\ new.observed = e.at
             ELSE new.id = mid.id /\ new.observed = mid.observed
      BY <1>1, <3>1, <3>2, <3>3, RowFields DEF WithId, WithIdAlways
    <3> QED BY <1>1, <1>4, <2>3, <3>1, <3>4 DEF Renames
  <2> QED BY <2>2, <2>3
<1>5. ASSUME e.kind \in {"signed_out", "access_removed"}
      PROVE  LET mid == [row EXCEPT !.revoked = Later(row.revoked, e.at)]
             IN /\ mid \in AccountRows /\ mid.known = row.known /\ mid.id = row.id /\ mid.observed = row.observed
                /\ mid.status = row.status /\ mid.revoked = Later(row.revoked, e.at)
                /\ mid.profile = row.profile /\ mid.version = row.version
  BY <1>2 DEF AccountRows
<1>6. CASE e.kind = "signed_out"
  <2>1. new = [row EXCEPT !.revoked = Later(row.revoked, e.at)]
    BY <1>6 DEF Applied, Revoked
  <2> QED BY <1>5, <1>6, <2>1 DEF Renames
<1>7. CASE e.kind = "access_removed"
  <2>1. PICK mid : mid = [row EXCEPT !.revoked = Later(row.revoked, e.at)]
    OBVIOUS
  <2>2. new = [mid EXCEPT !.status = IF mid.status = "active" THEN "access_removed" ELSE mid.status]
    BY <1>7, <2>1 DEF Applied, Revoked
  <2>3. /\ mid \in AccountRows /\ mid.known = row.known /\ mid.id = row.id /\ mid.observed = row.observed
        /\ mid.status = row.status /\ mid.revoked = Later(row.revoked, e.at)
        /\ mid.profile = row.profile /\ mid.version = row.version
    BY <1>5, <1>7, <2>1
  <2>4. /\ new \in AccountRows /\ new.known = row.known /\ new.id = row.id /\ new.observed = row.observed
        /\ new.status = IF row.status = "active" THEN "access_removed" ELSE row.status
        /\ new.revoked = mid.revoked /\ new.profile = row.profile /\ new.version = row.version
    BY <2>2, <2>3 DEF AccountRows
  <2> QED BY <1>7, <2>3, <2>4 DEF Renames
<1>8. CASE e.kind = "deleted"
  <2>1. new = MarkDeleted(row, e.at)
    BY <1>8 DEF Applied
  <2> QED BY <1>1, <1>2, <1>8, <2>1, RowFields DEF MarkDeleted, Renames
<1> QED BY <1>1, <1>3, <1>4, <1>6, <1>7, <1>8 DEF EventKinds

\* A token gives a row its id, if it was issued after what the row has seen.
LEMMA ObservedFields ==
    ASSUME NEW row \in AccountRows, NEW t \in TokenRows, NEW new, new = Observed(row, t)
    PROVE  /\ new \in AccountRows
           /\ \/ new.id = row.id /\ new.observed = row.observed
              \/ new.id = t.id /\ new.observed = t.issued /\ row.observed < t.issued
           /\ new.status = row.status \/ (row.status = "access_removed" /\ new.status = "active")
           /\ new.revoked = row.revoked /\ new.profile = row.profile /\ new.version = row.version
<1>1. /\ t.issued \in Nat /\ t.id \in Ids
      /\ row.known \in BOOLEAN /\ row.id \in Ids /\ row.observed \in Nat
      /\ row.status \in {"active", "access_removed", "deleted"}
      /\ row.revoked \in Nat /\ row.profile \in Nat /\ row.version \in Nat
  BY DEF TokenRows, AccountRows, Ids
<1>2. CASE ~TokenChanges(row, t)
  BY <1>2 DEF Observed
<1>3. CASE TokenChanges(row, t)
  <2>1. PICK mid : mid = WithId(row, t.id, t.issued)
    OBVIOUS
  <2>2. /\ \/ mid.id = row.id /\ mid.observed = row.observed
           \/ mid.id = t.id /\ mid.observed = t.issued /\ row.observed < t.issued
        /\ mid.id \in Ids /\ mid.observed \in Nat
    BY <1>1, <2>1, RowFields DEF WithId, WithIdAlways
  <2>3. new = AccountRow(TRUE, mid.id, mid.observed, IF Reactivates(row, t) THEN "active" ELSE row.status,
                         row.revoked, row.profile, row.version)
    BY <1>3, <2>1 DEF Observed
  <2>4. (IF Reactivates(row, t) THEN "active" ELSE row.status)
          \in {"active", "access_removed", "deleted"}
    BY <1>1
  <2> QED BY <1>1, <2>2, <2>3, <2>4 DEF Reactivates, AccountRow, AccountRows
<1> QED BY <1>2, <1>3

\* What is stored of an answer.
Answered(row, found, now) ==
    IF found.kind = "proof" THEN FirstSeen(row, found, now) ELSE Stored(row, found, now)

LEMMA StoredFields ==
    ASSUME NEW row \in AccountRows, NEW found \in LookupRows, NEW now \in Nat,
           NEW new, new = Answered(row, found, now)
    PROVE  /\ new \in AccountRows
           /\ \/ new.id = row.id /\ new.observed = row.observed
              \/ new.id = found.id /\ new.observed = now /\ (found.id # NoId \/ found.kind = "proof")
           /\ new.status = row.status \/ (new.status = "deleted" /\ found.id = NoId)
           /\ new.revoked = row.revoked
              \/ (row.status # "deleted" /\ new.status = "deleted" /\ new.revoked = Later(row.revoked, now))
           /\ new.status # row.status => new.revoked = Later(row.revoked, now)
           /\ new.profile = row.profile \/ new.profile = found.profile
              \/ (new.profile = 0 /\ new.status = "deleted" /\ found.id = NoId)
           /\ new.version = row.version \/ (new.version = Later(row.version, found.profile))
           /\ (new.version # row.version \/ new.status # row.status) =>
                 new.profile = found.profile \/ (new.profile = 0 /\ new.status = "deleted" /\ found.id = NoId)
<1>1. /\ found.id \in Ids /\ found.profile \in Nat
      /\ row.known \in BOOLEAN /\ row.id \in Ids /\ row.observed \in Nat
      /\ row.status \in {"active", "access_removed", "deleted"}
      /\ row.revoked \in Nat /\ row.profile \in Nat /\ row.version \in Nat
  BY DEF LookupRows, AccountRows
<1>2. /\ Later(row.revoked, now) \in Nat
      /\ Later(row.version, found.profile) \in Nat
  BY <1>1 DEF Later
<1>3. CASE found.kind = "proof"
  BY <1>1, <1>3 DEF Answered, FirstSeen, AccountRow, AccountRows
<1>4. CASE found.kind # "proof"
  <2>1. PICK version : version = IF found.kind = "profile" THEN Later(row.version, found.profile) ELSE row.version
    OBVIOUS
  <2>2. version \in Nat /\ version \in {row.version, Later(row.version, found.profile)}
    BY <1>1, <1>2, <2>1
  <2>3. CASE found.id # NoId
    <3>1. new = AccountRow(TRUE, found.id, now, row.status, row.revoked, found.profile, version)
      BY <1>4, <2>1, <2>3 DEF Answered, Stored
    <3>2. /\ new.id = found.id /\ new.observed = now /\ new.status = row.status
          /\ new.revoked = row.revoked /\ new.profile = found.profile /\ new.version = version
      BY <3>1 DEF AccountRow
    <3>3. new \in AccountRows
      <4>1. row.status \in {"active", "access_removed", "deleted"} /\ row.revoked \in Nat
        BY <1>1
      <4>2. found.id \in Ids /\ found.profile \in Nat /\ version \in Nat
        BY <1>1, <2>2
      <4>3. PICK k \in BOOLEAN : k = TRUE
        OBVIOUS
      <4>4. new = AccountRow(k, found.id, now, row.status, row.revoked, found.profile, version)
        BY <3>1, <4>3
      <4> QED BY <4>1, <4>2, <4>4, RowFields
    <3> QED BY <2>2, <2>3, <3>2, <3>3
  <2>4. CASE found.id = NoId
    <3>1. PICK mid : mid = AccountRow(TRUE, row.id, row.observed, row.status, row.revoked, found.profile, version)
      OBVIOUS
    <3>2. /\ mid \in AccountRows /\ mid.known /\ mid.id = row.id /\ mid.observed = row.observed
          /\ mid.status = row.status /\ mid.revoked = row.revoked /\ mid.profile = found.profile
          /\ mid.version = version
      BY <1>1, <2>2, <3>1 DEF AccountRow, AccountRows
    <3>3. new = MarkDeleted(mid, now)
      BY <1>4, <2>1, <2>4, <3>1 DEF Answered, Stored
    <3>4. CASE row.status = "deleted"
      BY <2>2, <2>4, <3>2, <3>3, <3>4 DEF MarkDeleted
    <3>5. CASE row.status # "deleted"
      <4>1. new = AccountRow(mid.known, mid.id, mid.observed, "deleted", Later(mid.revoked, now), 0, mid.version)
        BY <3>2, <3>3, <3>5 DEF MarkDeleted
      <4>2. /\ new.id = row.id /\ new.observed = row.observed /\ new.status = "deleted"
            /\ new.revoked = Later(row.revoked, now) /\ new.profile = 0 /\ new.version = version
        BY <3>2, <4>1 DEF AccountRow
      <4>3. new \in AccountRows
        <5>1. mid.known \in BOOLEAN /\ mid.id \in Ids /\ mid.observed \in Nat
          BY <3>2 DEF AccountRows
        <5>2. Later(mid.revoked, now) \in Nat /\ mid.version \in Nat
          BY <1>2, <2>2, <3>2
        <5> QED BY <4>1, <5>1, <5>2, RowFields
      <4> QED BY <2>2, <2>4, <3>5, <4>2, <4>3
    <3> QED BY <3>4, <3>5
  <2> QED BY <2>3, <2>4
<1> QED BY <1>3, <1>4

-----------------------------------------------------------------------------
(* Silicon Accounts takes a step. *)

\* A change that is announced: what the new state of the account may be.
Worldly(a, kind, was) ==
    /\ Announce(a, kind, was) /\ was \in Ids /\ (kind = "id_changed" => was # NoId)
    /\ real' \in [Accounts -> RealRows] /\ \A b \in Accounts \ {a} : real'[b] = real[b]
    /\ real'[a].status = "deleted" <=> kind = "deleted"
    /\ real'[a].id = NoId <=> kind = "deleted"
    /\ \/ real'[a].id = real[a].id
       \/ kind = "deleted"
       \/ kind = "id_changed" /\ \A b \in Accounts : real[b].id # real'[a].id
    /\ real'[a].profile = IF kind = "deleted" THEN 0
                          ELSE IF kind = "updated" THEN real[a].profile + 1 ELSE real[a].profile

\* What is seen has been dated, and lies behind the clock.
LEMMA SeenBehind ==
    ASSUME AccountsInductive, NEW a \in Accounts, NEW i \in Ids, NEW t \in Nat, Seen(a, i, t)
    PROVE  t <= clock
<1>1. /\ clock \in Nat /\ Dated /\ Sighting /\ account[a] \in AccountRows /\ sighted[a] \in Nat
  BY DEF AccountsInductive, AccountsTyped
<1>2. account[a].observed \in Nat
  BY <1>1 DEF AccountRows
<1> QED BY <1>1, <1>2 DEF Seen, Dated, Sighting

\* When the clock goes on, what is new to be seen is the account as it is now.
LEMMA AgreeGoesOn ==
    ASSUME AccountsInductive, clock' = clock + 1, events \subseteq events',
           \A a \in Accounts, i \in Ids, t \in Nat :
               Seen(a, i, t)' => Seen(a, i, t) \/ (i = real'[a].id /\ t = clock + 1),
           \A a \in Accounts :
               \/ real'[a].id = real[a].id
               \/ \E e \in events' : e.account = a /\ e.kind \in {"id_changed", "deleted"} /\ e.at = clock + 1
    PROVE  Agree'
<1>1. clock \in Nat /\ Agree /\ real \in [Accounts -> RealRows]
  BY DEF AccountsInductive, AccountsTyped
<1>2. ASSUME NEW a \in Accounts, NEW i \in Ids, NEW t \in Nat, Seen(a, i, t), i # real'[a].id,
             NEW u \in Nat, u = clock + 1
      PROVE  Moved(a, t, u)'
  <2>1. t <= clock
    BY <1>2, SeenBehind
  <2>2. CASE real'[a].id = real[a].id
    <3>1. Seen(a, real[a].id, clock) /\ real[a].id \in Ids
      BY <1>1 DEF Seen, RealRows
    <3>2. Moved(a, t, clock)
      BY <1>1, <1>2, <2>1, <2>2, <3>1 DEF Agree
    <3>3. PICK e \in events : e.account = a /\ e.kind \in {"id_changed", "deleted"} /\ t < e.at /\ e.at <= clock
      BY <3>2 DEF Moved
    <3>4. e \in events' /\ e.at \in Nat
      BY <3>3 DEF AccountsInductive, AccountsTyped, EventRows
    <3>5. e.at <= u
      BY <1>1, <1>2, <3>3, <3>4
    <3> QED BY <3>3, <3>4, <3>5 DEF Moved
  <2>3. CASE real'[a].id # real[a].id
    <3>1. PICK e \in events' : e.account = a /\ e.kind \in {"id_changed", "deleted"} /\ e.at = clock + 1
      BY <2>3
    <3>2. t < e.at /\ e.at <= u
      BY <1>1, <1>2, <2>1, <3>1
    <3> QED BY <3>1, <3>2 DEF Moved
  <2> QED BY <2>2, <2>3
<1>3. ASSUME NEW a \in Accounts, NEW s \in Nat, NEW t \in Nat, Moved(a, s, t) PROVE Moved(a, s, t)'
  BY <1>3 DEF Moved
<1>4. SUFFICES ASSUME NEW a \in Accounts, NEW i \in Ids, NEW j \in Ids, NEW s \in Nat, NEW t \in Nat,
                      Seen(a, i, s)', Seen(a, j, t)', s <= t, i # j
               PROVE  Moved(a, s, t)'
  BY DEF Agree
<1>5. CASE Seen(a, i, s) /\ Seen(a, j, t)
  BY <1>1, <1>3, <1>4, <1>5 DEF Agree
<1>6. CASE Seen(a, i, s) /\ j = real'[a].id /\ t = clock + 1
  BY <1>2, <1>4, <1>6
<1>7. CASE i = real'[a].id /\ s = clock + 1
  <2>1. t <= clock \/ j = real'[a].id
    BY <1>4, SeenBehind
  <2> QED BY <1>1, <1>4, <1>7, <2>1
<1> QED BY <1>4, <1>5, <1>6, <1>7

LEMMA WorldKeeps ==
    ASSUME AccountsInductive, NEW a \in Accounts, NEW kind \in EventKinds, NEW was, Worldly(a, kind, was)
    PROVE  AccountsInductive'
<1>0. AccountsTyped /\ Dated /\ Living /\ Agree /\ Sighting /\ Endings /\ Heard /\ Profiles /\ Given /\ Removals
  BY DEF AccountsInductive
<1> DEFINE new == [account |-> a, kind |-> kind, at |-> clock + 1, was |-> was,
                   id |-> real'[a].id, version |-> real'[a].profile]
<1>1. /\ real[a].status = "active" /\ clock' = clock + 1 /\ clock \in Nat
      /\ events' = events \union {new} /\ tokens' = tokens
      /\ account' = account /\ receipts' = receipts /\ former' = former /\ sighted' = sighted
      /\ outrun' = outrun /\ removals' = removals /\ lookup' = lookup
  BY <1>0 DEF Worldly, Announce, Happens, cacheVars, AccountsTyped
<1>2. /\ was \in Ids /\ (kind = "id_changed" => was # NoId)
      /\ real' \in [Accounts -> RealRows] /\ \A b \in Accounts \ {a} : real'[b] = real[b]
      /\ real'[a].status = "deleted" <=> kind = "deleted"
      /\ real'[a].id = NoId <=> kind = "deleted"
      /\ \/ real'[a].id = real[a].id
         \/ kind = "deleted"
         \/ kind = "id_changed" /\ \A b \in Accounts : real[b].id # real'[a].id
      /\ real'[a].profile = IF kind = "deleted" THEN 0
                            ELSE IF kind = "updated" THEN real[a].profile + 1 ELSE real[a].profile
  BY DEF Worldly
<1>3. /\ real'[a].id \in Ids /\ real'[a].profile \in Nat /\ real[a].profile \in Nat
      /\ \A b \in Accounts : real'[b].status \in {"active", "deleted"} /\ real[b].status \in {"active", "deleted"}
      /\ \A b \in Accounts : real'[b].profile \in Nat /\ real[b].profile \in Nat
  BY <1>0, <1>2 DEF AccountsTyped, RealRows
<1>4. /\ new \in EventRows /\ new.account = a /\ new.kind = kind /\ new.at = clock + 1 /\ new.was = was
      /\ new.id = real'[a].id /\ new.version = real'[a].profile
  BY <1>1, <1>2, <1>3 DEF EventRows
<1> HIDE DEF new
<1>5. AccountsTyped'
  <2>1. IsFiniteSet(events')
    BY <1>0, <1>1, FS_AddElement DEF AccountsTyped
  <2> QED BY <1>0, <1>1, <1>2, <1>4, <2>1 DEF AccountsTyped
<1>6. \A e \in events : e.at \in Nat /\ e.at <= clock /\ e.at # clock + 1
  <2>1. \A e \in events : e.at \in Nat /\ e.at <= clock
    BY <1>0 DEF AccountsTyped, EventRows, Dated
  <2> QED BY <1>1, <2>1
<1>7. Dated'
  <2>1. \A t \in tokens : t.issued \in Nat /\ t.issued > 0 /\ t.issued <= clock
    BY <1>0 DEF AccountsTyped, TokenRows, Dated
  <2>2. \A k \in Lookups : Asked(k) => lookup[k].at \in Nat /\ lookup[k].at <= clock
    BY <1>0 DEF AccountsTyped, LookupRows, Dated, Asked
  <2>3. \A e \in events' : e.at <= clock' /\ \A f \in events' : e.at = f.at => e = f
    BY <1>0, <1>1, <1>4, <1>6 DEF Dated
  <2> QED BY <1>1, <2>1, <2>2, <2>3 DEF Dated, Asked
<1>8. Living'
  <2>1. \A b \in Accounts : real'[b].id = NoId <=> real'[b].status = "deleted"
    BY <1>0, <1>2 DEF Living
  <2>2. \A b, c \in Accounts : real'[b].id = real'[c].id /\ real'[b].id # NoId => b = c
    BY <1>0, <1>2 DEF Living
  <2>3. \A e \in events' : (e.kind = "id_changed" => e.was # NoId) /\ (e.id = NoId <=> e.kind = "deleted")
    BY <1>0, <1>1, <1>2, <1>4 DEF Living
  <2>4. \A e \in events : e.kind = "deleted" => e.account # a
    BY <1>0, <1>1 DEF Living
  <2>5. ASSUME NEW e \in events', e.kind = "deleted"
        PROVE  /\ real'[e.account].status = "deleted"
               /\ \A f \in events' : f.account = e.account => f.at <= e.at
               /\ \A t \in tokens' : t.account = e.account => t.issued < e.at
    <3>1. CASE e \in events
      <4>1. e.account \in Accounts \ {a}
        BY <1>0, <2>4, <2>5, <3>1 DEF AccountsTyped, EventRows
      <4>2. real'[e.account] = real[e.account]
        BY <1>2, <4>1
      <4> QED BY <1>0, <1>1, <1>4, <2>5, <3>1, <4>1, <4>2 DEF Living
    <3>2. CASE e = new
      <4>1. \A t \in tokens : t.issued \in Nat /\ t.issued <= clock
        BY <1>0 DEF AccountsTyped, TokenRows, Dated
      <4>2. real'[a].status = "deleted"
        BY <1>2, <1>4, <2>5, <3>2
      <4>3. \A f \in events' : f.at <= clock + 1
        BY <1>1, <1>4, <1>6
      <4>4. \A t \in tokens' : t.issued < clock + 1
        BY <1>1, <4>1
      <4> QED BY <1>4, <3>2, <4>2, <4>3, <4>4
    <3> QED BY <1>1, <2>5, <3>1, <3>2
  <2>6. ASSUME NEW b \in Accounts, real'[b].status = "deleted"
        PROVE  real'[b].profile = 0 /\ \E e \in events' : e.account = b /\ e.kind = "deleted"
    <3>1. CASE b = a
      <4>1. kind = "deleted" /\ new \in events'
        BY <1>1, <1>2, <2>6, <3>1
      <4> QED BY <1>2, <1>4, <3>1, <4>1
    <3>2. CASE b # a
      BY <1>0, <1>1, <1>2, <2>6, <3>2 DEF Living
    <3> QED BY <3>1, <3>2
  <2>7. ASSUME NEW k \in Lookups, Asked(k)', lookup'[k].id = NoId
        PROVE  real'[lookup'[k].account].status = "deleted" /\ lookup'[k].profile = 0
    <3>1. Asked(k) /\ lookup[k].id = NoId
      BY <1>1, <2>7 DEF Asked
    <3>2. real[lookup[k].account].status = "deleted" /\ lookup[k].profile = 0 /\ lookup[k].account \in Accounts
      BY <1>0, <3>1 DEF Living, AccountsTyped, LookupRows, Asked
    <3> QED BY <1>1, <1>2, <3>2
  <2>8. \A k \in Lookups : Asked(k)' /\ lookup'[k].kind = "proof" => lookup'[k].id # NoId
    BY <1>0, <1>1 DEF Living, Asked
  <2> QED BY <2>1, <2>2, <2>3, <2>5, <2>6, <2>7, <2>8 DEF Living
<1>9. Agree'
  <2>1. ASSUME NEW b \in Accounts, NEW i \in Ids, NEW t \in Nat, Seen(b, i, t)'
        PROVE  Seen(b, i, t) \/ (i = real'[b].id /\ t = clock + 1)
    <3>1. CASE i = real'[b].id /\ t = clock'
      BY <1>1, <3>1
    <3>2. CASE \E e \in events' : e.account = b /\ e.id = i /\ e.at = t
      BY <1>1, <1>4, <3>2 DEF Seen
    <3> QED BY <1>1, <2>1, <3>1, <3>2 DEF Seen, Asked
  <2>2. ASSUME NEW b \in Accounts, real'[b].id # real[b].id
        PROVE  \E e \in events' : e.account = b /\ e.kind \in {"id_changed", "deleted"} /\ e.at = clock + 1
    <3>1. b = a /\ kind \in {"id_changed", "deleted"}
      BY <1>2, <2>2
    <3> QED BY <1>1, <1>4, <3>1
  <2> QED BY <1>1, <2>1, <2>2, AgreeGoesOn
<1>10. Sighting'
  <2>1. \A b \in Accounts : account[b].observed \in Nat /\ sighted[b] \in Nat
    BY <1>0 DEF AccountsTyped, AccountRows
  <2> QED BY <1>0, <1>1, <2>1 DEF Sighting
<1>11. Endings'
  <2>1. account[a].status # "deleted"
    BY <1>0, <1>1 DEF Endings
  <2>2. \A b \in Accounts : account[b].revoked \in Nat /\ account[b].revoked <= clock
    BY <1>0 DEF Endings, AccountsTyped, AccountRows
  <2>3. \A e \in events' : e.kind = "deleted" /\ account[e.account].status = "deleted" =>
           account[e.account].revoked >= e.at
    BY <1>0, <1>1, <1>4, <2>1 DEF Endings
  <2>4. \A b \in Accounts : real'[b].status = "active" => real[b].status = "active"
    BY <1>1, <1>2
  <2>5. \A b \in Accounts : account[b].status = "deleted" => real'[b].status = "deleted"
    BY <1>0, <1>2, <2>1 DEF Endings
  <2>6. ASSUME NEW b \in Accounts PROVE account'[b].revoked <= clock'
    BY <1>1, <2>2
  <2>7. \A b \in Accounts : real'[b].status = "active" /\ account[b].revoked # 0 =>
            \E e \in events' : e.account = b /\ e.kind \in Ending /\ e.at = account[b].revoked
    BY <1>0, <1>1, <2>4 DEF Endings
  <2> QED BY <1>0, <1>1, <2>3, <2>5, <2>6, <2>7 DEF Endings
<1>12. Heard' /\ Given' /\ Removals'
  BY <1>0, <1>1 DEF Heard, Given, Removals
<1>13. Profiles'
  <2>1. ASSUME NEW b \in Accounts, real'[b].status = "active"
        PROVE  /\ real'[b].profile >= 1
               /\ account[b].profile <= real'[b].profile /\ account[b].version <= real'[b].profile
               /\ real'[b].profile > 1 =>
                   \E e \in events' : e.account = b /\ e.kind = "updated" /\ e.version = real'[b].profile
               /\ \A e \in events' : e.account = b => e.version <= real'[b].profile
               /\ b \notin outrun /\ (account[b].version = real'[b].profile \/ real'[b].profile = 1) =>
                   account[b].profile \in {0, real'[b].profile}
    <3>0. /\ account[b].profile \in Nat /\ account[b].version \in Nat
          /\ \A e \in events : e.version \in Nat
      BY <1>0 DEF AccountsTyped, AccountRows, EventRows
    <3>1. CASE b # a
      <4>1. real'[b] = real[b]
        BY <1>2, <3>1
      <4> QED BY <1>0, <1>1, <1>4, <2>1, <3>1, <4>1 DEF Profiles
    <3>2. CASE b = a /\ kind # "updated"
      <4>1. real'[a].profile = real[a].profile
        BY <1>2, <2>1, <3>2
      <4>2. real[a].profile \in Nat
        BY <1>3
      <4> QED BY <1>0, <1>1, <1>4, <2>1, <3>2, <4>1, <4>2 DEF Profiles
    <3>3. CASE b = a /\ kind = "updated"
      <4>1. real'[a].profile = real[a].profile + 1 /\ real[a].profile \in Nat
        BY <1>2, <1>3, <3>3
      <4>2. /\ real[a].profile >= 1
            /\ account[a].profile <= real[a].profile /\ account[a].version <= real[a].profile
            /\ \A e \in events : e.account = a => e.version <= real[a].profile
        BY <1>0, <1>1 DEF Profiles
      <4>3. \E e \in events' : e.account = a /\ e.kind = "updated" /\ e.version = real'[a].profile
        BY <1>1, <1>4, <3>3
      <4>4. \A e \in events' : e.account = a => e.version <= real'[a].profile
        BY <1>1, <1>3, <1>4, <3>0, <4>1, <4>2
      <4> QED BY <3>0, <3>3, <4>1, <4>2, <4>3, <4>4
    <3> QED BY <3>1, <3>2, <3>3
  <2>2. ASSUME NEW k \in Lookups, Asked(k)
        PROVE  LET b == lookup[k].account IN
               /\ real'[b].status = "active" => lookup[k].profile <= real'[b].profile
               /\ lookup[k].profile # real'[b].profile =>
                    \E e \in events' : e.account = b /\ e.at > lookup[k].at
    <3>1. /\ lookup[k].account \in Accounts /\ lookup[k].profile \in Nat /\ lookup[k].at \in Nat
          /\ lookup[k].at <= clock
      BY <1>0, <2>2 DEF AccountsTyped, LookupRows, Asked, Dated
    <3>2. CASE lookup[k].account # a
      BY <1>0, <1>1, <1>2, <2>2, <3>1, <3>2 DEF Profiles
    <3>3. CASE lookup[k].account = a
      <4>1. lookup[k].profile <= real[a].profile
        BY <1>0, <1>1, <2>2, <3>3 DEF Profiles
      <4>2. real'[a].status = "active" => real'[a].profile >= real[a].profile
        BY <1>2, <1>3
      <4>3. new \in events' /\ new.at > lookup[k].at
        BY <1>1, <1>4, <3>1
      <4> QED BY <1>3, <1>4, <3>1, <3>3, <4>1, <4>2, <4>3
    <3> QED BY <3>2, <3>3
  <2> QED BY <1>0, <1>1, <2>1, <2>2 DEF Profiles, Asked
<1> QED BY <1>5, <1>7, <1>8, <1>9, <1>10, <1>11, <1>12, <1>13 DEF AccountsInductive

LEMMA AnnounceKeeps ==
    ASSUME AccountsInductive, NEW a \in Accounts,
           \/ \E i \in PublicIds : ChangeId(a, i)
           \/ ChangeProfile(a) \/ SignOut(a) \/ RemoveAccess(a) \/ DeleteAccount(a)
    PROVE  AccountsInductive'
<1> USE AccountsAssumption
<1>0. AccountsTyped /\ Living
  BY DEF AccountsInductive
<1>1. /\ real[a].id \in Ids /\ real[a].profile \in Nat /\ real[a].status \in {"active", "deleted"}
      /\ \A b \in Accounts : real[b].id \in Ids
      /\ real[a].id = NoId <=> real[a].status = "deleted"
  BY <1>0 DEF AccountsTyped, RealRows, Living
<1>2. ASSUME NEW i \in PublicIds, ChangeId(a, i) PROVE AccountsInductive'
  <2> DEFINE row == [id |-> i, profile |-> real[a].profile, status |-> real[a].status]
  <2>1. real[a].status = "active" /\ Announce(a, "id_changed", real[a].id) /\ \A b \in Accounts : real[b].id # i
    BY <1>2 DEF ChangeId, Announce, Happens
  <2>2. row \in RealRows /\ row.id = i /\ row.profile = real[a].profile /\ row.status = "active"
    BY <1>1, <2>1 DEF RealRows, Ids
  <2>3. real' = [real EXCEPT ![a] = row]
    BY <1>2 DEF ChangeId
  <2> HIDE DEF row
  <2>4. real' \in [Accounts -> RealRows] /\ real'[a] = row /\ \A b \in Accounts \ {a} : real'[b] = real[b]
    BY <1>0, <2>2, <2>3 DEF AccountsTyped
  <2>5. i # NoId
    OBVIOUS
  <2>6. Worldly(a, "id_changed", real[a].id)
    BY <1>1, <2>1, <2>2, <2>4, <2>5 DEF Worldly
  <2> QED BY <2>6, WorldKeeps DEF EventKinds
<1>3. CASE ChangeProfile(a)
  <2> DEFINE row == [id |-> real[a].id, profile |-> real[a].profile + 1, status |-> real[a].status]
  <2>1. real[a].status = "active" /\ Announce(a, "updated", NoId)
    BY <1>3 DEF ChangeProfile, Announce, Happens
  <2>2. row \in RealRows /\ row.id = real[a].id /\ row.profile = real[a].profile + 1 /\ row.status = "active"
    BY <1>1, <2>1 DEF RealRows
  <2>3. real' = [real EXCEPT ![a] = row]
    BY <1>3 DEF ChangeProfile
  <2> HIDE DEF row
  <2>4. real' \in [Accounts -> RealRows] /\ real'[a] = row /\ \A b \in Accounts \ {a} : real'[b] = real[b]
    BY <1>0, <2>2, <2>3 DEF AccountsTyped
  <2>5. Worldly(a, "updated", NoId)
    BY <1>1, <2>1, <2>2, <2>4 DEF Worldly, Ids
  <2> QED BY <2>5, WorldKeeps DEF EventKinds
<1>4. ASSUME NEW kind \in {"signed_out", "access_removed"}, UNCHANGED real, Announce(a, kind, NoId)
      PROVE  AccountsInductive'
  <2>1. real[a].status = "active"
    BY <1>4 DEF Announce, Happens
  <2>2. Worldly(a, kind, NoId)
    BY <1>0, <1>1, <1>4, <2>1 DEF Worldly, Ids, AccountsTyped
  <2> QED BY <2>2, WorldKeeps DEF EventKinds
<1>5. CASE DeleteAccount(a)
  <2> DEFINE row == [id |-> NoId, profile |-> 0, status |-> "deleted"]
  <2>1. real[a].status = "active" /\ Announce(a, "deleted", NoId)
    BY <1>5 DEF DeleteAccount, Announce, Happens
  <2>2. row \in RealRows /\ row.id = NoId /\ row.profile = 0 /\ row.status = "deleted"
    BY DEF RealRows, Ids
  <2>3. real' = [real EXCEPT ![a] = row]
    BY <1>5 DEF DeleteAccount
  <2> HIDE DEF row
  <2>4. real' \in [Accounts -> RealRows] /\ real'[a] = row /\ \A b \in Accounts \ {a} : real'[b] = real[b]
    BY <1>0, <2>2, <2>3 DEF AccountsTyped
  <2>5. Worldly(a, "deleted", NoId)
    BY <1>1, <2>1, <2>2, <2>4 DEF Worldly, Ids
  <2> QED BY <2>5, WorldKeeps DEF EventKinds
<1> QED BY <1>2, <1>3, <1>4, <1>5 DEF SignOut, RemoveAccess

LEMMA IssueTokenKeeps ==
    ASSUME AccountsInductive, NEW a \in Accounts, IssueToken(a)
    PROVE  AccountsInductive'
<1> USE AccountsAssumption
<1>0. AccountsTyped /\ Dated /\ Living /\ Agree /\ Sighting /\ Endings /\ Heard /\ Profiles /\ Given /\ Removals
  BY DEF AccountsInductive
<1> DEFINE new == [account |-> a, issued |-> clock + 1, id |-> real[a].id]
<1>1. /\ real[a].status = "active" /\ clock' = clock + 1 /\ clock \in Nat
      /\ events' = events /\ tokens' = tokens \union {new} /\ real' = real
      /\ account' = account /\ receipts' = receipts /\ former' = former /\ sighted' = sighted
      /\ outrun' = outrun /\ removals' = removals /\ lookup' = lookup
  BY <1>0 DEF IssueToken, Happens, cacheVars, AccountsTyped
<1>2. real[a].id \in PublicIds
  BY <1>0, <1>1 DEF Living, AccountsTyped, RealRows, Ids
<1>3. new \in TokenRows /\ new.account = a /\ new.issued = clock + 1 /\ new.id = real[a].id
  BY <1>1, <1>2 DEF TokenRows
<1> HIDE DEF new
<1>4. AccountsTyped'
  BY <1>0, <1>1, <1>3 DEF AccountsTyped
<1>5. /\ \A e \in events : e.at \in Nat /\ e.at <= clock
      /\ \A t \in tokens : t.issued \in Nat /\ t.issued > 0 /\ t.issued <= clock
      /\ \A k \in Lookups : Asked(k) => lookup[k].at \in Nat /\ lookup[k].at <= clock
  BY <1>0 DEF AccountsTyped, EventRows, TokenRows, LookupRows, Asked, Dated
<1>6. Dated'
  <2>1. \A e \in events : e.at <= clock + 1 /\ \A f \in events : e.at = f.at => e = f
    BY <1>0, <1>1, <1>5 DEF Dated
  <2>2. \A t \in tokens' : t.issued > 0 /\ t.issued <= clock + 1
    BY <1>1, <1>3, <1>5
  <2> QED BY <1>1, <1>5, <2>1, <2>2 DEF Dated, Asked
<1>7. Living'
  <2>1. ASSUME NEW e \in events, e.kind = "deleted"
        PROVE  \A t \in tokens' : t.account = e.account => t.issued < e.at
    <3>1. e.account # a
      BY <1>0, <1>1, <2>1 DEF Living
    <3> QED BY <1>0, <1>1, <1>3, <2>1, <3>1 DEF Living
  <2> QED BY <1>0, <1>1, <2>1 DEF Living, Asked
<1>8. Agree'
  <2>1. ASSUME NEW b \in Accounts, NEW i \in Ids, NEW t \in Nat, Seen(b, i, t)'
        PROVE  Seen(b, i, t) \/ (i = real'[b].id /\ t = clock + 1)
    <3>1. CASE \E k \in tokens' : k.account = b /\ k.id = i /\ k.issued = t
      BY <1>1, <1>3, <3>1 DEF Seen
    <3> QED BY <1>1, <2>1, <3>1 DEF Seen, Asked
  <2> QED BY <1>1, <2>1, AgreeGoesOn
<1>9. Sighting' /\ Endings'
  <2>1. \A b \in Accounts : account[b].observed \in Nat /\ sighted[b] \in Nat /\ account[b].revoked \in Nat
    BY <1>0 DEF AccountsTyped, AccountRows
  <2> QED BY <1>0, <1>1, <2>1 DEF Sighting, Endings
<1>10. Heard' /\ Given' /\ Removals' /\ Profiles'
  <2>1. Heard' /\ Given' /\ Removals'
    BY <1>0, <1>1 DEF Heard, Given, Removals
  <2>2. Profiles'
    BY <1>0, <1>1 DEF Profiles, Asked
  <2> QED BY <2>1, <2>2
<1> QED BY <1>4, <1>6, <1>7, <1>8, <1>9, <1>10 DEF AccountsInductive

-----------------------------------------------------------------------------
(* The cache takes a step.  What happened is as before, and so is every row *)
(* but one.                                                                 *)

\* What is seen in the cache had been seen, so the sightings agree as before.
LEMMA AgreeStays ==
    ASSUME AccountsInductive, clock' = clock, events' = events,
           \A a \in Accounts, i \in Ids, t \in Nat : Seen(a, i, t)' => Seen(a, i, t)
    PROVE  Agree'
BY DEF AccountsInductive, Agree, Moved

LEMMA SightsOnce ==
    ASSUME AccountsTyped, NEW a \in Accounts, NEW row, NEW at \in Nat, Sights(a, row, at)
    PROVE  /\ sighted' \in [Accounts -> Nat]
           /\ sighted'[a] = IF row.id # account[a].id THEN at ELSE sighted[a]
           /\ \A b \in Accounts \ {a} : sighted'[b] = sighted[b]
BY DEF Sights, AccountsTyped

LEMMA ApplyWebhookKeeps ==
    ASSUME AccountsInductive, NEW e \in events, ApplyWebhook(e)
    PROVE  AccountsInductive'
<1> USE AccountsAssumption
<1>0. AccountsTyped /\ Dated /\ Living /\ Agree /\ Sighting /\ Endings /\ Heard /\ Profiles /\ Given /\ Removals
  BY DEF AccountsInductive
<1> DEFINE a == e.account
           cached == [account[a] EXCEPT !.known = TRUE]
           new == Applied(cached, e)
           \* The same as the row before, but for being known.
           row == account[a]
<1>1. /\ e \notin receipts /\ receipts' = receipts \union {e}
      /\ account' = [account EXCEPT ![a] = new]
      /\ former' = IF e.kind = "id_changed" THEN Replaced(e.was, a, e.at) ELSE former
      /\ removals' = [removals EXCEPT ![a] =
            IF new.status = "access_removed" /\ row.status = "active" THEN @ + 1 ELSE @]
      /\ Sights(a, new, e.at)
      /\ real' = real /\ clock' = clock /\ events' = events /\ tokens' = tokens
      /\ lookup' = lookup /\ outrun' = outrun
  BY DEF ApplyWebhook, Deliver, realVars
<1>2. /\ e \in EventRows /\ a \in Accounts /\ row \in AccountRows /\ e.at \in Nat /\ e.at <= clock /\ clock \in Nat
      /\ e.kind \in EventKinds /\ e.id \in Ids /\ e.was \in Ids /\ e.version \in Nat
  BY <1>0 DEF AccountsTyped, EventRows, Dated
<1>3. /\ cached \in AccountRows /\ cached.id = row.id /\ cached.observed = row.observed /\ cached.status = row.status
      /\ cached.revoked = row.revoked /\ cached.profile = row.profile /\ cached.version = row.version
  BY <1>2 DEF AccountRows
<1>4. /\ row.id \in Ids /\ row.observed \in Nat /\ row.status \in {"active", "access_removed", "deleted"}
      /\ row.revoked \in Nat /\ row.profile \in Nat /\ row.version \in Nat
  BY <1>2 DEF AccountRows
<1>5. /\ new \in AccountRows
      /\ IF Renames(row, e) THEN new.id = e.id /\ new.observed = e.at
         ELSE new.id = row.id /\ new.observed = row.observed
      /\ new.status = IF e.kind = "deleted" THEN "deleted"
                      ELSE IF e.kind = "access_removed" /\ row.status = "active" THEN "access_removed"
                      ELSE row.status
      /\ new.revoked = IF e.kind \in {"signed_out", "access_removed"}
                          \/ (e.kind = "deleted" /\ row.status # "deleted")
                       THEN Later(row.revoked, e.at) ELSE row.revoked
      /\ new.profile = IF e.kind = "updated" /\ row.status # "deleted" /\ row.version < e.version
                       THEN e.version
                       ELSE IF e.kind = "deleted" /\ row.status # "deleted" THEN 0 ELSE row.profile
      /\ new.version = IF e.kind = "updated" /\ row.status # "deleted" /\ row.version < e.version
                       THEN e.version ELSE row.version
  <2>1. PICK o \in AccountRows : o = cached
    BY <1>3
  <2>2. PICK n : n = Applied(o, e)
    OBVIOUS
  <2>3. /\ n \in AccountRows
        /\ IF Renames(o, e) THEN n.id = e.id /\ n.observed = e.at
           ELSE n.id = o.id /\ n.observed = o.observed
        /\ n.status = IF e.kind = "deleted" THEN "deleted"
                        ELSE IF e.kind = "access_removed" /\ o.status = "active" THEN "access_removed"
                        ELSE o.status
        /\ n.revoked = IF e.kind \in {"signed_out", "access_removed"}
                            \/ (e.kind = "deleted" /\ o.status # "deleted")
                         THEN Later(o.revoked, e.at) ELSE o.revoked
        /\ n.profile = IF e.kind = "updated" /\ o.status # "deleted" /\ o.version < e.version
                         THEN e.version
                         ELSE IF e.kind = "deleted" /\ o.status # "deleted" THEN 0 ELSE o.profile
        /\ n.version = IF e.kind = "updated" /\ o.status # "deleted" /\ o.version < e.version
                         THEN e.version ELSE o.version
    BY <1>2, <2>2, AppliedFields
  <2>4. /\ n = new /\ o.id = row.id /\ o.observed = row.observed /\ o.status = row.status
        /\ o.revoked = row.revoked /\ o.profile = row.profile /\ o.version = row.version
    BY <1>3, <2>1, <2>2
  <2> HIDE DEF new, cached, row
  <2>5. Renames(o, e) <=> Renames(row, e)
    BY <2>4 DEF Renames
  <2> QED BY ONLY <2>3, <2>4, <2>5
<1> HIDE DEF new, cached
<1>6. /\ account' \in [Accounts -> AccountRows] /\ account'[a] = new
      /\ \A b \in Accounts \ {a} : account'[b] = account[b]
  BY <1>0, <1>1, <1>2, <1>5 DEF AccountsTyped
<1>7. /\ sighted' \in [Accounts -> Nat]
      /\ sighted'[a] = IF new.id # row.id THEN e.at ELSE sighted[a]
      /\ \A b \in Accounts \ {a} : sighted'[b] = sighted[b]
  BY <1>0, <1>1, <1>2, SightsOnce
<1>8. /\ removals' \in [Accounts -> Nat]
      /\ removals'[a] = IF new.status = "access_removed" /\ row.status = "active" THEN removals[a] + 1 ELSE removals[a]
      /\ \A b \in Accounts \ {a} : removals'[b] = removals[b]
  BY <1>0, <1>1, <1>2 DEF AccountsTyped
<1> HIDE DEF a, row
<1>9. Renames(row, e) => e.id # NoId
  BY <1>0, <1>2 DEF Renames, Living
<1>10. Given' /\ former' \subseteq FormerRows
  <2>1. CASE e.kind # "id_changed"
    BY <1>0, <1>1, <2>1 DEF Given, AccountsTyped
  <2>2. CASE e.kind = "id_changed"
    <3> DEFINE before == {h \in former : h.id = e.was /\ h.account = a}
               at == IF \E h \in before : h.at > e.at THEN (CHOOSE h \in before : TRUE).at ELSE e.at
               last == [id |-> e.was, account |-> a, at |-> at]
    <3>1. former' = (former \ before) \union {last}
      BY <1>1, <2>2 DEF Replaced
    <3>2. at = e.at \/ \E h \in before : h.at = at /\ h.at > e.at
      <4>1. ASSUME NEW h \in before, h.at > e.at PROVE (CHOOSE g \in before : TRUE) = h
        BY <1>0, <4>1 DEF Given
      <4> QED BY <4>1
    <3>3. \A h \in before : at >= h.at
      <4>1. \A h \in before : h \in FormerRows /\ h.at \in Nat
        BY <1>0 DEF AccountsTyped, FormerRows
      <4>2. \A g, h \in before : g = h
        BY <1>0 DEF Given
      <4> QED BY <1>2, <3>2, <4>1, <4>2
    <3>4. at \in Nat /\ at >= e.at
      <4>1. \A h \in before : h \in FormerRows /\ h.at \in Nat
        BY <1>0 DEF AccountsTyped, FormerRows
      <4> QED BY <1>2, <3>2, <4>1
    <3> HIDE DEF at
    <3>5. last \in FormerRows /\ last.id = e.was /\ last.account = a /\ last.at = at
      BY <1>2, <3>4 DEF FormerRows
    <3> HIDE DEF last
    <3>6. former' \subseteq FormerRows
      BY <1>0, <3>1, <3>5 DEF AccountsTyped
    <3>7. ASSUME NEW h \in former'
          PROVE  \E f \in receipts' : f.kind = "id_changed" /\ f.was = h.id /\ f.account = h.account /\ f.at = h.at
      <4>1. CASE h \in former
        BY <1>0, <1>1, <4>1 DEF Given
      <4>2. CASE h = last
        <5>1. CASE at = e.at
          BY <1>1, <2>2, <3>5, <4>2, <5>1 DEF a
        <5>2. CASE at # e.at
          <6>1. PICK g \in before : g.at = at
            BY <3>2, <5>2
          <6>2. PICK f \in receipts : f.kind = "id_changed" /\ f.was = g.id /\ f.account = g.account /\ f.at = g.at
            BY <1>0, <6>1 DEF Given
          <6> QED BY <1>1, <3>5, <4>2, <6>1, <6>2
        <5> QED BY <5>1, <5>2
      <4> QED BY <3>1, <4>1, <4>2
    <3>8. ASSUME NEW f \in receipts', f.kind = "id_changed"
          PROVE  \E h \in former' : h.id = f.was /\ h.account = f.account /\ h.at >= f.at
      <4>1. CASE f = e
        BY <3>1, <3>4, <3>5, <4>1 DEF a
      <4>2. CASE f \in receipts
        <5>1. PICK h \in former : h.id = f.was /\ h.account = f.account /\ h.at >= f.at
          BY <1>0, <3>8, <4>2 DEF Given
        <5>2. CASE h \in before
          <6>1. at >= h.at /\ h.at \in Nat /\ f.at \in Nat
            BY <1>0, <3>3, <4>2, <5>1, <5>2 DEF AccountsTyped, FormerRows, EventRows
          <6> QED BY <3>1, <3>4, <3>5, <5>1, <5>2, <6>1
        <5>3. CASE h \notin before
          BY <3>1, <5>1, <5>3
        <5> QED BY <5>2, <5>3
      <4> QED BY <1>1, <4>1, <4>2
    <3>9. \A g, h \in former' : g.id = h.id /\ g.account = h.account => g = h
      BY <1>0, <3>1, <3>5 DEF Given
    <3> QED BY <3>6, <3>7, <3>8, <3>9 DEF Given
  <2> QED BY <2>1, <2>2
<1>11. AccountsTyped'
  BY <1>0, <1>1, <1>6, <1>7, <1>8, <1>10 DEF AccountsTyped
<1>12. Dated' /\ Living'
  BY <1>0, <1>1 DEF Dated, Living, Asked
<1>13. Agree'
  <2>1. ASSUME NEW b \in Accounts, NEW i \in Ids, NEW t \in Nat, Seen(b, i, t)' PROVE Seen(b, i, t)
    <3>1. CASE b = a /\ account'[b].id # NoId /\ account'[b].id = i
               /\ (t = sighted'[b] \/ (b \notin outrun /\ t = account'[b].observed))
      <4>1. CASE Renames(row, e)
        <5>1. CASE t = e.at
          BY <1>5, <1>6, <3>1, <4>1, <5>1 DEF Seen, a
        <5>2. CASE t # e.at
          <6>1. t = sighted[a] /\ new.id = row.id
            BY <1>5, <1>6, <1>7, <3>1, <4>1, <5>2
          <6> QED BY <1>6, <3>1, <6>1 DEF Seen, row
        <5> QED BY <5>1, <5>2
      <4>2. CASE ~Renames(row, e)
        BY <1>5, <1>6, <1>7, <3>1, <4>2 DEF Seen, row
      <4> QED BY <4>1, <4>2
    <3>2. CASE b # a
      BY <1>1, <1>6, <1>7, <2>1, <3>2 DEF Seen, Asked
    <3> QED BY <1>1, <2>1, <3>1, <3>2 DEF Seen, Asked
  <2> QED BY <1>1, <2>1, AgreeStays
<1>14. Sighting'
  <2>1. sighted[a] <= row.observed /\ row.observed <= clock /\ (row.id = NoId => sighted[a] = 0) /\ sighted[a] \in Nat
    BY <1>0, <1>2 DEF Sighting, row, AccountsTyped
  <2>2. sighted'[a] <= new.observed /\ new.observed <= clock /\ (new.id = NoId => sighted'[a] = 0)
    BY <1>2, <1>4, <1>5, <1>7, <1>9, <2>1 DEF Renames
  <2> QED BY <1>0, <1>1, <1>6, <1>7, <2>2 DEF Sighting
<1>15. /\ row.revoked <= clock /\ (row.status = "deleted" => real[a].status = "deleted")
       /\ e.kind = "deleted" => real[a].status = "deleted" /\ \A f \in events : f.account = a => f.at <= e.at
  BY <1>0, <1>2 DEF Endings, Living, row, a
<1>16. Endings'
  <2>1. /\ new.revoked <= clock /\ (new.status = "deleted" => real[a].status = "deleted")
        /\ new.revoked >= row.revoked /\ new.revoked \in Nat
        /\ row.status = "deleted" => new.status = "deleted"
    BY <1>2, <1>4, <1>5, <1>15 DEF Later
  <2>2. e.kind \in Ending => new.revoked >= e.at
    <3>1. CASE e.kind = "deleted" /\ row.status = "deleted"
      BY <1>0, <1>5, <3>1 DEF Endings, row, a
    <3> QED BY <1>2, <1>4, <1>5, <3>1 DEF Later, Ending
  <2>3. real[a].status = "active" /\ new.revoked # 0 =>
            \E f \in events : f.account = a /\ f.kind \in Ending /\ f.at = new.revoked
    <3>1. row.revoked # 0 /\ real[a].status = "active" =>
             \E f \in events : f.account = a /\ f.kind \in Ending /\ f.at = row.revoked
      BY <1>0, <1>2 DEF Endings, row
    <3>2. new.revoked = row.revoked \/ (new.revoked = e.at /\ e.kind \in Ending)
      BY <1>5 DEF Later, Ending
    <3> QED BY <3>1, <3>2 DEF a
  <2>4. ASSUME NEW f \in receipts', f.kind \in Ending PROVE account'[f.account].revoked >= f.at
    <3>1. CASE f = e
      BY <1>6, <2>2, <2>4, <3>1 DEF a
    <3>2. CASE f # e
      <4>1. f \in receipts /\ f.account \in Accounts /\ f.at \in Nat
        BY <1>0, <1>1, <3>2 DEF AccountsTyped, EventRows
      <4>2. account[f.account].revoked >= f.at
        BY <1>0, <2>4, <4>1 DEF Endings
      <4>3. CASE f.account = a
        <5>1. row.revoked >= f.at
          BY <4>2, <4>3 DEF row
        <5> QED BY <1>4, <1>6, <2>1, <4>1, <4>3, <5>1
      <4> QED BY <1>6, <4>1, <4>2, <4>3
    <3> QED BY <3>1, <3>2
  <2>5. ASSUME NEW f \in receipts', f.kind = "deleted" PROVE account'[f.account].status = "deleted"
    <3>1. CASE f = e
      BY <1>5, <1>6, <2>5, <3>1 DEF a
    <3>2. CASE f # e
      <4>1. f \in receipts /\ f.account \in Accounts /\ account[f.account].status = "deleted"
        BY <1>0, <1>1, <2>5, <3>2 DEF AccountsTyped, EventRows, Endings
      <4> QED BY <1>6, <2>1, <4>1 DEF row
    <3> QED BY <3>1, <3>2
  <2>6. ASSUME NEW f \in events, f.kind = "deleted", account'[f.account].status = "deleted"
        PROVE  account'[f.account].revoked >= f.at
    <3>0. f.account \in Accounts /\ f.at \in Nat
      BY <1>0 DEF AccountsTyped, EventRows
    <3>1. CASE f.account = a
      <4>1. CASE row.status = "deleted"
        <5>1. row.revoked >= f.at
          BY <1>0, <2>6, <3>1, <4>1 DEF Endings, row
        <5> QED BY <1>4, <1>6, <2>1, <3>0, <3>1, <5>1
      <4>2. CASE row.status # "deleted"
        <5>1. e.kind = "deleted"
          BY <1>5, <1>6, <2>6, <3>1, <4>2
        <5>2. new.revoked >= e.at /\ f.at <= e.at
          BY <1>15, <2>2, <3>1, <5>1 DEF Ending
        <5> QED BY <1>2, <1>6, <2>1, <3>0, <3>1, <5>2
      <4> QED BY <4>1, <4>2
    <3> QED BY <1>0, <1>6, <2>6, <3>0, <3>1 DEF Endings
  <2>7. ASSUME NEW b \in Accounts
        PROVE  /\ account'[b].revoked <= clock
               /\ account'[b].status = "deleted" => real[b].status = "deleted"
               /\ real[b].status = "active" /\ account'[b].revoked # 0 =>
                    \E f \in events : f.account = b /\ f.kind \in Ending /\ f.at = account'[b].revoked
    <3>1. CASE b = a
      BY <1>6, <2>1, <2>3, <3>1
    <3> QED BY <1>0, <1>6, <3>1 DEF Endings
  <2> QED BY <1>1, <2>4, <2>5, <2>6, <2>7 DEF Endings
<1>17. Heard'
  <2>1. new.observed >= row.observed /\ (e.kind = "id_changed" => new.observed >= e.at)
    BY <1>2, <1>4, <1>5 DEF Renames
  <2>2. /\ new.version >= row.version /\ (row.status = "deleted" => new.status = "deleted")
        /\ e.kind = "updated" /\ new.status # "deleted" => new.version >= e.version
        /\ new.version \in Nat /\ new.observed \in Nat
    BY <1>2, <1>4, <1>5
  <2>3. ASSUME NEW f \in receipts'
        PROVE  /\ f.kind = "id_changed" => account'[f.account].observed >= f.at
               /\ f.kind = "updated" /\ account'[f.account].status # "deleted" =>
                   account'[f.account].version >= f.version
    <3>1. CASE f = e
      BY <1>6, <2>1, <2>2, <3>1 DEF a
    <3>2. CASE f # e
      <4>1. f \in receipts /\ f.account \in Accounts /\ f.at \in Nat /\ f.version \in Nat
        BY <1>0, <1>1, <3>2 DEF AccountsTyped, EventRows
      <4>2. /\ f.kind = "id_changed" => account[f.account].observed >= f.at
            /\ f.kind = "updated" /\ account[f.account].status # "deleted" => account[f.account].version >= f.version
        BY <1>0, <4>1 DEF Heard
      <4>3. CASE f.account = a
        <5>1. /\ f.kind = "id_changed" => row.observed >= f.at
              /\ f.kind = "updated" /\ row.status # "deleted" => row.version >= f.version
          BY <4>2, <4>3 DEF row
        <5> QED BY <1>4, <1>6, <2>1, <2>2, <4>1, <4>3, <5>1
      <4> QED BY <1>6, <4>1, <4>2, <4>3
    <3> QED BY <3>1, <3>2
  <2> QED BY <2>3 DEF Heard
<1>18. Profiles'
  <2>1. real[a].status = "active" =>
          /\ row.profile <= real[a].profile /\ row.version <= real[a].profile /\ e.version <= real[a].profile
          /\ a \notin outrun /\ (row.version = real[a].profile \/ real[a].profile = 1) =>
                row.profile \in {0, real[a].profile}
    BY <1>0, <1>2 DEF Profiles, row, a
  <2>2. real[a].profile \in Nat /\ (real[a].status = "active" => real[a].profile >= 1)
    BY <1>0, <1>2 DEF AccountsTyped, RealRows, Profiles
  <2>3. real[a].status = "active" =>
          /\ new.profile <= real[a].profile /\ new.version <= real[a].profile
          /\ a \notin outrun /\ (new.version = real[a].profile \/ real[a].profile = 1) =>
                new.profile \in {0, real[a].profile}
    BY <1>2, <1>4, <1>5, <2>1, <2>2
  <2>4. a \notin outrun /\ new.status = "deleted" => new.profile = 0
    <3>1. a \notin outrun /\ row.status = "deleted" => row.profile = 0
      BY <1>0, <1>2 DEF Profiles, row
    <3> QED BY <1>5, <3>1
  <2>5. \A b \in Accounts \ outrun : account'[b].status = "deleted" => account'[b].profile = 0
    BY <1>0, <1>6, <2>4 DEF Profiles
  <2>6. ASSUME NEW b \in Accounts, real[b].status = "active"
        PROVE  /\ account'[b].profile <= real[b].profile /\ account'[b].version <= real[b].profile
               /\ b \notin outrun /\ (account'[b].version = real[b].profile \/ real[b].profile = 1) =>
                    account'[b].profile \in {0, real[b].profile}
    <3>1. CASE b = a
      BY <1>6, <2>3, <2>6, <3>1
    <3> QED BY <1>0, <1>6, <2>6, <3>1 DEF Profiles
  <2> QED BY <1>0, <1>1, <2>5, <2>6 DEF Profiles, Asked
<1>19. Removals'
  <2> DEFINE Says(b) == {f \in receipts : f.account = b /\ f.kind = "access_removed"}
  <2>1. \A b \in Accounts : IsFiniteSet(Says(b)) /\ removals[b] <= Cardinality(Says(b)) /\ removals[b] \in Nat
    <3>1. \A b \in Accounts : Says(b) \subseteq events
      BY <1>0 DEF AccountsTyped
    <3> QED BY <1>0, <3>1, FS_Subset DEF AccountsTyped, Removals
  <2>2. \A b \in Accounts : Cardinality(Says(b)) \in Nat
    BY <2>1, FS_CardinalityType
  <2>3. ASSUME NEW b \in Accounts
        PROVE  removals'[b] <= Cardinality({f \in receipts' : f.account = b /\ f.kind = "access_removed"})
    <3>1. CASE b = a /\ e.kind = "access_removed"
      <4>1. {f \in receipts' : f.account = b /\ f.kind = "access_removed"} = Says(b) \union {e}
        BY <1>1, <3>1 DEF a
      <4>2. Cardinality(Says(b) \union {e}) = Cardinality(Says(b)) + 1
        <5>1. PICK heard : heard = Says(b)
          OBVIOUS
        <5>2. e \notin heard /\ IsFiniteSet(heard)
          BY <1>1, <2>1, <5>1
        <5>3. Cardinality(heard \union {e}) = Cardinality(heard) + 1
          BY <5>2, FS_AddElement
        <5> QED BY <5>1, <5>3
      <4>3. removals'[a] = removals[a] \/ removals'[a] = removals[a] + 1
        BY <1>8
      <4>4. removals[b] <= Cardinality(Says(b)) /\ removals[b] \in Nat /\ Cardinality(Says(b)) \in Nat
        BY <2>1, <2>2
      <4>5. PICK n \in Nat : n = Cardinality(Says(b))
        BY <4>4
      <4>6. removals'[b] <= n + 1
        BY <3>1, <4>3, <4>4, <4>5
      <4> QED BY <4>1, <4>2, <4>5, <4>6
    <3>2. CASE ~(b = a /\ e.kind = "access_removed")
      <4>1. {f \in receipts' : f.account = b /\ f.kind = "access_removed"} = Says(b)
        BY <1>1, <3>2 DEF a
      <4>2. removals'[b] = removals[b]
        BY <1>5, <1>8, <3>2
      <4> QED BY <2>1, <4>1, <4>2
    <3> QED BY <3>1, <3>2
  <2> QED BY <2>3 DEF Removals
<1> QED BY <1>10, <1>11, <1>12, <1>13, <1>14, <1>16, <1>17, <1>18, <1>19 DEF AccountsInductive

LEMMA ObserveTokenKeeps ==
    ASSUME AccountsInductive, NEW t \in tokens, ObserveToken(t)
    PROVE  AccountsInductive'
<1> USE AccountsAssumption
<1>0. AccountsTyped /\ Dated /\ Living /\ Agree /\ Sighting /\ Endings /\ Heard /\ Profiles /\ Given /\ Removals
  BY DEF AccountsInductive
<1> DEFINE a == t.account
           row == account[a]
           new == Observed(row, t)
<1>1. /\ account' = [account EXCEPT ![a] = new] /\ Sights(a, new, t.issued)
      /\ real' = real /\ clock' = clock /\ events' = events /\ tokens' = tokens
      /\ lookup' = lookup /\ receipts' = receipts /\ former' = former /\ outrun' = outrun
      /\ removals' = removals
  BY DEF ObserveToken, realVars
<1>2. /\ t \in TokenRows /\ a \in Accounts /\ row \in AccountRows /\ t.issued \in Nat /\ t.issued <= clock
      /\ t.id \in PublicIds /\ t.id \in Ids /\ clock \in Nat
  BY <1>0 DEF AccountsTyped, TokenRows, Dated, Ids
<1>3. /\ row.id \in Ids /\ row.observed \in Nat /\ row.status \in {"active", "access_removed", "deleted"}
      /\ row.revoked \in Nat /\ row.profile \in Nat /\ row.version \in Nat
  BY <1>2 DEF AccountRows
<1>4. PICK r \in AccountRows : r = row
  BY <1>2
<1>5. PICK n : n = new
  OBVIOUS
<1>6. n = Observed(r, t)
  BY <1>4, <1>5
<1>7. /\ n \in AccountRows
      /\ \/ n.id = r.id /\ n.observed = r.observed
         \/ n.id = t.id /\ n.observed = t.issued /\ r.observed < t.issued
      /\ n.status = r.status \/ (r.status = "access_removed" /\ n.status = "active")
      /\ n.revoked = r.revoked /\ n.profile = r.profile /\ n.version = r.version
  BY <1>2, <1>6, ObservedFields
<1> HIDE DEF new
<1>8. /\ account' \in [Accounts -> AccountRows] /\ account'[a] = n
      /\ \A b \in Accounts \ {a} : account'[b] = account[b]
  BY <1>0, <1>1, <1>2, <1>5, <1>7 DEF AccountsTyped
<1>9. /\ sighted' \in [Accounts -> Nat]
      /\ sighted'[a] = IF n.id # r.id THEN t.issued ELSE sighted[a]
      /\ \A b \in Accounts \ {a} : sighted'[b] = sighted[b]
  BY <1>0, <1>1, <1>2, <1>4, <1>5, SightsOnce
<1> HIDE DEF a, row
<1>10. /\ r = account[a] /\ t.account = a
       /\ \A b \in Accounts :
            /\ account'[b].observed >= account[b].observed /\ account[b].observed \in Nat
            /\ account'[b].observed \in Nat
            /\ account'[b].revoked = account[b].revoked /\ account'[b].profile = account[b].profile
            /\ account'[b].version = account[b].version
            /\ account'[b].status = "deleted" <=> account[b].status = "deleted"
  <2>1. r = account[a] /\ t.account = a
    BY <1>4 DEF row, a
  <2>2. \A b \in Accounts : account[b].observed \in Nat /\ account'[b].observed \in Nat
    BY <1>0, <1>8 DEF AccountsTyped, AccountRows
  <2>3. n.observed >= r.observed
    BY <1>2, <1>7, <2>1, <2>2
  <2> QED BY <1>7, <1>8, <2>1, <2>2, <2>3
<1>11. AccountsTyped'
  BY <1>0, <1>1, <1>8, <1>9 DEF AccountsTyped
<1>12. Dated' /\ Living' /\ Given' /\ Removals'
  <2>1. Dated'
    BY <1>0, <1>1 DEF Dated, Asked
  <2>2. Living'
    BY <1>0, <1>1 DEF Living, Asked
  <2>3. Given' /\ Removals'
    BY <1>0, <1>1 DEF Given, Removals
  <2> QED BY <2>1, <2>2, <2>3
<1>13. Agree'
  <2>1. ASSUME NEW b \in Accounts, NEW i \in Ids, NEW s \in Nat, Seen(b, i, s)' PROVE Seen(b, i, s)
    <3>1. CASE b = a /\ account'[b].id # NoId /\ account'[b].id = i
               /\ (s = sighted'[b] \/ (b \notin outrun /\ s = account'[b].observed))
      <4>1. CASE s = t.issued /\ n.id = t.id
        BY <1>8, <1>10, <3>1, <4>1 DEF Seen
      <4>2. CASE ~(s = t.issued /\ n.id = t.id)
        <5>1. n.id = r.id
          BY <1>7, <1>8, <1>9, <3>1, <4>2
        <5>2. s = sighted[a] \/ (b \notin outrun /\ s = r.observed)
          BY <1>7, <1>8, <1>9, <3>1, <4>2, <5>1
        <5> QED BY <1>8, <1>10, <3>1, <5>1, <5>2 DEF Seen
      <4> QED BY <4>1, <4>2
    <3>2. CASE b # a
      BY <1>1, <1>8, <1>9, <2>1, <3>2 DEF Seen, Asked
    <3> QED BY <1>1, <2>1, <3>1, <3>2 DEF Seen, Asked
  <2> QED BY <1>1, <2>1, AgreeStays
<1>14. Sighting'
  <2>1. /\ sighted[a] <= r.observed /\ r.observed <= clock /\ (r.id = NoId => sighted[a] = 0)
        /\ sighted[a] \in Nat /\ r.observed \in Nat
    BY <1>0, <1>2, <1>10 DEF Sighting, AccountsTyped
  <2>2. sighted'[a] <= n.observed /\ n.observed <= clock /\ (n.id = NoId => sighted'[a] = 0)
    BY <1>2, <1>7, <1>9, <2>1
  <2> QED BY <1>0, <1>1, <1>8, <1>9, <2>2 DEF Sighting
<1>15. Endings'
  <2>1. \A f \in events : f.account \in Accounts
    BY <1>0 DEF AccountsTyped, EventRows
  <2> QED BY <1>0, <1>1, <1>10, <2>1 DEF Endings, AccountsTyped
<1>16. Heard'
  <2>1. ASSUME NEW f \in receipts
        PROVE  /\ f.kind = "id_changed" => account'[f.account].observed >= f.at
               /\ f.kind = "updated" /\ account'[f.account].status # "deleted" =>
                   account'[f.account].version >= f.version
    <3>1. f.account \in Accounts /\ f.at \in Nat
      BY <1>0 DEF AccountsTyped, EventRows
    <3>2. f.kind = "id_changed" => account[f.account].observed >= f.at
      BY <1>0 DEF Heard
    <3> QED BY <1>0, <1>10, <3>1, <3>2 DEF Heard
  <2> QED BY <1>1, <2>1 DEF Heard
<1>17. Profiles'
  BY <1>0, <1>1, <1>10 DEF Profiles, Asked
<1> QED BY <1>11, <1>12, <1>13, <1>14, <1>15, <1>16, <1>17 DEF AccountsInductive

LEMMA LookupRowFields ==
    ASSUME NEW a \in Accounts, NEW kind \in {"summary", "profile", "proof"}, NEW i \in Ids,
           NEW p \in Nat, NEW t \in Nat, NEW row,
           row = [account |-> a, kind |-> kind, id |-> i, profile |-> p, at |-> t]
    PROVE  /\ row \in LookupRows /\ row # NoLookup
           /\ row.account = a /\ row.kind = kind /\ row.id = i /\ row.profile = p /\ row.at = t
BY DEF LookupRows, NoLookup

LEMMA StartLookupKeeps ==
    ASSUME AccountsInductive, NEW k \in Lookups, NEW a \in Accounts,
           NEW kind \in {"summary", "profile", "proof"}, StartLookup(k, a, kind)
    PROVE  AccountsInductive'
<1>0. AccountsTyped /\ Dated /\ Living /\ Agree /\ Sighting /\ Endings /\ Heard /\ Profiles /\ Given /\ Removals
  BY DEF AccountsInductive
<1> DEFINE new == [account |-> a, kind |-> kind, id |-> real[a].id, profile |-> real[a].profile, at |-> clock]
<1>1. /\ lookup' = [lookup EXCEPT ![k] = new]
      /\ kind = "proof" => real[a].status = "active"
      /\ real' = real /\ clock' = clock /\ events' = events /\ tokens' = tokens
      /\ account' = account /\ receipts' = receipts /\ former' = former /\ sighted' = sighted
      /\ outrun' = outrun /\ removals' = removals
  BY DEF StartLookup, realVars, cacheVars
<1>2. real[a].id \in Ids /\ real[a].profile \in Nat /\ clock \in Nat
  BY <1>0 DEF AccountsTyped, RealRows
<1>3. PICK n : n = new
  OBVIOUS
<1>4. /\ n \in LookupRows /\ n # NoLookup
      /\ n.account = a /\ n.kind = kind /\ n.id = real[a].id /\ n.profile = real[a].profile /\ n.at = clock
  BY <1>2, <1>3, LookupRowFields
<1>5. /\ lookup' \in [Lookups -> LookupRows \union {NoLookup}] /\ lookup'[k] = n
      /\ \A l \in Lookups \ {k} : lookup'[l] = lookup[l]
  BY <1>0, <1>1, <1>3, <1>4 DEF AccountsTyped
<1> HIDE DEF new
<1>6. AccountsTyped'
  BY <1>0, <1>1, <1>5 DEF AccountsTyped
<1>7. Dated'
  <2>1. \A l \in Lookups : Asked(l)' => lookup'[l].at <= clock
    BY <1>0, <1>2, <1>4, <1>5 DEF Dated, Asked
  <2> QED BY <1>0, <1>1, <2>1 DEF Dated
<1>8. Living'
  <2>1. \A l \in Lookups : Asked(l)' /\ lookup'[l].id = NoId =>
            real[lookup'[l].account].status = "deleted" /\ lookup'[l].profile = 0
    BY <1>0, <1>4, <1>5 DEF Living, Asked
  <2>2. \A l \in Lookups : Asked(l)' /\ lookup'[l].kind = "proof" => lookup'[l].id # NoId
    BY <1>0, <1>1, <1>4, <1>5 DEF Living, Asked
  <2> QED BY <1>0, <1>1, <2>1, <2>2 DEF Living
<1>9. Agree'
  <2>1. ASSUME NEW b \in Accounts, NEW i \in Ids, NEW t \in Nat, Seen(b, i, t)' PROVE Seen(b, i, t)
    <3>1. ASSUME NEW l \in Lookups, Asked(l)', lookup'[l].account = b, lookup'[l].id = i, lookup'[l].at = t
          PROVE  Seen(b, i, t)
      BY <1>4, <1>5, <3>1 DEF Seen, Asked
    <3> QED BY <1>1, <2>1, <3>1 DEF Seen
  <2> QED BY <1>1, <2>1, AgreeStays
<1>10. Sighting' /\ Endings' /\ Heard' /\ Given' /\ Removals'
  BY <1>0, <1>1 DEF Sighting, Endings, Heard, Given, Removals
<1>11. Profiles'
  <2>1. ASSUME NEW l \in Lookups, Asked(l)'
        PROVE  LET b == lookup'[l].account IN
               /\ real[b].status = "active" => lookup'[l].profile <= real[b].profile
               /\ lookup'[l].profile # real[b].profile =>
                    \E e \in events : e.account = b /\ e.at > lookup'[l].at
    <3>1. CASE l = k
      BY <1>2, <1>4, <1>5, <3>1
    <3>2. CASE l # k
      BY <1>0, <1>5, <2>1, <3>2 DEF Profiles, Asked
    <3> QED BY <3>1, <3>2
  <2> QED BY <1>0, <1>1, <2>1 DEF Profiles
<1> QED BY <1>6, <1>7, <1>8, <1>9, <1>10, <1>11 DEF AccountsInductive

\* An answer that is used or lost leaves the others.
LEMMA LookupEnds ==
    ASSUME AccountsInductive, NEW k \in Lookups, lookup' = [lookup EXCEPT ![k] = NoLookup]
    PROVE  /\ lookup' \in [Lookups -> LookupRows \union {NoLookup}]
           /\ \A l \in Lookups : Asked(l)' => Asked(l) /\ lookup'[l] = lookup[l]
BY DEF AccountsInductive, AccountsTyped, Asked

LEMMA LookupFailsKeeps ==
    ASSUME AccountsInductive, NEW k \in Lookups, LookupFails(k)
    PROVE  AccountsInductive'
<1>0. AccountsTyped /\ Dated /\ Living /\ Agree /\ Sighting /\ Endings /\ Heard /\ Profiles /\ Given /\ Removals
  BY DEF AccountsInductive
<1>1. /\ lookup' = [lookup EXCEPT ![k] = NoLookup]
      /\ real' = real /\ clock' = clock /\ events' = events /\ tokens' = tokens
      /\ account' = account /\ receipts' = receipts /\ former' = former /\ sighted' = sighted
      /\ outrun' = outrun /\ removals' = removals
  BY DEF LookupFails, realVars, cacheVars
<1>2. /\ lookup' \in [Lookups -> LookupRows \union {NoLookup}]
      /\ \A l \in Lookups : Asked(l)' => Asked(l) /\ lookup'[l] = lookup[l]
  BY <1>1, LookupEnds
<1>3. AccountsTyped'
  BY <1>0, <1>1, <1>2 DEF AccountsTyped
<1>4. Dated' /\ Living'
  BY <1>0, <1>1, <1>2 DEF Dated, Living
<1>5. Agree'
  <2>1. ASSUME NEW b \in Accounts, NEW i \in Ids, NEW t \in Nat, Seen(b, i, t)' PROVE Seen(b, i, t)
    BY <1>1, <1>2, <2>1 DEF Seen
  <2> QED BY <1>1, <2>1, AgreeStays
<1>6. Sighting' /\ Endings' /\ Heard' /\ Given' /\ Removals'
  BY <1>0, <1>1 DEF Sighting, Endings, Heard, Given, Removals
<1>7. Profiles'
  BY <1>0, <1>1, <1>2 DEF Profiles
<1> QED BY <1>3, <1>4, <1>5, <1>6, <1>7 DEF AccountsInductive

LEMMA UseLookupKeeps ==
    ASSUME AccountsInductive, NEW k \in Lookups, UseLookup(k)
    PROVE  AccountsInductive'
<1>0. AccountsTyped /\ Dated /\ Living /\ Agree /\ Sighting /\ Endings /\ Heard /\ Profiles /\ Given /\ Removals
  BY DEF AccountsInductive
<1>1. PICK found : found = lookup[k]
  OBVIOUS
<1>2. PICK a : a = found.account
  OBVIOUS
<1>3. PICK r : r = account[a]
  OBVIOUS
<1>4. PICK n : n = Answered(r, found, clock)
  OBVIOUS
<1>5. /\ lookup[k] # NoLookup
      /\ account' = [account EXCEPT ![a] = n] /\ Sights(a, n, found.at)
      /\ outrun' = IF \E e \in events : e.account = a /\ e.at > found.at THEN outrun \union {a} ELSE outrun
      /\ lookup' = [lookup EXCEPT ![k] = NoLookup]
      /\ real' = real /\ clock' = clock /\ events' = events /\ tokens' = tokens
      /\ receipts' = receipts /\ former' = former /\ removals' = removals
  BY <1>1, <1>2, <1>3, <1>4 DEF UseLookup, Answered, realVars
<1>6. /\ found \in LookupRows /\ a \in Accounts /\ r \in AccountRows /\ clock \in Nat
      /\ found.at \in Nat /\ found.at <= clock /\ found.id \in Ids /\ found.profile \in Nat
      /\ Asked(k)
  BY <1>0, <1>1, <1>2, <1>3, <1>5 DEF AccountsTyped, LookupRows, Dated, Asked
<1>7. /\ r.id \in Ids /\ r.observed \in Nat /\ r.status \in {"active", "access_removed", "deleted"}
      /\ r.revoked \in Nat /\ r.profile \in Nat /\ r.version \in Nat
  BY <1>6 DEF AccountRows
<1>8. /\ n \in AccountRows
      /\ \/ n.id = r.id /\ n.observed = r.observed
         \/ n.id = found.id /\ n.observed = clock /\ (found.id # NoId \/ found.kind = "proof")
      /\ n.status = r.status \/ (n.status = "deleted" /\ found.id = NoId)
      /\ n.revoked = r.revoked
         \/ (r.status # "deleted" /\ n.status = "deleted" /\ n.revoked = Later(r.revoked, clock))
      /\ n.status # r.status => n.revoked = Later(r.revoked, clock)
      /\ n.profile = r.profile \/ n.profile = found.profile
         \/ (n.profile = 0 /\ n.status = "deleted" /\ found.id = NoId)
      /\ n.version = r.version \/ (n.version = Later(r.version, found.profile))
      /\ (n.version # r.version \/ n.status # r.status) =>
            n.profile = found.profile \/ (n.profile = 0 /\ n.status = "deleted" /\ found.id = NoId)
  <2>1. PICK now \in Nat : now = clock
    BY <1>6
  <2>2. n = Answered(r, found, now)
    BY <1>4, <2>1
  <2>3. found \in LookupRows /\ r \in AccountRows
    BY <1>6
  <2>4. /\ n \in AccountRows
        /\ \/ n.id = r.id /\ n.observed = r.observed
           \/ n.id = found.id /\ n.observed = now /\ (found.id # NoId \/ found.kind = "proof")
        /\ n.status = r.status \/ (n.status = "deleted" /\ found.id = NoId)
        /\ n.revoked = r.revoked
           \/ (r.status # "deleted" /\ n.status = "deleted" /\ n.revoked = Later(r.revoked, now))
        /\ n.status # r.status => n.revoked = Later(r.revoked, now)
        /\ n.profile = r.profile \/ n.profile = found.profile
           \/ (n.profile = 0 /\ n.status = "deleted" /\ found.id = NoId)
        /\ n.version = r.version \/ (n.version = Later(r.version, found.profile))
        /\ (n.version # r.version \/ n.status # r.status) =>
              n.profile = found.profile \/ (n.profile = 0 /\ n.status = "deleted" /\ found.id = NoId)
    BY ONLY SMTT(60), StoredFields, <2>2, <2>3
  <2> QED BY ONLY <2>1, <2>4
<1>9. /\ account' \in [Accounts -> AccountRows] /\ account'[a] = n /\ n.observed \in Nat
      /\ \A b \in Accounts \ {a} : account'[b] = account[b]
  BY <1>0, <1>5, <1>6, <1>8 DEF AccountsTyped, AccountRows
<1>10. /\ sighted' \in [Accounts -> Nat]
       /\ sighted'[a] = IF n.id # r.id THEN found.at ELSE sighted[a]
       /\ \A b \in Accounts \ {a} : sighted'[b] = sighted[b]
  BY <1>0, <1>3, <1>5, <1>6, SightsOnce
<1>11. /\ lookup' \in [Lookups -> LookupRows \union {NoLookup}]
       /\ \A l \in Lookups : Asked(l)' => Asked(l) /\ lookup'[l] = lookup[l]
  BY <1>5, LookupEnds
<1>12. outrun \subseteq outrun' /\ outrun' \subseteq outrun \union {a}
  BY <1>5
<1>13. /\ found.kind = "proof" => found.id # NoId
       /\ found.id = NoId => real[a].status = "deleted" /\ found.profile = 0
       /\ real[a].status = "active" => found.profile <= real[a].profile
       /\ found.profile # real[a].profile => \E e \in events : e.account = a /\ e.at > found.at
  BY <1>0, <1>1, <1>2, <1>6 DEF Living, Profiles
<1>14. a \notin outrun' => found.profile = real[a].profile /\ found.id = real[a].id
  <2>1. SUFFICES ASSUME a \notin outrun' PROVE found.profile = real[a].profile /\ found.id = real[a].id
    OBVIOUS
  <2>2. ~\E e \in events : e.account = a /\ e.at > found.at
    BY <1>5, <2>1
  <2>3. Seen(a, found.id, found.at) /\ Seen(a, real[a].id, clock) /\ real[a].id \in Ids
    BY <1>0, <1>1, <1>2, <1>6 DEF Seen, AccountsTyped, RealRows
  <2>4. found.id # real[a].id => Moved(a, found.at, clock)
    BY <1>0, <1>6, <2>3 DEF Agree
  <2>5. \A e \in events : e.at \in Nat
    BY <1>0 DEF AccountsTyped, EventRows
  <2> QED BY <1>6, <1>13, <2>2, <2>4, <2>5 DEF Moved
<1>15. AccountsTyped'
  BY <1>0, <1>5, <1>6, <1>9, <1>10, <1>11, <1>12 DEF AccountsTyped
<1>16. Dated' /\ Living'
  <2>1. Dated'
    BY <1>0, <1>5, <1>11 DEF Dated
  <2>2. Living'
    BY <1>0, <1>5, <1>11 DEF Living
  <2> QED BY <2>1, <2>2
<1>17. Agree'
  <2>1. ASSUME NEW b \in Accounts, NEW i \in Ids, NEW s \in Nat, Seen(b, i, s)' PROVE Seen(b, i, s)
    <3>1. CASE b = a /\ account'[b].id # NoId /\ account'[b].id = i
               /\ (s = sighted'[b] \/ (b \notin outrun' /\ s = account'[b].observed))
      <4>1. CASE s = found.at /\ i = found.id
        BY <1>1, <1>2, <1>6, <3>1, <4>1 DEF Seen
      <4>2. CASE s = clock /\ b \notin outrun' /\ i = found.id
        BY <1>14, <3>1, <4>2 DEF Seen
      <4>3. CASE n.id = r.id /\ s = sighted[a]
        BY <1>3, <1>9, <3>1, <4>3 DEF Seen
      <4>4. CASE n.id = r.id /\ b \notin outrun' /\ s = r.observed
        BY <1>3, <1>9, <1>12, <3>1, <4>4 DEF Seen
      <4> QED BY <1>8, <1>9, <1>10, <3>1, <4>1, <4>2, <4>3, <4>4
    <3>2. ASSUME NEW l \in Lookups, Asked(l)', lookup'[l].account = b, lookup'[l].id = i, lookup'[l].at = s
          PROVE  Seen(b, i, s)
      BY <1>11, <3>2 DEF Seen
    <3>3. CASE b # a
      <4>1. account'[b] = account[b] /\ sighted'[b] = sighted[b] /\ (b \in outrun' <=> b \in outrun)
        BY <1>9, <1>10, <1>12, <3>3
      <4> QED BY <1>5, <2>1, <3>2, <4>1 DEF Seen
    <3> QED BY <1>5, <2>1, <3>1, <3>2, <3>3 DEF Seen
  <2> QED BY <1>5, <2>1, AgreeStays
<1>18. Sighting'
  <2>1. /\ sighted[a] <= r.observed /\ r.observed <= clock /\ (r.id = NoId => sighted[a] = 0)
        /\ sighted[a] \in Nat
    BY <1>0, <1>3, <1>6 DEF Sighting, AccountsTyped
  <2>2. sighted'[a] <= n.observed /\ n.observed <= clock /\ (n.id = NoId => sighted'[a] = 0)
    BY <1>6, <1>7, <1>8, <1>10, <1>13, <2>1
  <2> QED BY <1>0, <1>5, <1>9, <1>10, <2>2 DEF Sighting
<1>19. \A b \in Accounts :
         /\ account[b].status = "deleted" => account'[b].status = "deleted"
         /\ account'[b].status = "deleted" => real[b].status = "deleted"
         /\ account'[b].status # account[b].status => account'[b].revoked >= clock
         /\ account'[b].revoked >= account[b].revoked /\ account'[b].revoked <= clock
         /\ real[b].status = "active" => account'[b].revoked = account[b].revoked
         /\ account'[b].version >= account[b].version /\ account'[b].observed >= account[b].observed
         /\ account[b].revoked \in Nat /\ account'[b].revoked \in Nat /\ account[b].version \in Nat
         /\ account'[b].version \in Nat /\ account[b].observed \in Nat /\ account'[b].observed \in Nat
  <2>1. SUFFICES ASSUME NEW b \in Accounts
                 PROVE  /\ account[b].status = "deleted" => account'[b].status = "deleted"
                        /\ account'[b].status = "deleted" => real[b].status = "deleted"
                        /\ account'[b].status # account[b].status => account'[b].revoked >= clock
                        /\ account'[b].revoked >= account[b].revoked /\ account'[b].revoked <= clock
                        /\ real[b].status = "active" => account'[b].revoked = account[b].revoked
                        /\ account'[b].version >= account[b].version /\ account'[b].observed >= account[b].observed
                        /\ account[b].revoked \in Nat /\ account'[b].revoked \in Nat /\ account[b].version \in Nat
                        /\ account'[b].version \in Nat /\ account[b].observed \in Nat /\ account'[b].observed \in Nat
    OBVIOUS
  <2>2. /\ account[b].revoked \in Nat /\ account'[b].revoked \in Nat /\ account[b].version \in Nat
        /\ account'[b].version \in Nat /\ account[b].observed \in Nat /\ account'[b].observed \in Nat
    BY <1>0, <1>9 DEF AccountsTyped, AccountRows
  <2>3. account[b].revoked <= clock /\ (account[b].status = "deleted" => real[b].status = "deleted")
        /\ account[b].observed <= clock
    BY <1>0 DEF Endings, Sighting
  <2>4. CASE b # a
    BY <1>9, <2>2, <2>3, <2>4
  <2>5. CASE b = a
    <3>1. /\ n.revoked \in {r.revoked, Later(r.revoked, clock)} /\ r = account[b] /\ account'[b] = n
          /\ Later(r.revoked, clock) = clock
      BY <1>3, <1>6, <1>7, <1>8, <1>9, <2>3, <2>5 DEF Later
    <3>2. n.version >= r.version
      BY <1>6, <1>7, <1>8 DEF Later
    <3>3. n.observed >= r.observed
      BY <1>6, <1>7, <1>8, <2>3, <3>1
    <3> QED BY <1>6, <1>7, <1>8, <1>13, <2>2, <2>3, <2>5, <3>1, <3>2, <3>3
  <2> QED BY <2>4, <2>5
<1>20. \A e \in events : e \in EventRows /\ e.account \in Accounts /\ e.at \in Nat /\ e.at <= clock /\ e.version \in Nat
  BY <1>0 DEF AccountsTyped, EventRows, Dated
<1>21. Endings'
  <2>1. ASSUME NEW e \in receipts, e.kind \in Ending PROVE account'[e.account].revoked >= e.at
    <3>1. e \in events /\ account[e.account].revoked >= e.at
      BY <1>0, <2>1 DEF Endings, AccountsTyped
    <3>2. e.account \in Accounts /\ e.at \in Nat
      BY <1>20, <3>1
    <3> QED BY <1>19, <3>1, <3>2
  <2>2. ASSUME NEW e \in receipts, e.kind = "deleted" PROVE account'[e.account].status = "deleted"
    BY <1>0, <1>19, <1>20, <2>2 DEF Endings, AccountsTyped
  <2>3. ASSUME NEW e \in events, e.kind = "deleted", account'[e.account].status = "deleted"
        PROVE  account'[e.account].revoked >= e.at
    <3>0. e.account \in Accounts /\ e.at \in Nat /\ e.at <= clock
      BY <1>20
    <3>1. CASE account[e.account].status = "deleted"
      <4>1. account[e.account].revoked >= e.at
        BY <1>0, <2>3, <3>1 DEF Endings
      <4> QED BY <1>19, <3>0, <4>1
    <3>2. CASE account[e.account].status # "deleted"
      <4>1. account'[e.account].revoked >= clock /\ account'[e.account].revoked \in Nat
        BY <1>19, <2>3, <3>0, <3>2
      <4> QED BY <1>6, <3>0, <4>1
    <3> QED BY <3>1, <3>2
  <2>4. \A b \in Accounts : real[b].status = "active" /\ account'[b].revoked # 0 =>
            \E e \in events : e.account = b /\ e.kind \in Ending /\ e.at = account'[b].revoked
    BY <1>0, <1>19 DEF Endings
  <2> QED BY <1>5, <1>19, <2>1, <2>2, <2>3, <2>4 DEF Endings
<1>22. Heard'
  <2>1. ASSUME NEW f \in receipts
        PROVE  /\ f.kind = "id_changed" => account'[f.account].observed >= f.at
               /\ f.kind = "updated" /\ account'[f.account].status # "deleted" =>
                   account'[f.account].version >= f.version
    <3>1. f \in events /\ f.account \in Accounts /\ f.at \in Nat /\ f.version \in Nat
      BY <1>0, <1>20 DEF AccountsTyped
    <3>2. f.kind = "id_changed" => account[f.account].observed >= f.at
      BY <1>0 DEF Heard
    <3>3. f.kind = "updated" /\ account[f.account].status # "deleted" => account[f.account].version >= f.version
      BY <1>0 DEF Heard
    <3>4. f.kind = "id_changed" => account'[f.account].observed >= f.at
      BY <1>19, <3>1, <3>2
    <3>5. f.kind = "updated" /\ account'[f.account].status # "deleted" => account'[f.account].version >= f.version
      BY <1>19, <3>1, <3>3
    <3> QED BY <3>4, <3>5
  <2> QED BY <1>5, <2>1 DEF Heard
<1>23. Profiles'
  <2>1. real[a].status = "active" =>
          /\ r.profile <= real[a].profile /\ r.version <= real[a].profile
          /\ a \notin outrun /\ (r.version = real[a].profile \/ real[a].profile = 1) =>
                r.profile \in {0, real[a].profile}
    BY <1>0, <1>3, <1>6 DEF Profiles
  <2>2. real[a].profile \in Nat /\ (real[a].status = "deleted" => real[a].profile = 0)
        /\ real[a].status \in {"active", "deleted"}
    BY <1>0, <1>6 DEF AccountsTyped, RealRows, Living
  <2>3. real[a].status = "active" =>
          /\ n.profile <= real[a].profile /\ n.version <= real[a].profile
          /\ a \notin outrun' /\ (n.version = real[a].profile \/ real[a].profile = 1) =>
                n.profile \in {0, real[a].profile}
    <3>1. SUFFICES ASSUME real[a].status = "active"
                   PROVE  /\ n.profile <= real[a].profile /\ n.version <= real[a].profile
                          /\ a \notin outrun' /\ (n.version = real[a].profile \/ real[a].profile = 1) =>
                                n.profile \in {0, real[a].profile}
      OBVIOUS
    <3>2. found.id # NoId /\ n.profile \in {r.profile, found.profile} /\ found.profile <= real[a].profile
      BY <1>8, <1>13, <3>1
    <3>3. n.profile <= real[a].profile
      BY <2>1, <3>1, <3>2
    <3>4. n.version <= real[a].profile
      BY <1>6, <1>7, <1>8, <2>1, <2>2, <3>1, <3>2 DEF Later
    <3>5. ASSUME a \notin outrun', n.version = real[a].profile \/ real[a].profile = 1
          PROVE  n.profile \in {0, real[a].profile}
      <4>1. CASE n.profile = found.profile
        BY <1>14, <3>5, <4>1
      <4>2. CASE n.profile # found.profile
        <5>1. n.profile = r.profile /\ n.version = r.version /\ a \notin outrun
          BY <1>8, <1>12, <3>2, <3>5, <4>2
        <5> QED BY <2>1, <3>1, <3>5, <5>1
      <4> QED BY <4>1, <4>2
    <3> QED BY <3>3, <3>4, <3>5
  <2>4. a \notin outrun' /\ n.status = "deleted" => n.profile = 0
    <3>1. a \notin outrun' /\ r.status = "deleted" => r.profile = 0 /\ real[a].status = "deleted"
      BY <1>0, <1>3, <1>6, <1>12 DEF Profiles, Endings
    <3> QED BY <1>8, <1>13, <1>14, <2>2, <3>1
  <2>5. ASSUME NEW b \in Accounts \ outrun', account'[b].status = "deleted" PROVE account'[b].profile = 0
    <3>1. CASE b = a
      BY <1>9, <2>4, <2>5, <3>1
    <3>2. CASE b # a
      BY <1>0, <1>9, <1>12, <2>5, <3>2 DEF Profiles
    <3> QED BY <3>1, <3>2
  <2>6. ASSUME NEW b \in Accounts, real[b].status = "active"
        PROVE  /\ account'[b].profile <= real[b].profile /\ account'[b].version <= real[b].profile
               /\ b \notin outrun' /\ (account'[b].version = real[b].profile \/ real[b].profile = 1) =>
                    account'[b].profile \in {0, real[b].profile}
    <3>1. CASE b = a
      BY <1>9, <2>3, <2>6, <3>1
    <3>2. CASE b # a
      BY <1>0, <1>9, <1>12, <2>6, <3>2 DEF Profiles
    <3> QED BY <3>1, <3>2
  <2> QED BY <1>0, <1>5, <1>11, <2>5, <2>6 DEF Profiles
<1>24. Given' /\ Removals'
  BY <1>0, <1>5 DEF Given, Removals
<1> QED BY <1>15, <1>16, <1>17, <1>18, <1>21, <1>22, <1>23, <1>24 DEF AccountsInductive

THEOREM AccountsStayInductive == AccountsSpec => []AccountsInductive
<1> USE AccountsAssumption
<1>1. AccountsInit => AccountsInductive
  <2> SUFFICES ASSUME AccountsInit PROVE AccountsInductive
    OBVIOUS
  <2>1. \A a \in Accounts : real[a].id = FirstId[a] /\ real[a].profile = 1 /\ real[a].status = "active"
    BY DEF AccountsInit
  <2>2. Unseen \in AccountRows /\ Unseen.id = NoId /\ Unseen.observed = 0 /\ Unseen.status = "active"
        /\ Unseen.revoked = 0 /\ Unseen.profile = 0 /\ Unseen.version = 0
    BY DEF Unseen, AccountRow, AccountRows, Ids
  <2>3. \A a \in Accounts : FirstId[a] \in PublicIds /\ FirstId[a] # NoId
    OBVIOUS
  <2>4. AccountsTyped
    BY <2>2, <2>3, FS_EmptySet DEF AccountsInit, AccountsTyped, RealRows, Ids
  <2>5. \A k \in Lookups : ~Asked(k)
    BY DEF AccountsInit, Asked
  <2>6. Dated /\ Living /\ Sighting /\ Endings /\ Heard /\ Given /\ Profiles
    BY <2>1, <2>2, <2>3, <2>5
       DEF AccountsInit, Dated, Living, Sighting, Endings, Heard, Given, Profiles
  <2>7. Agree
    BY <2>2, <2>5 DEF AccountsInit, Agree, Seen
  <2>8. Removals
    BY FS_EmptySet DEF AccountsInit, Removals
  <2> QED BY <2>4, <2>6, <2>7, <2>8 DEF AccountsInductive
<1>2. AccountsInductive /\ [AccountsNext]_accountsVars => AccountsInductive'
  <2> SUFFICES ASSUME AccountsInductive, [AccountsNext]_accountsVars PROVE AccountsInductive'
    OBVIOUS
  <2>1. CASE UNCHANGED accountsVars
    BY <2>1 DEF accountsVars, realVars, cacheVars, AccountsInductive, AccountsTyped, Dated, Living, Agree, Seen,
       Moved, Asked, Sighting, Endings, Heard, Profiles, Given, Removals
  <2> QED BY <2>1, AnnounceKeeps, IssueTokenKeeps, ApplyWebhookKeeps, ObserveTokenKeeps,
             StartLookupKeeps, UseLookupKeeps, LookupFailsKeeps DEF AccountsNext
<1> QED BY <1>1, <1>2, PTL DEF AccountsSpec

-----------------------------------------------------------------------------
(* What a row never takes back. *)

\* What a step may do to a row.
GoesOn(a) ==
    /\ account[a].status = "deleted" => account'[a].status = "deleted"
    /\ account'[a].revoked >= account[a].revoked
    /\ sighted'[a] < sighted[a] => a \in outrun'

LEMMA WebhookGoesOn ==
    ASSUME AccountsInductive, NEW e \in events, ApplyWebhook(e), NEW b \in Accounts
    PROVE  GoesOn(b)
<1>1. PICK a : a = e.account
  OBVIOUS
<1>2. PICK r : r = [account[a] EXCEPT !.known = TRUE]
  OBVIOUS
<1>3. PICK n : n = Applied(r, e)
  OBVIOUS
<1>4. account' = [account EXCEPT ![a] = n] /\ Sights(a, n, e.at)
  BY <1>1, <1>2, <1>3 DEF ApplyWebhook, Deliver
<1>5. /\ AccountsTyped /\ e \in EventRows /\ a \in Accounts /\ e.at \in Nat /\ account[a] \in AccountRows
      /\ sighted[a] <= account[a].observed /\ sighted \in [Accounts -> Nat]
  BY <1>1 DEF AccountsInductive, AccountsTyped, EventRows, Sighting
<1>6. /\ r \in AccountRows /\ r.id = account[a].id /\ r.observed = account[a].observed
      /\ r.status = account[a].status /\ r.revoked = account[a].revoked
      /\ r.observed \in Nat /\ r.revoked \in Nat
  BY <1>2, <1>5 DEF AccountRows
<1>7. /\ r.status = "deleted" => n.status = "deleted"
      /\ n.revoked \in {r.revoked, Later(r.revoked, e.at)}
      /\ n.id = r.id \/ r.observed < e.at
  <2>1. /\ IF Renames(r, e) THEN n.id = e.id /\ n.observed = e.at ELSE n.id = r.id /\ n.observed = r.observed
        /\ n.status = IF e.kind = "deleted" THEN "deleted"
                      ELSE IF e.kind = "access_removed" /\ r.status = "active" THEN "access_removed"
                      ELSE r.status
        /\ n.revoked = IF e.kind \in {"signed_out", "access_removed"} \/ (e.kind = "deleted" /\ r.status # "deleted")
                       THEN Later(r.revoked, e.at) ELSE r.revoked
    BY <1>3, <1>5, <1>6, AppliedFields
  <2> QED BY <2>1 DEF Renames
<1>8. /\ account'[a] = n /\ \A c \in Accounts \ {a} : account'[c] = account[c]
      /\ sighted'[a] = IF n.id # account[a].id THEN e.at ELSE sighted[a]
      /\ \A c \in Accounts \ {a} : sighted'[c] = sighted[c]
  BY <1>4, <1>5, SightsOnce DEF AccountsTyped
<1>9. CASE b = a
  <2>1. n.revoked >= r.revoked
    BY <1>5, <1>6, <1>7 DEF Later
  <2>2. sighted'[a] >= sighted[a] /\ sighted'[a] \in Nat /\ sighted[a] \in Nat
    BY <1>5, <1>6, <1>7, <1>8
  <2> QED BY <1>6, <1>7, <1>8, <1>9, <2>1, <2>2 DEF GoesOn
<1>10. CASE b # a
  <2>1. account[b].revoked \in Nat /\ sighted[b] \in Nat
    BY <1>5 DEF AccountsTyped, AccountRows
  <2> QED BY <1>8, <1>10, <2>1 DEF GoesOn
<1> QED BY <1>9, <1>10

LEMMA TokenGoesOn ==
    ASSUME AccountsInductive, NEW t \in tokens, ObserveToken(t), NEW b \in Accounts
    PROVE  GoesOn(b)
<1>1. PICK a : a = t.account
  OBVIOUS
<1>2. PICK r : r = account[a]
  OBVIOUS
<1>3. PICK n : n = Observed(r, t)
  OBVIOUS
<1>4. account' = [account EXCEPT ![a] = n] /\ Sights(a, n, t.issued)
  BY <1>1, <1>2, <1>3 DEF ObserveToken
<1>5. /\ AccountsTyped /\ t \in TokenRows /\ a \in Accounts /\ t.issued \in Nat /\ r \in AccountRows
      /\ sighted[a] <= r.observed /\ sighted \in [Accounts -> Nat] /\ r.observed \in Nat /\ r.revoked \in Nat
  BY <1>1, <1>2 DEF AccountsInductive, AccountsTyped, TokenRows, Sighting, AccountRows
<1>6. /\ n.id = r.id \/ r.observed < t.issued
      /\ n.status = r.status \/ (r.status = "access_removed" /\ n.status = "active")
      /\ n.revoked = r.revoked
  BY <1>3, <1>5, ObservedFields
<1>7. /\ account'[a] = n /\ \A c \in Accounts \ {a} : account'[c] = account[c]
      /\ sighted'[a] = IF n.id # r.id THEN t.issued ELSE sighted[a]
      /\ \A c \in Accounts \ {a} : sighted'[c] = sighted[c]
  BY <1>2, <1>4, <1>5, SightsOnce DEF AccountsTyped
<1>8. CASE b = a
  <2>1. sighted'[a] >= sighted[a] /\ sighted'[a] \in Nat /\ sighted[a] \in Nat
    BY <1>5, <1>6, <1>7
  <2> QED BY <1>2, <1>5, <1>6, <1>7, <1>8, <2>1 DEF GoesOn
<1>9. CASE b # a
  <2>1. account[b].revoked \in Nat /\ sighted[b] \in Nat
    BY <1>5 DEF AccountsTyped, AccountRows
  <2> QED BY <1>7, <1>9, <2>1 DEF GoesOn
<1> QED BY <1>8, <1>9

\* An answer that says what the account was before the row's id was read has
\* been outrun.
LEMMA LookupGoesOn ==
    ASSUME AccountsInductive, NEW k \in Lookups, UseLookup(k), NEW b \in Accounts
    PROVE  GoesOn(b)
<1>1. PICK found : found = lookup[k]
  OBVIOUS
<1>2. PICK a : a = found.account
  OBVIOUS
<1>3. PICK r : r = account[a]
  OBVIOUS
<1>4. PICK n : n = Answered(r, found, clock)
  OBVIOUS
<1>5. /\ Asked(k) /\ account' = [account EXCEPT ![a] = n] /\ Sights(a, n, found.at)
      /\ outrun' = IF \E e \in events : e.account = a /\ e.at > found.at THEN outrun \union {a} ELSE outrun
  BY <1>1, <1>2, <1>3, <1>4 DEF UseLookup, Answered, Asked
<1>6. /\ AccountsTyped /\ Agree /\ found \in LookupRows /\ a \in Accounts /\ found.at \in Nat /\ found.id \in Ids
      /\ r \in AccountRows /\ clock \in Nat /\ sighted \in [Accounts -> Nat] /\ r.id \in Ids /\ r.revoked \in Nat
      /\ r.id = NoId => sighted[a] = 0
  BY <1>1, <1>2, <1>3, <1>5 DEF AccountsInductive, AccountsTyped, LookupRows, Asked, Sighting, AccountRows
<1>7. /\ n.id = r.id \/ n.id = found.id
      /\ n.status = r.status \/ n.status = "deleted"
      /\ n.revoked = r.revoked \/ n.revoked = Later(r.revoked, clock)
  <2>1. PICK now \in Nat : now = clock
    BY <1>6
  <2>2. n = Answered(r, found, now)
    BY <1>4, <2>1
  <2> HIDE <1>4
  <2> QED BY <1>6, <2>1, <2>2, StoredFields
<1>8. /\ account'[a] = n /\ \A c \in Accounts \ {a} : account'[c] = account[c]
      /\ sighted'[a] = IF n.id # r.id THEN found.at ELSE sighted[a]
      /\ \A c \in Accounts \ {a} : sighted'[c] = sighted[c]
  BY <1>3, <1>5, <1>6, SightsOnce DEF AccountsTyped
<1>9. CASE b = a
  <2>1. n.revoked >= r.revoked
    BY <1>6, <1>7 DEF Later
  <2>2. ASSUME sighted'[a] < sighted[a] PROVE a \in outrun'
    <3>1. n.id # r.id /\ sighted'[a] = found.at /\ r.id # NoId /\ found.at <= sighted[a] /\ sighted[a] \in Nat
      BY <1>6, <1>8, <2>2
    <3>2. Seen(a, found.id, found.at) /\ Seen(a, r.id, sighted[a])
      BY <1>1, <1>2, <1>3, <1>5, <3>1 DEF Seen
    <3>3. Moved(a, found.at, sighted[a])
      BY <1>6, <1>7, <3>1, <3>2 DEF Agree
    <3>4. PICK e \in events : e.account = a /\ found.at < e.at
      BY <3>3 DEF Moved
    <3>5. e.at \in Nat
      BY <1>6 DEF AccountsTyped, EventRows
    <3> QED BY <1>5, <1>6, <3>4, <3>5
  <2> QED BY <1>3, <1>7, <1>8, <1>9, <2>1, <2>2 DEF GoesOn
<1>10. CASE b # a
  <2>1. account[b].revoked \in Nat /\ sighted[b] \in Nat
    BY <1>6 DEF AccountsTyped, AccountRows
  <2> QED BY <1>8, <1>10, <2>1 DEF GoesOn
<1> QED BY <1>9, <1>10

LEMMA RowsGoOn ==
    ASSUME AccountsInductive, [AccountsNext]_accountsVars, NEW b \in Accounts
    PROVE  GoesOn(b)
<1>1. account[b].revoked \in Nat /\ sighted[b] \in Nat
  BY DEF AccountsInductive, AccountsTyped, AccountRows
<1>2. CASE UNCHANGED cacheVars
  BY <1>1, <1>2 DEF cacheVars, GoesOn
<1>3. CASE \E e \in events : ApplyWebhook(e)
  BY <1>3, WebhookGoesOn
<1>4. CASE \E t \in tokens : ObserveToken(t)
  BY <1>4, TokenGoesOn
<1>5. CASE \E k \in Lookups : UseLookup(k)
  BY <1>5, LookupGoesOn
<1> QED BY <1>2, <1>3, <1>4, <1>5
        DEF AccountsNext, accountsVars, ChangeId, ChangeProfile, SignOut, RemoveAccess, DeleteAccount, IssueToken,
            Announce, Happens, StartLookup, LookupFails

\* A deletion is final and an end of sign-ins is never taken back, however old
\* the events, tokens and answers are that come later.
THEOREM EndingsAlwaysStay == AccountsSpec => EndingsStay
<1>1. AccountsInductive /\ [AccountsNext]_accountsVars =>
        [\A a \in Accounts :
            /\ account[a].status = "deleted" => account'[a].status = "deleted"
            /\ account'[a].revoked >= account[a].revoked]_accountsVars
  BY RowsGoOn DEF GoesOn
<1> QED BY <1>1, AccountsStayInductive, PTL DEF AccountsSpec, EndingsStay

\* The cached id is replaced by an older one only by a lookup that the account
\* had outrun, whatever the order of events and tokens.
THEOREM SightingsStayInOrder == AccountsSpec => SightingsInOrderUnlessOvertaken
<1>1. AccountsInductive /\ [AccountsNext]_accountsVars =>
        [\A a \in Accounts : sighted'[a] < sighted[a] => a \in outrun']_accountsVars
  BY RowsGoOn DEF GoesOn
<1> QED BY <1>1, AccountsStayInductive, PTL DEF AccountsSpec, SightingsInOrderUnlessOvertaken

-----------------------------------------------------------------------------
(* What a request sees of the events. *)

LEMMA TokensFollowEvents ==
    ASSUME AccountsInductive
    PROVE  EndedTokensRefused /\ NewSignInsServed
<1>0. AccountsTyped /\ Dated /\ Living /\ Endings
  BY DEF AccountsInductive
<1>1. ASSUME NEW t \in tokens
      PROVE  /\ t \in TokenRows /\ t.account \in Accounts /\ t.issued \in Nat /\ t.issued > 0
             /\ account[t.account] \in AccountRows /\ account[t.account].revoked \in Nat
             /\ Observed(account[t.account], t).revoked = account[t.account].revoked
             /\ account[t.account].status # "deleted" => Observed(account[t.account], t).status # "deleted"
  <2>1. t \in TokenRows /\ t.account \in Accounts /\ t.issued \in Nat /\ t.issued > 0
    BY <1>0 DEF AccountsTyped, TokenRows, Dated
  <2>2. PICK r \in AccountRows : r = account[t.account]
    BY <1>0, <2>1 DEF AccountsTyped
  <2>3. PICK n : n = Observed(r, t)
    OBVIOUS
  <2>4. n.status = r.status \/ (r.status = "access_removed" /\ n.status = "active")
    BY <2>1, <2>3, ObservedFields
  <2>5. n.revoked = r.revoked
    BY <2>1, <2>3, ObservedFields
  <2>6. r.revoked \in Nat
    BY DEF AccountRows
  <2> QED BY <2>1, <2>2, <2>3, <2>4, <2>5, <2>6
<1>2. EndedTokensRefused
  <2>1. SUFFICES ASSUME NEW e \in receipts, NEW t \in tokens,
                        e.kind \in Ending, e.account = t.account, t.issued < e.at
                 PROVE  ~Served(t)
    BY DEF EndedTokensRefused
  <2>2. account[t.account].revoked >= e.at /\ e.at \in Nat
    BY <1>0, <2>1 DEF Endings, AccountsTyped, EventRows
  <2>3. t.issued <= account[t.account].revoked
    BY <1>1, <2>1, <2>2
  <2> QED BY <1>1, <2>3 DEF Served
<1>3. NewSignInsServed
  <2>1. SUFFICES ASSUME NEW t \in tokens,
                        \A e \in events : e.kind \in Ending /\ e.account = t.account => e.at < t.issued
                 PROVE  Served(t)
    BY DEF NewSignInsServed
  <2>2. \A e \in events : e.at \in Nat
    BY <1>0 DEF AccountsTyped, EventRows
  <2>3. real[t.account].status = "active"
    <3>1. SUFFICES ASSUME real[t.account].status = "deleted" PROVE FALSE
      BY <1>0, <1>1 DEF AccountsTyped, RealRows
    <3>2. PICK e \in events : e.account = t.account /\ e.kind = "deleted"
      BY <1>0, <1>1, <3>1 DEF Living
    <3>3. t.issued < e.at
      BY <1>0, <3>2 DEF Living
    <3> QED BY <1>1, <2>1, <2>2, <3>2, <3>3 DEF Ending
  <2>4. account[t.account].status # "deleted"
    BY <1>0, <1>1, <2>3 DEF Endings
  <2>5. account[t.account].revoked < t.issued
    <3>1. CASE account[t.account].revoked = 0
      BY <1>1, <3>1
    <3>2. CASE account[t.account].revoked # 0
      BY <1>0, <1>1, <2>1, <2>3, <3>2 DEF Endings
    <3> QED BY <3>1, <3>2
  <2>6. ~(t.issued <= account[t.account].revoked)
    BY <1>1, <2>5
  <2> QED BY <1>1, <2>4, <2>6 DEF Served
<1> QED BY <1>2, <1>3

LEMMA RemovalsFollowEvents ==
    ASSUME AccountsInductive
    PROVE  RemovalsAnnounced
<1>1. SUFFICES ASSUME NEW a \in Accounts
               PROVE  removals[a] <= Cardinality({e \in events : e.account = a /\ e.kind = "access_removed"})
  BY DEF RemovalsAnnounced
<1> DEFINE Heard1 == {e \in receipts : e.account = a /\ e.kind = "access_removed"}
           Said == {e \in events : e.account = a /\ e.kind = "access_removed"}
<1>2. removals[a] <= Cardinality(Heard1) /\ removals[a] \in Nat /\ Heard1 \subseteq Said
      /\ Said \subseteq events /\ IsFiniteSet(events)
  BY DEF AccountsInductive, AccountsTyped, Removals
<1> HIDE DEF Heard1, Said
<1>3. IsFiniteSet(Said)
  BY <1>2, FS_Subset
<1>4. /\ IsFiniteSet(Heard1) /\ Cardinality(Heard1) <= Cardinality(Said)
      /\ Cardinality(Heard1) \in Nat /\ Cardinality(Said) \in Nat
  BY <1>2, <1>3, FS_Subset, FS_CardinalityType
<1>5. removals[a] <= Cardinality(Said)
  BY <1>2, <1>4
<1> QED BY <1>5 DEF Said

LEMMA CacheTellsTheTruth ==
    ASSUME AccountsInductive
    PROVE  CacheConverges
<1>0. AccountsTyped /\ Dated /\ Living /\ Agree /\ Sighting /\ Endings /\ Heard /\ Profiles
  BY DEF AccountsInductive
<1>1. SUFFICES ASSUME NEW a \in Accounts \ outrun, AllHeard(a)
               PROVE  /\ account[a].status = "deleted" <=> real[a].status = "deleted"
                      /\ real[a].status = "active" => account[a].id \in {real[a].id, NoId}
                      /\ account[a].profile \in {real[a].profile, 0}
  BY DEF CacheConverges
<1>2. /\ real[a].id \in Ids /\ real[a].status \in {"active", "deleted"} /\ real[a].profile \in Nat
      /\ account[a].id \in Ids /\ account[a].observed \in Nat /\ account[a].profile \in Nat
      /\ account[a].version \in Nat /\ clock \in Nat /\ account[a].observed <= clock
  BY <1>0 DEF AccountsTyped, RealRows, AccountRows, Sighting
<1>3. \A e \in events : e.account = a => e \in receipts
  BY <1>1 DEF AllHeard
<1>4. account[a].status = "deleted" <=> real[a].status = "deleted"
  <2>1. ASSUME real[a].status = "deleted" PROVE account[a].status = "deleted"
    <3>1. PICK e \in events : e.account = a /\ e.kind = "deleted"
      BY <1>0, <2>1 DEF Living
    <3> QED BY <1>0, <1>3, <3>1 DEF Endings
  <2> QED BY <1>0, <2>1 DEF Endings
<1>5. ASSUME real[a].status = "active", account[a].id # NoId, account[a].id # real[a].id PROVE FALSE
  <2>1. Seen(a, account[a].id, account[a].observed) /\ Seen(a, real[a].id, clock)
    BY <1>1, <1>5 DEF Seen
  <2>2. Moved(a, account[a].observed, clock)
    BY <1>0, <1>2, <1>5, <2>1 DEF Agree
  <2>3. PICK e \in events : e.account = a /\ e.kind \in {"id_changed", "deleted"} /\ account[a].observed < e.at
    BY <2>2 DEF Moved
  <2>4. e.kind = "id_changed" /\ e \in receipts /\ e.at \in Nat
    BY <1>0, <1>3, <1>5, <2>3 DEF Living, AccountsTyped, EventRows
  <2>5. account[a].observed >= e.at
    BY <1>0, <2>3, <2>4 DEF Heard
  <2> QED BY <1>2, <2>3, <2>4, <2>5
<1>6. account[a].profile \in {real[a].profile, 0}
  <2>1. CASE real[a].status = "deleted"
    BY <1>0, <1>1, <1>4, <2>1 DEF Profiles
  <2>2. CASE real[a].status = "active"
    <3>1. /\ real[a].profile >= 1 /\ account[a].version <= real[a].profile
          /\ real[a].profile > 1 =>
                \E e \in events : e.account = a /\ e.kind = "updated" /\ e.version = real[a].profile
          /\ (account[a].version = real[a].profile \/ real[a].profile = 1) =>
                account[a].profile \in {0, real[a].profile}
      BY <1>0, <1>1, <2>2 DEF Profiles
    <3>2. CASE real[a].profile = 1
      BY <3>1, <3>2
    <3>3. CASE real[a].profile > 1
      <4>1. PICK e \in events : e.account = a /\ e.kind = "updated" /\ e.version = real[a].profile
        BY <3>1, <3>3
      <4>2. account[a].version >= real[a].profile
        BY <1>0, <1>3, <1>4, <2>2, <4>1 DEF Heard
      <4> QED BY <1>2, <3>1, <4>2
    <3> QED BY <1>2, <3>1, <3>2, <3>3
  <2> QED BY <1>2, <2>1, <2>2
<1> QED BY <1>4, <1>5, <1>6

LEMMA AddressesFollowEvents ==
    ASSUME AccountsInductive
    PROVE  AddressesReachHolders
<1> USE AccountsAssumption
<1>0. AccountsTyped /\ Living /\ Given /\ CacheConverges
  BY CacheTellsTheTruth DEF AccountsInductive
<1>1. SUFFICES ASSUME \A a \in Accounts : AllHeard(a) /\ a \notin outrun, NEW i \in PublicIds
               PROVE  LET given == {e \in events : /\ e.kind = "id_changed" /\ e.was = i
                                                   /\ real[e.account].status = "active"}
                      IN DriveOwner(i) = IF RealHolders(i) # {} THEN RealHolders(i)
                          ELSE {e.account : e \in {g \in given : \A f \in given : f.at <= g.at}}
  BY DEF AddressesReachHolders
<1>2. \A a \in Accounts :
        /\ account[a].status = "deleted" <=> real[a].status = "deleted"
        /\ real[a].status = "active" => account[a].id \in {real[a].id, NoId}
        /\ real[a].status \in {"active", "deleted"}
  BY <1>0, <1>1 DEF CacheConverges, AccountsTyped, RealRows
<1>3. i # NoId /\ Holders(i) \subseteq RealHolders(i)
  BY <1>2 DEF Holders, RealHolders
<1>4. Cardinality(Holders(i)) = 1 => Holders(i) = RealHolders(i) /\ RealHolders(i) # {}
  <2>1. Cardinality(Holders(i)) = 1 => Holders(i) # {}
    <3>1. Cardinality({}) = 0
      BY FS_EmptySet
    <3>2. SUFFICES ASSUME Holders(i) = {} PROVE Cardinality(Holders(i)) # 1
      OBVIOUS
    <3>3. Cardinality(Holders(i)) = 0
      BY <3>1, <3>2, Zenon
    <3> QED BY <3>3
  <2>2. \A a, b \in RealHolders(i) : a = b
    BY <1>0, <1>3 DEF RealHolders, Living
  <2> QED BY <1>3, <2>1, <2>2
<1> DEFINE given == {e \in events : /\ e.kind = "id_changed" /\ e.was = i
                                    /\ real[e.account].status = "active"}
           latest == {e.account : e \in {g \in given : \A f \in given : f.at <= g.at}}
<1>5. \A e \in given : e \in receipts /\ e.account \in Accounts /\ e.at \in Nat
  BY <1>0, <1>1 DEF AccountsTyped, EventRows, AllHeard
<1>6. ASSUME NEW h \in GaveUp(i)
      PROVE  \E e \in given : e.account = h.account /\ e.at = h.at
  <2>1. h \in former /\ h.id = i /\ account[h.account].status # "deleted" /\ h.account \in Accounts
    BY <1>0 DEF GaveUp, AccountsTyped, FormerRows
  <2>2. PICK e \in receipts : e.kind = "id_changed" /\ e.was = h.id /\ e.account = h.account /\ e.at = h.at
    BY <1>0, <2>1 DEF Given
  <2>3. e \in given
    BY <1>0, <1>2, <2>1, <2>2 DEF AccountsTyped
  <2> QED BY <2>2, <2>3
<1>7. ASSUME NEW e \in given
      PROVE  \E h \in GaveUp(i) : h.account = e.account /\ h.at >= e.at
  <2>1. PICK h \in former : h.id = e.was /\ h.account = e.account /\ h.at >= e.at
    BY <1>0, <1>5 DEF Given
  <2> QED BY <1>2, <1>5, <2>1 DEF GaveUp
<1>8. \A h \in GaveUp(i) : h.at \in Nat
  BY <1>0 DEF GaveUp, AccountsTyped, FormerRows
<1>9. LatestGaveUp(i) = latest
  <2>1. ASSUME NEW h \in GaveUp(i), \A f \in GaveUp(i) : f.at <= h.at PROVE h.account \in latest
    <3>1. PICK e \in given : e.account = h.account /\ e.at = h.at
      BY <1>6
    <3>2. ASSUME NEW f \in given PROVE f.at <= e.at
      <4>1. PICK g \in GaveUp(i) : g.account = f.account /\ g.at >= f.at
        BY <1>7
      <4>2. g.at <= h.at /\ g.at \in Nat /\ h.at \in Nat /\ f.at \in Nat
        BY <1>5, <1>8, <2>1
      <4> QED BY <3>1, <4>1, <4>2
    <3> QED BY <3>1, <3>2
  <2>2. ASSUME NEW e \in given, \A f \in given : f.at <= e.at PROVE e.account \in LatestGaveUp(i)
    <3>1. PICK h \in GaveUp(i) : h.account = e.account /\ h.at >= e.at
      BY <1>7
    <3>2. \A f \in GaveUp(i) : f.at <= e.at
      BY <1>6, <2>2
    <3>3. \A f \in GaveUp(i) : f.at <= h.at
      BY <1>5, <1>8, <3>1, <3>2
    <3> QED BY <3>1, <3>3 DEF LatestGaveUp
  <2>3. LatestGaveUp(i) \subseteq latest
    BY <2>1 DEF LatestGaveUp
  <2>4. latest \subseteq LatestGaveUp(i)
    BY <2>2
  <2> QED BY <2>3, <2>4
<1> HIDE DEF latest
<1>10. DriveOwner(i) = IF RealHolders(i) # {} THEN RealHolders(i) ELSE latest
  BY <1>4, <1>9 DEF DriveOwner
<1> QED BY <1>10 DEF latest

\* Tokens and the cached accounts follow what Silicon Accounts announces, in
\* whatever order events, tokens and lookups arrive and however often each does.
THEOREM AccountsAlwaysFollowEvents == AccountsSpec => []AccountsFollowEvents
<1>1. AccountsInductive => AccountsFollowEvents
  BY TokensFollowEvents, RemovalsFollowEvents, CacheTellsTheTruth, AddressesFollowEvents DEF AccountsFollowEvents
<1> QED BY <1>1, AccountsStayInductive, PTL

-----------------------------------------------------------------------------
(* What a host keeps of Silicon Accounts.  The signing keys first: the cached *)
(* ones were all read at one moment, the moment is not before the last        *)
(* attempt at a refresh unless that one failed, and the calls are short.      *)

KeyRequests == [at : {"idle", "stale keys", "unknown key"} \cup Calling,
                key : Keys \cup {"none"}, began : 0..Ever]

KeysTyped ==
    /\ clockNow \in 0..MaxClock
    /\ published \in [Keys -> [from : 0..Ever, until : 0..Ever]]
    /\ keyCache \in [keys : SUBSET Keys, at : 0..Ever]
    /\ attempt \in 0..Ever /\ faulted \in 0..Ever
    /\ verifier \in [Verifiers -> KeyRequests]
    /\ \A v \in Verifiers : verifier[v].at # "idle" => verifier[v].key \in Keys

\* The last attempt failed or was dropped: until it is repeated the keys stay as they are.
AttemptFailed == faulted # Ever /\ faulted >= attempt

\* The cached keys are those published at a time t of the call that fetched them.
KeysReadAt(t) ==
    /\ t <= keyCache.at /\ keyCache.at <= t + Latency
    /\ \A k \in keyCache.keys : t <= published[k].until
    /\ \A k \in Keys \ keyCache.keys : t <= published[k].from \/ published[k].until <= t
    /\ t >= attempt \/ RefreshLocked \/ AttemptFailed

KeysKept ==
    /\ Cached => \E t \in 0..clockNow : KeysReadAt(t)
    /\ attempt # Ever => Cached \/ RefreshLocked \/ AttemptFailed
    /\ \A v \in Verifiers : verifier[v].at \in Calling =>
        verifier[v].began = attempt /\ attempt # Ever /\ clockNow <= attempt + Latency
    /\ keyCache.at <= clockNow \/ keyCache.at = Ever
    /\ attempt <= clockNow \/ attempt = Ever
    /\ faulted <= clockNow \/ faulted = Ever
    /\ ~rushed

KeysInductive == KeysTyped /\ KeysKept

\* The constants are positive numbers.
LEMMA GatewayNumbers ==
    /\ MaxClock \in Nat /\ Ever \in Nat /\ Ever > MaxClock
    /\ \A n \in {MaxAge, Spacing, Latency, AnswerTTL, MemoCapacity, Allowance, Minute} : n \in Nat /\ n > 0
    /\ Latency <= Spacing /\ Spacing <= MaxAge
BY GatewayAssumption DEF GatewayAssumption, Ever

\* A request that is not at a call moves to another stage that is not one.
LEMMA RequestMoves ==
    ASSUME KeysInductive, NEW v \in Verifiers, NEW r \in KeyRequests,
           verifier[v].at \notin Calling, r.at \notin Calling, r.at # "idle" => r.key \in Keys,
           verifier' = [verifier EXCEPT ![v] = r],
           UNCHANGED <<clockNow, published, keyCache, attempt, rushed, faulted>>
    PROVE  KeysInductive'
<1>1. KeysTyped'
  BY DEF KeysInductive, KeysTyped
<1>2. \A w \in Verifiers : verifier'[w].at \in Calling => verifier'[w] = verifier[w]
  BY DEF KeysInductive, KeysTyped
<1>3. RefreshLocked' <=> RefreshLocked
  <2>1. \A w \in Verifiers : w # v => verifier'[w] = verifier[w]
    BY DEF KeysInductive, KeysTyped
  <2>2. verifier'[v] = r
    BY DEF KeysInductive, KeysTyped
  <2> QED BY <2>1, <2>2 DEF RefreshLocked, Calling
<1>4. AttemptFailed' <=> AttemptFailed
  BY DEF AttemptFailed
<1>5. Cached' <=> Cached
  BY DEF Cached, Ever
<1>6. \A t : KeysReadAt(t) => KeysReadAt(t)'
  BY <1>3, <1>4 DEF KeysReadAt
<1>7. KeysKept'
  <2>1. Cached' => \E t \in 0..clockNow' : KeysReadAt(t)'
    BY <1>5, <1>6 DEF KeysInductive, KeysKept
  <2>2. attempt' # Ever => Cached' \/ RefreshLocked' \/ AttemptFailed'
    BY <1>3, <1>4, <1>5 DEF KeysInductive, KeysKept
  <2>3. \A w \in Verifiers : verifier'[w].at \in Calling =>
            verifier'[w].began = attempt' /\ attempt' # Ever /\ clockNow' <= attempt' + Latency
    BY <1>2 DEF KeysInductive, KeysKept
  <2> QED BY <2>1, <2>2, <2>3 DEF KeysInductive, KeysKept, Calling, Ever
<1> QED BY <1>1, <1>7 DEF KeysInductive

\* Keys that come or go after the cached ones were read leave those as they were.
LEMMA KeysRotate ==
    ASSUME KeysInductive, RotateKeys, UNCHANGED clockNow
    PROVE  KeysInductive'
<1>0. clockNow \in Nat /\ clockNow < Ever /\ Ever \in Nat
  BY GatewayNumbers DEF KeysInductive, KeysTyped
<1>1. PICK k \in Keys :
        \/ /\ published[k].from = Ever
           /\ published' = [published EXCEPT ![k] = [from |-> clockNow, until |-> published[k].until]]
        \/ /\ k \in Published \cap FirstKeys
           /\ published' = [published EXCEPT ![k] = [from |-> published[k].from, until |-> clockNow]]
  BY DEF RotateKeys
<1>2. UNCHANGED <<keyCache, attempt, verifier, rushed, faulted>>
  BY DEF RotateKeys
<1>3. /\ \A o \in Keys \ {k} : published'[o] = published[o]
      /\ \/ published'[k].from = clockNow /\ published'[k].until = published[k].until
            /\ published[k].from = Ever
         \/ published'[k].from = published[k].from /\ published'[k].until = clockNow
            /\ published[k].from <= clockNow /\ clockNow < published[k].until
  BY <1>1 DEF KeysInductive, KeysTyped, Published, PublishedAt
<1>4. published' \in [Keys -> [from : 0..Ever, until : 0..Ever]]
  BY <1>0, <1>1 DEF KeysInductive, KeysTyped
<1>5. KeysTyped'
  BY <1>2, <1>4 DEF KeysInductive, KeysTyped, Ever
<1>6. RefreshLocked' = RefreshLocked /\ AttemptFailed' = AttemptFailed /\ Cached' = Cached
  BY <1>2 DEF RefreshLocked, AttemptFailed, Cached, Ever
<1>7. ASSUME NEW t \in 0..clockNow, KeysReadAt(t) PROVE KeysReadAt(t)'
  <2>1. \A o \in Keys : published[o].from \in Nat /\ published[o].until \in Nat
    BY <1>0 DEF KeysInductive, KeysTyped
  <2>2. \A o \in keyCache.keys : t <= published[o].until /\ o \in Keys
    BY <1>7 DEF KeysReadAt, KeysInductive, KeysTyped
  <2>3. \A o \in Keys \ keyCache.keys : t <= published[o].from \/ published[o].until <= t
    BY <1>7 DEF KeysReadAt
  <2>4. t \in Nat /\ t <= clockNow
    BY <1>0
  <2>5. \A o \in keyCache.keys : t <= published'[o].until
    BY <1>0, <1>3, <2>1, <2>2, <2>4
  <2>6. \A o \in Keys \ keyCache.keys : t <= published'[o].from \/ published'[o].until <= t
    BY <1>0, <1>3, <2>1, <2>3, <2>4
  <2>7. keyCache' = keyCache /\ attempt' = attempt
    BY <1>2
  <2> QED BY <1>6, <1>7, <2>5, <2>6, <2>7 DEF KeysReadAt
<1>8. KeysKept'
  <2>1. Cached' => \E t \in 0..clockNow' : KeysReadAt(t)'
    <3> SUFFICES ASSUME Cached PROVE \E t \in 0..clockNow : KeysReadAt(t)'
      BY <1>6
    <3>1. PICK t \in 0..clockNow : KeysReadAt(t)
      BY DEF KeysInductive, KeysKept
    <3> QED BY <1>7, <3>1
  <2>2. attempt' # Ever => Cached' \/ RefreshLocked' \/ AttemptFailed'
    BY <1>2, <1>6 DEF KeysInductive, KeysKept
  <2>3. \A v \in Verifiers : verifier'[v].at \in Calling =>
            verifier'[v].began = attempt' /\ attempt' # Ever /\ clockNow' <= attempt' + Latency
    BY <1>2 DEF KeysInductive, KeysKept
  <2> QED BY <1>2, <2>1, <2>2, <2>3 DEF KeysInductive, KeysKept, Calling, Ever
<1> QED BY <1>5, <1>8 DEF KeysInductive

\* A call begins only when no other is under way, and the last attempt was long ago.
LEMMA CallBegins ==
    ASSUME KeysInductive, NEW v \in Verifiers, NEW stage \in Calling, verifier[v].at # "idle",
           ~RefreshLocked, ~(Cached /\ Throttled), StartFetch(v, stage), UNCHANGED clockNow
    PROVE  KeysInductive'
<1> DEFINE r == Asking(stage, verifier[v].key, clockNow)
<1>0. clockNow \in Nat /\ clockNow < Ever /\ Ever \in Nat /\ Latency \in Nat
  BY GatewayNumbers DEF KeysInductive, KeysTyped
<1>1. /\ attempt' = clockNow /\ verifier' = [verifier EXCEPT ![v] = r]
      /\ ~rushed' /\ UNCHANGED <<published, keyCache, faulted>>
  BY DEF StartFetch, Throttled, KeysInductive, KeysKept
<1>2. verifier[v].key \in Keys
  BY DEF KeysInductive, KeysTyped
<1>3. r \in KeyRequests /\ r.at = stage /\ r.key \in Keys /\ r.began = clockNow
  <2>1. r = [at |-> stage, key |-> verifier[v].key, began |-> clockNow]
    BY DEF Asking
  <2>2. clockNow \in 0..Ever
    BY <1>0
  <2>3. stage \in {"idle", "stale keys", "unknown key"} \cup Calling
    BY DEF Calling
  <2> HIDE DEF r
  <2> QED BY <1>2, <2>1, <2>2, <2>3 DEF KeyRequests
<1> HIDE DEF r
<1>4. KeysTyped'
  BY <1>0, <1>1, <1>3 DEF KeysInductive, KeysTyped, Ever
<1>5. verifier'[v] = r /\ \A w \in Verifiers : w # v => verifier'[w] = verifier[w]
  BY <1>1 DEF KeysInductive, KeysTyped
<1>6. RefreshLocked'
  BY <1>3, <1>5 DEF RefreshLocked, Calling
<1>7. KeysKept'
  <2>1. Cached' => \E t \in 0..clockNow' : KeysReadAt(t)'
    <3> SUFFICES ASSUME Cached PROVE \E t \in 0..clockNow : KeysReadAt(t)'
      BY <1>1 DEF Cached, Ever
    <3>1. PICK t \in 0..clockNow : KeysReadAt(t)
      BY DEF KeysInductive, KeysKept
    <3> QED BY <1>1, <1>6, <3>1 DEF KeysReadAt
  <2>2. ASSUME NEW w \in Verifiers, verifier'[w].at \in Calling'
        PROVE  verifier'[w].began = attempt' /\ attempt' # Ever' /\ clockNow' <= attempt' + Latency
    <3>1. w = v
      BY <1>5, <2>2 DEF RefreshLocked, Calling
    <3> QED BY <1>0, <1>1, <1>3, <1>5, <3>1 DEF Ever
  <2> QED BY <1>0, <1>1, <1>6, <2>1, <2>2 DEF KeysInductive, KeysKept, Ever
<1> QED BY <1>4, <1>7 DEF KeysInductive

\* What a step leaves of one request: the others are where they were.
LEMMA OneRequestMoves ==
    ASSUME KeysInductive, NEW v \in Verifiers, NEW r \in KeyRequests,
           r.at \notin Calling, r.at # "idle" => r.key \in Keys,
           verifier' = [verifier EXCEPT ![v] = r]
    PROVE  /\ verifier' \in [Verifiers -> KeyRequests]
           /\ \A w \in Verifiers : verifier'[w].at # "idle" => verifier'[w].key \in Keys
           /\ \A w \in Verifiers : verifier'[w].at \in Calling => verifier'[w] = verifier[w]
BY DEF KeysInductive, KeysTyped

\* A call that is answered brings the keys of a moment since it began.
LEMMA CallAnswered ==
    ASSUME KeysInductive, NEW v \in Verifiers, NEW r \in KeyRequests, verifier[v].at \in Calling,
           r.at \notin Calling, r.at # "idle" => r.key \in Keys,
           verifier' = [verifier EXCEPT ![v] = r],
           NEW t \in verifier[v].began..clockNow,
           keyCache' = [keys |-> PublishedAt(t), at |-> clockNow], faulted' = Ever,
           UNCHANGED <<clockNow, published, attempt, rushed>>
    PROVE  KeysInductive'
<1>0. clockNow \in Nat /\ clockNow < Ever /\ Ever \in Nat /\ Latency \in Nat
  BY GatewayNumbers DEF KeysInductive, KeysTyped
<1>1. verifier[v].began = attempt /\ attempt # Ever /\ clockNow <= attempt + Latency /\ attempt \in Nat
  BY <1>0 DEF KeysInductive, KeysKept, KeysTyped
<1>2. t \in Nat /\ attempt <= t /\ t <= clockNow
  BY <1>0, <1>1
<1>3. /\ verifier' \in [Verifiers -> KeyRequests]
      /\ \A w \in Verifiers : verifier'[w].at # "idle" => verifier'[w].key \in Keys
      /\ \A w \in Verifiers : verifier'[w].at \in Calling => verifier'[w] = verifier[w]
  BY OneRequestMoves
<1>4. PublishedAt(t) \subseteq Keys
  BY DEF PublishedAt
<1>5. keyCache'.keys = PublishedAt(t) /\ keyCache'.at = clockNow
  OBVIOUS
<1>6. keyCache' \in [keys : SUBSET Keys, at : 0..Ever]
  BY <1>0, <1>4
<1>7. KeysTyped'
  BY <1>0, <1>3, <1>6 DEF KeysInductive, KeysTyped, Ever
<1>8. KeysReadAt(t)'
  <2>1. \A k \in Keys : published[k].from \in Nat /\ published[k].until \in Nat
    BY <1>0 DEF KeysInductive, KeysTyped
  <2>2. \A k \in keyCache'.keys : t <= published'[k].until
    BY <1>2, <1>5, <2>1 DEF PublishedAt
  <2>3. \A k \in Keys \ keyCache'.keys : t <= published'[k].from \/ published'[k].until <= t
    BY <1>2, <1>5, <2>1 DEF PublishedAt
  <2>4. t <= keyCache'.at /\ keyCache'.at <= t + Latency
    BY <1>0, <1>1, <1>2, <1>5
  <2>5. t >= attempt'
    BY <1>1, <1>2
  <2> QED BY <2>2, <2>3, <2>4, <2>5 DEF KeysReadAt
<1>9. KeysKept'
  <2>1. Cached'
    BY <1>0, <1>5 DEF Cached, Ever
  <2>2. \E u \in 0..clockNow' : KeysReadAt(u)'
    BY <1>0, <1>2, <1>8
  <2>3. \A w \in Verifiers : verifier'[w].at \in Calling' =>
            verifier'[w].began = attempt' /\ attempt' # Ever' /\ clockNow' <= attempt' + Latency
    BY <1>3 DEF KeysInductive, KeysKept, Ever, Calling
  <2> QED BY <1>0, <1>5, <2>1, <2>2, <2>3 DEF KeysInductive, KeysKept, Ever
<1> QED BY <1>7, <1>9 DEF KeysInductive

\* A call that fails, or whose request is dropped, leaves the cached keys.
LEMMA CallFails ==
    ASSUME KeysInductive, NEW v \in Verifiers, NEW r \in KeyRequests, verifier[v].at \in Calling,
           r.at \notin Calling, r.at # "idle" => r.key \in Keys,
           verifier' = [verifier EXCEPT ![v] = r],
           faulted' = clockNow,
           UNCHANGED <<clockNow, published, keyCache, attempt, rushed>>
    PROVE  KeysInductive'
<1>0. clockNow \in Nat /\ clockNow < Ever /\ Ever \in Nat /\ Latency \in Nat
  BY GatewayNumbers DEF KeysInductive, KeysTyped
<1>1. attempt # Ever /\ attempt <= clockNow
  BY <1>0 DEF KeysInductive, KeysKept, KeysTyped
<1>3. /\ verifier' \in [Verifiers -> KeyRequests]
      /\ \A w \in Verifiers : verifier'[w].at # "idle" => verifier'[w].key \in Keys
      /\ \A w \in Verifiers : verifier'[w].at \in Calling => verifier'[w] = verifier[w]
  BY OneRequestMoves
<1>4. KeysTyped'
  BY <1>0, <1>3 DEF KeysInductive, KeysTyped, Ever
<1>5. AttemptFailed'
  BY <1>0, <1>1 DEF AttemptFailed, Ever, KeysInductive, KeysTyped
<1>6. KeysKept'
  <2>1. Cached' => \E t \in 0..clockNow' : KeysReadAt(t)'
    <3> SUFFICES ASSUME Cached PROVE \E t \in 0..clockNow : KeysReadAt(t)'
      BY DEF Cached, Ever
    <3>1. PICK t \in 0..clockNow : KeysReadAt(t)
      BY DEF KeysInductive, KeysKept
    <3> QED BY <1>5, <3>1 DEF KeysReadAt
  <2>3. \A w \in Verifiers : verifier'[w].at \in Calling' =>
            verifier'[w].began = attempt' /\ attempt' # Ever' /\ clockNow' <= attempt' + Latency
    BY <1>3 DEF KeysInductive, KeysKept, Ever, Calling
  <2> QED BY <1>0, <1>5, <2>1, <2>3 DEF KeysInductive, KeysKept, Ever
<1> QED BY <1>4, <1>6 DEF KeysInductive

\* Time passes, and no call outlasts Latency.
LEMMA KeysAge ==
    ASSUME KeysInductive, TimePasses
    PROVE  KeysInductive'
<1>0. clockNow \in Nat /\ clockNow < MaxClock /\ clockNow' = clockNow + 1 /\ Latency \in Nat
      /\ MaxClock \in Nat /\ Ever \in Nat
  BY GatewayNumbers DEF KeysInductive, KeysTyped, TimePasses
<1>1. UNCHANGED <<published, keyCache, attempt, verifier, rushed, faulted>>
  BY DEF TimePasses
<1>2. KeysTyped'
  BY <1>0, <1>1 DEF KeysInductive, KeysTyped, Ever
<1>3. RefreshLocked' = RefreshLocked /\ AttemptFailed' = AttemptFailed /\ Cached' = Cached
  BY <1>1 DEF RefreshLocked, AttemptFailed, Cached, Ever
<1>4. \A t \in 0..clockNow : KeysReadAt(t) => KeysReadAt(t)'
  BY <1>1, <1>3 DEF KeysReadAt
<1>5. KeysKept'
  <2>1. Cached' => \E t \in 0..clockNow' : KeysReadAt(t)'
    <3> SUFFICES ASSUME Cached PROVE \E t \in 0..clockNow' : KeysReadAt(t)'
      BY <1>3
    <3>1. PICK t \in 0..clockNow : KeysReadAt(t)
      BY DEF KeysInductive, KeysKept
    <3> QED BY <1>0, <1>4, <3>1
  <2>2. attempt' # Ever' => Cached' \/ RefreshLocked' \/ AttemptFailed'
    BY <1>1, <1>3 DEF KeysInductive, KeysKept, Ever
  <2>3. ASSUME NEW v \in Verifiers, verifier[v].at \in Calling
        PROVE  verifier[v].began = attempt /\ attempt # Ever /\ clockNow + 1 <= attempt + Latency
    <3>1. verifier[v].began = attempt /\ attempt # Ever /\ attempt \in Nat
      BY <1>0, <2>3 DEF KeysInductive, KeysKept, KeysTyped
    <3>2. clockNow < verifier[v].began + Latency
      BY <2>3 DEF TimePasses
    <3> QED BY <1>0, <3>1, <3>2
  <2>4. \A past \in {keyCache.at, attempt, faulted} : past \in Nat
    BY <1>0 DEF KeysInductive, KeysTyped
  <2> QED BY <1>0, <1>1, <2>1, <2>2, <2>3, <2>4 DEF KeysInductive, KeysKept, Ever, Calling
<1> QED BY <1>2, <1>5 DEF KeysInductive

\* What verifies with a key now is not withdrawn, or only just, or cannot be refreshed.
VerifiesRightly(k) ==
    published[k].until # Ever => clockNow < published[k].until + Latency + MaxAge \/ Hindered

\* What is refused with a key now is not published, or only just, or cannot be refreshed.
RefusesRightly(k) ==
    k \in Published => clockNow <= published[k].from + Spacing \/ Hindered

VerdictsRight == WithdrawnKeysExpire /\ PublishedKeysRefusedBriefly

LEMMA VerdictRight ==
    ASSUME \/ verdict' = NoVerdict
           \/ \E k, c : verdict' = Verdict(k, "accepted", c) /\ VerifiesRightly(k)'
           \/ \E k, c : verdict' = Verdict(k, "refused", c) /\ (c \/ RefusesRightly(k)')
           \/ \E k, c : verdict' = Verdict(k, "unavailable", c)
    PROVE  VerdictsRight'
<1>1. CASE verdict' = NoVerdict
  BY <1>1 DEF VerdictsRight, WithdrawnKeysExpire, PublishedKeysRefusedBriefly, NoVerdict, Verdict
<1>2. CASE \E k, c : verdict' = Verdict(k, "accepted", c) /\ VerifiesRightly(k)'
  <2>1. PICK k, c : verdict' = Verdict(k, "accepted", c) /\ VerifiesRightly(k)'
    BY <1>2
  <2>2. verdict'.key = k /\ verdict'.outcome = "accepted"
    BY <2>1 DEF Verdict
  <2> QED BY <2>1, <2>2 DEF VerdictsRight, WithdrawnKeysExpire, PublishedKeysRefusedBriefly, VerifiesRightly
<1>3. CASE \E k, c : verdict' = Verdict(k, "refused", c) /\ (c \/ RefusesRightly(k)')
  <2>1. PICK k, c : verdict' = Verdict(k, "refused", c) /\ (c \/ RefusesRightly(k)')
    BY <1>3
  <2>2. verdict'.key = k /\ verdict'.outcome = "refused" /\ verdict'.cached = c
    BY <2>1 DEF Verdict
  <2> QED BY <2>1, <2>2 DEF VerdictsRight, WithdrawnKeysExpire, PublishedKeysRefusedBriefly, RefusesRightly
<1>4. CASE \E k, c : verdict' = Verdict(k, "unavailable", c)
  BY <1>4 DEF VerdictsRight, WithdrawnKeysExpire, PublishedKeysRefusedBriefly, Verdict
<1> QED BY <1>1, <1>2, <1>3, <1>4

\* The two ways a verification ends its turn.
LEMMA VerifyWithEnds ==
    ASSUME NEW v \in Verifiers, NEW key \in Keys, NEW keys, VerifyWith(v, key, keys)
    PROVE  \E r \in KeyRequests :
            /\ r.at \notin Calling /\ (r.at # "idle" => r.key \in Keys)
            /\ verifier' = [verifier EXCEPT ![v] = r]
            /\ \/ verdict' = NoVerdict
               \/ key \in keys /\ \E c : verdict' = Verdict(key, "accepted", c)
<1>0. 0 \in 0..Ever
  BY GatewayNumbers
<1>1. CASE key \in keys
  <2>1. verifier' = [verifier EXCEPT ![v] = Unasked] /\ \E c : verdict' = Verdict(key, "accepted", c)
    BY <1>1 DEF VerifyWith, Decide
  <2>2. Unasked \in KeyRequests /\ Unasked.at = "idle" /\ "idle" \notin Calling
    BY <1>0 DEF Unasked, Asking, KeyRequests, Calling
  <2> QED BY <1>1, <2>1, <2>2
<1>2. CASE key \notin keys
  <2>1. verifier' = [verifier EXCEPT ![v] = Asking("unknown key", key, 0)] /\ verdict' = NoVerdict
    BY <1>2 DEF VerifyWith, Undecided
  <2>2. /\ Asking("unknown key", key, 0) \in KeyRequests /\ Asking("unknown key", key, 0).key = key
        /\ Asking("unknown key", key, 0).at = "unknown key" /\ "unknown key" \notin Calling
    BY <1>0 DEF Asking, KeyRequests, Calling
  <2> QED BY <2>1, <2>2
<1> QED BY <1>1, <1>2

LEMMA UnaskedIsIdle == Unasked \in KeyRequests /\ Unasked.at = "idle" /\ "idle" \notin Calling
BY GatewayNumbers DEF Unasked, Asking, KeyRequests, Calling

\* A cached key was published when the call that brought it had begun.
LEMMA CachedKeysWerePublished ==
    ASSUME KeysInductive, Cached, NEW k \in keyCache.keys
    PROVE  /\ k \in Keys /\ published[k].until \in Nat /\ keyCache.at \in Nat
           /\ keyCache.at <= published[k].until + Latency
<1>1. PICK t \in 0..clockNow : KeysReadAt(t)
  BY DEF KeysInductive, KeysKept
<1>2. t <= published[k].until /\ keyCache.at <= t + Latency
  BY <1>1 DEF KeysReadAt
<1>3. k \in Keys /\ published[k].until \in 0..Ever /\ keyCache.at \in 0..Ever
  BY DEF KeysInductive, KeysTyped
<1>4. clockNow \in Nat /\ Ever \in Nat /\ Latency \in Nat
  BY GatewayNumbers DEF KeysInductive, KeysTyped
<1> QED BY <1>2, <1>3, <1>4

\* While nobody refreshes them, keys served from the cache are young or cannot be
\* refreshed.
LEMMA CachedKeysVerifyRightly ==
    ASSUME KeysInductive, NEW k \in keyCache.keys,
           KeysFresh \/ (Cached /\ Throttled /\ ~RefreshLocked)
    PROVE  VerifiesRightly(k)
<1>0. /\ clockNow \in Nat /\ Ever \in Nat /\ Latency \in Nat /\ MaxAge \in Nat /\ Spacing \in Nat
      /\ Spacing <= MaxAge /\ clockNow < Ever
  BY GatewayNumbers DEF KeysInductive, KeysTyped
<1>1. Cached
  BY DEF KeysFresh, Within, Cached
<1>2. published[k].until \in Nat /\ keyCache.at \in Nat /\ keyCache.at <= published[k].until + Latency
  BY <1>1, CachedKeysWerePublished
<1>3. CASE KeysFresh
  BY <1>0, <1>2, <1>3 DEF KeysFresh, Within, VerifiesRightly
<1>4. CASE Throttled /\ ~RefreshLocked
  <2>1. attempt # Ever /\ clockNow < attempt + Spacing /\ attempt \in Nat /\ faulted \in Nat
    BY <1>0, <1>4 DEF Throttled, Within, KeysInductive, KeysTyped
  <2>2. CASE AttemptFailed
    BY <1>0, <2>1, <2>2 DEF AttemptFailed, Hindered, VerifiesRightly
  <2>3. CASE ~AttemptFailed
    <3>1. PICK t \in 0..clockNow : KeysReadAt(t)
      BY <1>1 DEF KeysInductive, KeysKept
    <3>2. attempt <= t /\ t <= published[k].until
      BY <1>4, <2>3, <3>1 DEF KeysReadAt
    <3> QED BY <1>0, <1>2, <2>1, <3>1, <3>2 DEF VerifiesRightly
  <2> QED BY <2>2, <2>3
<1> QED BY <1>3, <1>4

\* A key that the last attempt did not bring is one that came since.
LEMMA UnknownKeysRefusedRightly ==
    ASSUME KeysInductive, NEW k \in Keys, k \notin keyCache.keys, Throttled, ~RefreshLocked
    PROVE  RefusesRightly(k)
<1>0. clockNow \in Nat /\ Ever \in Nat /\ Spacing \in Nat /\ clockNow < Ever
  BY GatewayNumbers DEF KeysInductive, KeysTyped
<1>1. attempt # Ever /\ clockNow < attempt + Spacing /\ attempt \in Nat /\ faulted \in Nat
  BY <1>0 DEF Throttled, Within, KeysInductive, KeysTyped
<1>2. CASE AttemptFailed
  BY <1>0, <1>1, <1>2 DEF AttemptFailed, Hindered, RefusesRightly
<1>3. CASE ~AttemptFailed
  <2>1. Cached
    BY <1>1, <1>3 DEF KeysInductive, KeysKept
  <2>2. PICK t \in 0..clockNow : KeysReadAt(t)
    BY <2>1 DEF KeysInductive, KeysKept
  <2>3. attempt <= t /\ (t <= published[k].from \/ published[k].until <= t)
    BY <1>3, <2>2 DEF KeysReadAt
  <2>4. published[k].from \in Nat /\ published[k].until \in Nat
    BY <1>0 DEF KeysInductive, KeysTyped
  <2> QED BY <1>0, <1>1, <2>2, <2>3, <2>4 DEF RefusesRightly, Published, PublishedAt
<1> QED BY <1>2, <1>3

\* A request that waits for no call: served from the cache, or sent on to wait.
LEMMA ServedFromCache ==
    ASSUME KeysInductive, NEW v \in Verifiers, NEW key \in Keys, verifier[v].at \notin Calling,
           KeysFresh \/ (Cached /\ Throttled /\ ~RefreshLocked),
           VerifyWith(v, key, keyCache.keys),
           UNCHANGED <<clockNow, published, keyCache, attempt, rushed, faulted>>
    PROVE  KeysInductive' /\ VerdictsRight'
<1>1. PICK r \in KeyRequests :
        /\ r.at \notin Calling /\ (r.at # "idle" => r.key \in Keys)
        /\ verifier' = [verifier EXCEPT ![v] = r]
        /\ \/ verdict' = NoVerdict
           \/ key \in keyCache.keys /\ \E c : verdict' = Verdict(key, "accepted", c)
  BY VerifyWithEnds
<1>2. KeysInductive'
  BY <1>1, RequestMoves
<1>3. key \in keyCache.keys => VerifiesRightly(key)'
  BY CachedKeysVerifyRightly DEF VerifiesRightly, Hindered, Ever
<1> QED BY <1>1, <1>2, <1>3, VerdictRight

LEMMA TokensVerified ==
    ASSUME KeysInductive, NEW v \in Verifiers, NEW key \in Keys, VerifyToken(v, key), UNCHANGED clockNow
    PROVE  KeysInductive' /\ VerdictsRight'
<1>1. verifier[v].at \notin Calling /\ UNCHANGED <<published, keyCache, attempt, rushed, faulted>>
  BY DEF VerifyToken, Calling
<1>2. CASE KeysFresh
  BY <1>1, <1>2, ServedFromCache DEF VerifyToken
<1>3. CASE ~KeysFresh
  <2>1. verifier' = [verifier EXCEPT ![v] = Asking("stale keys", key, 0)] /\ verdict' = NoVerdict
    BY <1>3 DEF VerifyToken, Undecided
  <2>2. /\ Asking("stale keys", key, 0) \in KeyRequests /\ Asking("stale keys", key, 0).key = key
        /\ Asking("stale keys", key, 0).at \notin Calling
    BY GatewayNumbers DEF Asking, KeyRequests, Calling
  <2>3. KeysInductive'
    BY <1>1, <2>1, <2>2, RequestMoves
  <2> QED BY <2>1, <2>3, VerdictRight
<1> QED BY <1>2, <1>3

LEMMA StaleKeysRefreshed ==
    ASSUME KeysInductive, NEW v \in Verifiers, RefreshStale(v), UNCHANGED clockNow
    PROVE  KeysInductive' /\ VerdictsRight'
<1>1. verifier[v].at = "stale keys" /\ ~RefreshLocked /\ verifier[v].at \notin Calling /\ verifier[v].at # "idle"
  BY DEF RefreshStale, Calling
<1>2. verifier[v].key \in Keys
  BY <1>1 DEF KeysInductive, KeysTyped
<1>3. CASE MayServeCached
  <2>1. KeysFresh \/ (Cached /\ Throttled /\ ~RefreshLocked)
    BY <1>1, <1>3 DEF MayServeCached
  <2>2. /\ VerifyWith(v, verifier[v].key, keyCache.keys)
        /\ UNCHANGED <<published, keyCache, attempt, rushed, faulted>>
    BY <1>3 DEF RefreshStale
  <2> QED BY <1>1, <1>2, <2>1, <2>2, ServedFromCache
<1>4. CASE ~MayServeCached
  <2>1. StartFetch(v, "fetching") /\ "fetching" \in Calling
    BY <1>4 DEF RefreshStale, Calling
  <2>2. ~(Cached /\ Throttled)
    BY <1>4 DEF MayServeCached
  <2>3. verdict' = NoVerdict
    BY <2>1 DEF StartFetch, Undecided
  <2>4. KeysInductive'
    BY <1>1, <2>1, <2>2, CallBegins
  <2> QED BY <2>3, <2>4, VerdictRight
<1> QED BY <1>3, <1>4

LEMMA UnknownKeysRefetched ==
    ASSUME KeysInductive, NEW v \in Verifiers, RefetchForUnknownKey(v), UNCHANGED clockNow
    PROVE  KeysInductive' /\ VerdictsRight'
<1>1. verifier[v].at = "unknown key" /\ ~RefreshLocked /\ verifier[v].at \notin Calling /\ verifier[v].at # "idle"
  BY DEF RefetchForUnknownKey, Calling
<1>2. PICK key \in Keys : key = verifier[v].key
  BY <1>1 DEF KeysInductive, KeysTyped
<1>3. CASE Throttled
  <2>1. /\ verifier' = [verifier EXCEPT ![v] = Unasked]
        /\ verdict' = Verdict(key, "refused", key \in keyCache.keys)
        /\ UNCHANGED <<published, keyCache, attempt, rushed, faulted>>
    BY <1>2, <1>3 DEF RefetchForUnknownKey, Decide
  <2>2. KeysInductive'
    BY <1>1, <2>1, UnaskedIsIdle, RequestMoves
  <2>3. key \in keyCache.keys \/ RefusesRightly(key)'
    <3>1. key \in keyCache.keys \/ RefusesRightly(key)
      BY <1>1, <1>3, UnknownKeysRefusedRightly
    <3> QED BY <2>1, <3>1 DEF RefusesRightly, Published, PublishedAt, Hindered, Ever
  <2> DEFINE c == key \in keyCache.keys
  <2>4. \E d : verdict' = Verdict(key, "refused", d) /\ (d \/ RefusesRightly(key)')
    <3>1. verdict' = Verdict(key, "refused", c) /\ (c \/ RefusesRightly(key)')
      BY <2>1, <2>3
    <3> HIDE DEF c
    <3> QED BY <3>1
  <2> QED BY <2>2, <2>4, VerdictRight
<1>4. CASE ~Throttled
  <2>1. StartFetch(v, "refetching") /\ "refetching" \in Calling
    BY <1>4 DEF RefetchForUnknownKey, Calling
  <2>2. verdict' = NoVerdict
    BY <2>1 DEF StartFetch, Undecided
  <2>3. KeysInductive'
    BY <1>1, <1>4, <2>1, CallBegins
  <2> QED BY <2>2, <2>3, VerdictRight
<1> QED BY <1>3, <1>4

LEMMA AnswersStored ==
    ASSUME KeysInductive, NEW v \in Verifiers, StoreKeys(v), UNCHANGED clockNow
    PROVE  KeysInductive' /\ VerdictsRight'
<1>0. /\ clockNow \in Nat /\ Ever \in Nat /\ Latency \in Nat /\ MaxAge \in Nat /\ Spacing \in Nat
      /\ Latency <= Spacing /\ MaxAge > 0 /\ clockNow < Ever /\ Latency > 0
  BY GatewayNumbers DEF KeysInductive, KeysTyped
<1>1. verifier[v].at \in Calling /\ faulted' = Ever /\ UNCHANGED <<published, attempt, rushed>>
  BY DEF StoreKeys
<1>2. PICK key \in Keys : key = verifier[v].key
  BY <1>1 DEF KeysInductive, KeysTyped, Calling
<1>3. PICK t \in verifier[v].began..clockNow : keyCache' = [keys |-> PublishedAt(t), at |-> clockNow]
  BY DEF StoreKeys
<1>4. keyCache'.keys = PublishedAt(t)
  BY <1>3
<1>5. /\ verifier[v].began \in Nat /\ t \in Nat /\ verifier[v].began <= t /\ t <= clockNow
      /\ clockNow <= t + Latency
  <2>1. verifier[v].began = attempt /\ attempt \in Nat /\ clockNow <= attempt + Latency
    BY <1>0, <1>1 DEF KeysInductive, KeysKept, KeysTyped
  <2> QED BY <1>0, <1>3, <2>1
<1>6. \A k \in Keys : published[k].from \in Nat /\ published[k].until \in Nat
  BY <1>0 DEF KeysInductive, KeysTyped
<1>7. CASE verifier[v].at = "fetching"
  <2>1. VerifyWith(v, key, PublishedAt(t))
    BY <1>2, <1>4, <1>7 DEF StoreKeys
  <2>2. PICK r \in KeyRequests :
          /\ r.at \notin Calling /\ (r.at # "idle" => r.key \in Keys)
          /\ verifier' = [verifier EXCEPT ![v] = r]
          /\ \/ verdict' = NoVerdict
             \/ key \in PublishedAt(t) /\ \E c : verdict' = Verdict(key, "accepted", c)
    BY <2>1, VerifyWithEnds
  <2>3. KeysInductive'
    BY <1>1, <1>3, <2>2, CallAnswered
  <2>4. key \in PublishedAt(t) => VerifiesRightly(key)'
    BY <1>0, <1>1, <1>5, <1>6 DEF VerifiesRightly, PublishedAt
  <2> QED BY <2>2, <2>3, <2>4, VerdictRight
<1>8. CASE verifier[v].at = "refetching"
  <2>1. Decide(v, key, IF key \in PublishedAt(t) THEN "accepted" ELSE "refused")
    BY <1>2, <1>4, <1>8 DEF StoreKeys
  <2>2. verifier' = [verifier EXCEPT ![v] = Unasked]
    BY <2>1 DEF Decide
  <2>3. KeysInductive'
    BY <1>1, <1>3, <2>2, UnaskedIsIdle, CallAnswered
  <2>4. CASE key \in PublishedAt(t)
    <3>1. \E c : verdict' = Verdict(key, "accepted", c)
      BY <2>1, <2>4 DEF Decide
    <3>2. VerifiesRightly(key)'
      BY <1>0, <1>1, <1>5, <1>6, <2>4 DEF VerifiesRightly, PublishedAt
    <3> QED BY <2>3, <3>1, <3>2, VerdictRight
  <2>5. CASE key \notin PublishedAt(t)
    <3>1. \E c : verdict' = Verdict(key, "refused", c)
      BY <2>1, <2>5 DEF Decide
    <3>2. RefusesRightly(key)'
      BY <1>0, <1>1, <1>5, <1>6, <2>5 DEF RefusesRightly, Published, PublishedAt
    <3> QED BY <2>3, <3>1, <3>2, VerdictRight
  <2> QED BY <2>4, <2>5
<1> QED BY <1>1, <1>7, <1>8 DEF Calling

LEMMA FetchFailures ==
    ASSUME KeysInductive, NEW v \in Verifiers, FetchFails(v), UNCHANGED clockNow
    PROVE  KeysInductive' /\ VerdictsRight'
<1>0. clockNow \in Nat /\ Ever \in Nat /\ Spacing \in Nat /\ clockNow < Ever
  BY GatewayNumbers DEF KeysInductive, KeysTyped
<1>1. verifier[v].at \in Calling /\ faulted' = clockNow /\ UNCHANGED <<published, keyCache, attempt, rushed>>
  BY DEF FetchFails
<1>2. PICK key \in Keys : key = verifier[v].key
  BY <1>1 DEF KeysInductive, KeysTyped, Calling
<1>3. Hindered'
  BY <1>0, <1>1 DEF Hindered, Ever
<1>4. VerifiesRightly(key)' /\ RefusesRightly(key)'
  BY <1>3 DEF VerifiesRightly, RefusesRightly
<1>5. CASE verifier[v].at = "refetching" \/ ~Cached
  <2>1. PICK outcome \in {"refused", "unavailable"} : Decide(v, key, outcome)
    BY <1>2, <1>5 DEF FetchFails
  <2>2. verifier' = [verifier EXCEPT ![v] = Unasked] /\ \E c : verdict' = Verdict(key, outcome, c)
    BY <2>1 DEF Decide
  <2>3. KeysInductive'
    BY <1>1, <2>2, UnaskedIsIdle, CallFails
  <2> QED BY <1>4, <2>2, <2>3, VerdictRight
<1>6. CASE verifier[v].at # "refetching" /\ Cached
  <2>1. VerifyWith(v, key, keyCache.keys)
    BY <1>2, <1>6 DEF FetchFails
  <2>2. PICK r \in KeyRequests :
          /\ r.at \notin Calling /\ (r.at # "idle" => r.key \in Keys)
          /\ verifier' = [verifier EXCEPT ![v] = r]
          /\ \/ verdict' = NoVerdict
             \/ key \in keyCache.keys /\ \E c : verdict' = Verdict(key, "accepted", c)
    BY <2>1, VerifyWithEnds
  <2>3. KeysInductive'
    BY <1>1, <2>2, CallFails
  <2> QED BY <1>4, <2>2, <2>3, VerdictRight
<1> QED BY <1>5, <1>6

LEMMA RequestsDropped ==
    ASSUME KeysInductive, NEW v \in Verifiers, DropVerifier(v), UNCHANGED clockNow
    PROVE  KeysInductive' /\ VerdictsRight'
<1>1. /\ verifier' = [verifier EXCEPT ![v] = Unasked] /\ verdict' = NoVerdict
      /\ UNCHANGED <<published, keyCache, attempt, rushed>>
      /\ faulted' = IF verifier[v].at \in Calling THEN clockNow ELSE faulted
  BY DEF DropVerifier, Undecided
<1>2. KeysInductive'
  <2>1. CASE verifier[v].at \in Calling
    BY <1>1, <2>1, UnaskedIsIdle, CallFails
  <2>2. CASE verifier[v].at \notin Calling
    BY <1>1, <2>2, UnaskedIsIdle, RequestMoves
  <2> QED BY <2>1, <2>2
<1> QED BY <1>1, <1>2, VerdictRight

LEMMA KeysStay ==
    ASSUME KeysInductive, KeysNext, UNCHANGED clockNow
    PROVE  KeysInductive' /\ VerdictsRight'
<1>1. CASE RotateKeys
  <2>1. verdict' = NoVerdict
    BY <1>1 DEF RotateKeys, Undecided
  <2> QED BY <1>1, <2>1, KeysRotate, VerdictRight
<1>2. ASSUME NEW v \in Verifiers,
             \/ \E k \in Keys : VerifyToken(v, k)
             \/ RefreshStale(v) \/ RefetchForUnknownKey(v)
             \/ StoreKeys(v) \/ FetchFails(v) \/ DropVerifier(v)
      PROVE  KeysInductive' /\ VerdictsRight'
  BY <1>2, TokensVerified, StaleKeysRefreshed, UnknownKeysRefetched, AnswersStored, FetchFailures, RequestsDropped
<1> QED BY <1>1, <1>2 DEF KeysNext

-----------------------------------------------------------------------------
(* Introspection: an active answer was true when its call was made, and what  *)
(* has been forgotten stays so, but for an answer that crossed.               *)

CheckRecords == [at : {"idle", "calling"}, token : AccessTokens \cup {"none"},
                 began : 0..Ever, answer : {"none", "active", "inactive"}]
Answers == [answer : {"none", "active", "inactive"}, at : 0..Ever]

ChecksTyped ==
    /\ clockNow \in 0..MaxClock
    /\ signedOut \in 0..Ever
    /\ checker \in [Checkers -> CheckRecords]
    /\ \A p \in Checkers : checker[p].at = "calling" => checker[p].token \in AccessTokens
    /\ \A p \in Checkers : checker[p].answer = "active" => checker[p].at = "calling"
    /\ memo \in [AccessTokens -> Answers]

ChecksShort ==
    \A p \in Checkers : checker[p].at = "calling" =>
        checker[p].began <= clockNow /\ clockNow <= checker[p].began + Latency

ActiveWhenAsked ==
    /\ \A p \in Checkers : checker[p].answer = "active" => checker[p].began <= signedOut
    /\ \A t \in AccessTokens : memo[t].answer = "active" =>
        memo[t].at <= clockNow /\ memo[t].at <= signedOut + Latency
    /\ signedOut <= clockNow \/ signedOut = Ever

ForgottenStays ==
    forgotten = "yes" =>
        /\ signedOut # Ever
        /\ \A p \in Checkers : checker[p].answer # "active"
        /\ \A t \in AccessTokens : memo[t].answer # "active"

ChecksInductive ==
    ChecksTyped /\ ChecksShort /\ ActiveWhenAsked /\ ForgottenStays /\ RevocationSeen

\* One check moves: to a call that begins, to its answer, or to its end.
LEMMA CheckMoves ==
    ASSUME ChecksInductive, NEW p \in Checkers, NEW r \in CheckRecords,
           checker' = [checker EXCEPT ![p] = r],
           r.at = "calling" => /\ r.token \in AccessTokens
                               /\ r.began <= clockNow /\ clockNow <= r.began + Latency,
           r.answer = "active" => r.at = "calling" /\ r.began <= signedOut,
           r.answer = "active" => forgotten # "yes",
           UNCHANGED <<clockNow, signedOut, forgotten>>
    PROVE  /\ checker' \in [Checkers -> CheckRecords]
           /\ \A q \in Checkers : checker'[q].at = "calling" =>
                /\ checker'[q].token \in AccessTokens
                /\ checker'[q].began <= clockNow' /\ clockNow' <= checker'[q].began + Latency
           /\ \A q \in Checkers : checker'[q].answer = "active" =>
                checker'[q].at = "calling" /\ checker'[q].began <= signedOut'
           /\ forgotten' = "yes" => \A q \in Checkers : checker'[q].answer # "active"
<1>1. checker' \in [Checkers -> CheckRecords]
  BY DEF ChecksInductive, ChecksTyped
<1>2. checker'[p] = r /\ \A q \in Checkers : q # p => checker'[q] = checker[q]
  BY DEF ChecksInductive, ChecksTyped
<1>3. ASSUME NEW q \in Checkers, checker'[q].at = "calling"
      PROVE  /\ checker'[q].token \in AccessTokens
             /\ checker'[q].began <= clockNow' /\ clockNow' <= checker'[q].began + Latency
  BY <1>2, <1>3 DEF ChecksInductive, ChecksTyped, ChecksShort
<1>4. ASSUME NEW q \in Checkers, checker'[q].answer = "active"
      PROVE  checker'[q].at = "calling" /\ checker'[q].began <= signedOut'
  BY <1>2, <1>4 DEF ChecksInductive, ChecksTyped, ActiveWhenAsked
<1>5. forgotten' = "yes" => \A q \in Checkers : checker'[q].answer # "active"
  BY <1>2 DEF ChecksInductive, ForgottenStays
<1> QED BY <1>1, <1>3, <1>4, <1>5

LEMMA UncheckedIsIdle == Unchecked \in CheckRecords /\ Unchecked.at = "idle" /\ Unchecked.answer = "none"
BY GatewayNumbers DEF Unchecked, CheckRecords

\* A step that answers nobody, and leaves the remembered answers.
LEMMA QuietCheck ==
    ASSUME ChecksInductive, NEW p \in Checkers, NEW r \in CheckRecords,
           checker' = [checker EXCEPT ![p] = r],
           r.at = "calling" => /\ r.token \in AccessTokens
                               /\ r.began <= clockNow /\ clockNow <= r.began + Latency,
           r.answer = "active" => r.at = "calling" /\ r.began <= signedOut,
           r.answer = "active" => forgotten # "yes",
           said' = "none",
           UNCHANGED <<clockNow, signedOut, forgotten, memo>>
    PROVE  ChecksInductive'
<1>1. /\ checker' \in [Checkers -> CheckRecords]
      /\ \A q \in Checkers : checker'[q].at = "calling" =>
           /\ checker'[q].token \in AccessTokens
           /\ checker'[q].began <= clockNow' /\ clockNow' <= checker'[q].began + Latency
      /\ \A q \in Checkers : checker'[q].answer = "active" =>
           checker'[q].at = "calling" /\ checker'[q].began <= signedOut'
      /\ forgotten' = "yes" => \A q \in Checkers : checker'[q].answer # "active"
  BY CheckMoves
<1>2. ChecksTyped'
  BY <1>1 DEF ChecksInductive, ChecksTyped, Ever
<1>3. ChecksShort'
  BY <1>1 DEF ChecksShort
<1>4. ActiveWhenAsked' /\ ForgottenStays'
  BY <1>1 DEF ChecksInductive, ActiveWhenAsked, ForgottenStays, Ever
<1>5. RevocationSeen'
  BY DEF RevocationSeen
<1> QED BY <1>2, <1>3, <1>4, <1>5 DEF ChecksInductive

LEMMA ChecksAge ==
    ASSUME ChecksInductive, TimePasses
    PROVE  ChecksInductive'
<1>0. clockNow \in Nat /\ clockNow < MaxClock /\ clockNow' = clockNow + 1 /\ Latency \in Nat
      /\ MaxClock \in Nat /\ Ever \in Nat
  BY GatewayNumbers DEF ChecksInductive, ChecksTyped, TimePasses
<1>1. UNCHANGED <<signedOut, memo, checker, forgotten>> /\ said' = "none"
  BY DEF TimePasses, Silent
<1>2. \A p \in Checkers : checker[p].began \in Nat
  BY <1>0 DEF ChecksInductive, ChecksTyped, CheckRecords
<1>3. \A t \in AccessTokens : memo[t].at \in Nat
  BY <1>0 DEF ChecksInductive, ChecksTyped, Answers
<1>4. signedOut \in Nat
  BY <1>0 DEF ChecksInductive, ChecksTyped
<1>5. ChecksTyped'
  BY <1>0, <1>1 DEF ChecksInductive, ChecksTyped, Ever
<1>6. ChecksShort'
  <2> SUFFICES ASSUME NEW p \in Checkers, checker[p].at = "calling"
               PROVE  checker[p].began <= clockNow + 1 /\ clockNow + 1 <= checker[p].began + Latency
    BY <1>0, <1>1 DEF ChecksShort
  <2>1. clockNow < checker[p].began + Latency
    BY DEF TimePasses
  <2>2. checker[p].began <= clockNow
    BY DEF ChecksInductive, ChecksShort
  <2> QED BY <1>0, <1>2, <2>1, <2>2
<1>7. ActiveWhenAsked'
  BY <1>0, <1>1, <1>3, <1>4 DEF ChecksInductive, ActiveWhenAsked, Ever
<1>8. ForgottenStays' /\ RevocationSeen'
  BY <1>1 DEF ChecksInductive, ForgottenStays, RevocationSeen, Ever
<1> QED BY <1>5, <1>6, <1>7, <1>8 DEF ChecksInductive

LEMMA SignInsEnd ==
    ASSUME ChecksInductive, EndSignIns, UNCHANGED clockNow
    PROVE  ChecksInductive'
<1>0. clockNow \in Nat /\ clockNow < Ever /\ Ever \in Nat /\ Latency \in Nat
  BY GatewayNumbers DEF ChecksInductive, ChecksTyped
<1>1. signedOut = Ever /\ signedOut' = clockNow /\ said' = "none" /\ UNCHANGED <<memo, checker, forgotten>>
  BY DEF EndSignIns, Silent
<1>2. ChecksTyped' /\ ChecksShort'
  BY <1>0, <1>1 DEF ChecksInductive, ChecksTyped, ChecksShort, Ever
<1>3. ActiveWhenAsked'
  <2>1. \A p \in Checkers : checker[p].answer = "active" => checker[p].began <= clockNow
    BY DEF ChecksInductive, ChecksTyped, ChecksShort
  <2>2. \A t \in AccessTokens : memo[t].answer = "active" => memo[t].at <= clockNow /\ memo[t].at \in Nat
    BY <1>0 DEF ChecksInductive, ChecksTyped, ActiveWhenAsked, Answers
  <2> QED BY <1>0, <1>1, <2>1, <2>2 DEF ActiveWhenAsked
<1>4. ForgottenStays' /\ RevocationSeen'
  BY <1>0, <1>1 DEF ChecksInductive, ForgottenStays, RevocationSeen, Ever
<1> QED BY <1>2, <1>3, <1>4 DEF ChecksInductive

LEMMA AnswersForgotten ==
    ASSUME ChecksInductive, ForgetIntrospections, UNCHANGED clockNow
    PROVE  ChecksInductive'
<1>0. clockNow \in Nat /\ clockNow < Ever /\ Ever \in Nat /\ Latency \in Nat /\ signedOut \in Nat
  BY GatewayNumbers DEF ChecksInductive, ChecksTyped
<1>1. signedOut # Ever /\ said' = "none" /\ UNCHANGED <<signedOut, checker>>
  BY DEF ForgetIntrospections, Silent
<1>2. NoAnswer \in Answers /\ NoAnswer.answer = "none" /\ "none" # "active"
  BY <1>0 DEF NoAnswer, Answer, Answers
<1>3. \A t \in AccessTokens : memo'[t] = NoAnswer \/ (memo'[t] = memo[t] /\ memo[t].answer # "active")
  BY DEF ForgetIntrospections
<1>4. \A t \in AccessTokens : memo'[t] \in Answers /\ memo'[t].answer # "active"
  BY <1>2, <1>3 DEF ChecksInductive, ChecksTyped
<1>5. memo' = [t \in AccessTokens |-> memo'[t]]
  BY DEF ForgetIntrospections
<1>6. memo' \in [AccessTokens -> Answers]
  BY <1>4, <1>5
<1>7. ChecksTyped' /\ ChecksShort' /\ ActiveWhenAsked'
  BY <1>1, <1>4, <1>6 DEF ChecksInductive, ChecksTyped, ChecksShort, ActiveWhenAsked, Ever
<1>8. forgotten' = "yes" => \A p \in Checkers : checker[p].answer # "active"
  BY DEF ForgetIntrospections, ChecksInductive, ForgottenStays
<1>9. ForgottenStays' /\ RevocationSeen'
  BY <1>1, <1>4, <1>8 DEF ForgottenStays, RevocationSeen, Ever
<1> QED BY <1>7, <1>9 DEF ChecksInductive

\* An answer is given from memory while it is young, and asked for otherwise.
LEMMA TokenIntrospected ==
    ASSUME ChecksInductive, NEW p \in Checkers, NEW t \in AccessTokens, Introspect(p, t), UNCHANGED clockNow
    PROVE  ChecksInductive'
<1>0. /\ clockNow \in Nat /\ clockNow < Ever /\ Ever \in Nat /\ Latency \in Nat /\ AnswerTTL \in Nat
      /\ signedOut \in Nat /\ memo[t].at \in Nat
  BY GatewayNumbers DEF ChecksInductive, ChecksTyped, Answers
<1>1. CASE Live(t)
  <2>1. said' = memo[t].answer /\ UNCHANGED <<signedOut, memo, checker, forgotten>>
    BY <1>1 DEF Introspect
  <2>2. ChecksTyped' /\ ChecksShort' /\ ActiveWhenAsked' /\ ForgottenStays'
    BY <2>1 DEF ChecksInductive, ChecksTyped, ChecksShort, ActiveWhenAsked, ForgottenStays, Ever
  <2>3. RevocationSeen'
    <3> SUFFICES ASSUME memo[t].answer = "active"
                 PROVE  /\ signedOut # Ever => clockNow < signedOut + Latency + AnswerTTL
                        /\ forgotten # "yes"
      BY <2>1 DEF RevocationSeen, Ever
    <3>1. memo[t].at <= signedOut + Latency /\ forgotten # "yes"
      BY DEF ChecksInductive, ActiveWhenAsked, ForgottenStays
    <3>2. clockNow < memo[t].at + AnswerTTL
      BY <1>1 DEF Live, Within
    <3> QED BY <1>0, <3>1, <3>2
  <2> QED BY <2>2, <2>3 DEF ChecksInductive
<1>2. CASE ~Live(t)
  <2> DEFINE r == Checking(t, clockNow, "none")
  <2>1. /\ checker' = [checker EXCEPT ![p] = r] /\ said' = "none"
        /\ UNCHANGED <<signedOut, memo, forgotten>>
    BY <1>2 DEF Introspect, Silent
  <2>2. clockNow \in 0..Ever
    BY <1>0
  <2>3. r \in CheckRecords
    BY <2>2 DEF Checking, CheckRecords
  <2>4. r.token = t /\ r.began = clockNow /\ r.answer # "active"
    BY DEF Checking
  <2> HIDE DEF r
  <2>5. r.began <= clockNow /\ clockNow <= r.began + Latency
    BY <1>0, <2>4
  <2> QED BY <1>0, <2>1, <2>3, <2>4, <2>5, QuietCheck
<1> QED BY <1>1, <1>2

LEMMA CheckServed ==
    ASSUME ChecksInductive, NEW p \in Checkers, ServeCheck(p), UNCHANGED clockNow
    PROVE  ChecksInductive'
<1>0. clockNow \in Nat /\ clockNow < Ever /\ Ever \in Nat
  BY GatewayNumbers DEF ChecksInductive, ChecksTyped
<1>1. PICK answer \in {"active", "inactive"} : answer = IF signedOut = Ever THEN "active" ELSE "inactive"
  OBVIOUS
<1> DEFINE r == Checking(checker[p].token, checker[p].began, answer)
<1>2. /\ checker[p].at = "calling" /\ said' = "none" /\ UNCHANGED <<signedOut, memo, forgotten>>
      /\ checker' = [checker EXCEPT ![p] = r]
  BY <1>1 DEF ServeCheck, Silent
<1>3. checker[p].began \in 0..Ever /\ checker[p].token \in AccessTokens
  BY <1>2 DEF ChecksInductive, ChecksTyped, CheckRecords
<1>4. r.at = "calling" /\ r.token = checker[p].token /\ r.began = checker[p].began /\ r.answer = answer
  BY DEF Checking
<1>5. r \in CheckRecords
  BY <1>3 DEF Checking, CheckRecords
<1> HIDE DEF r
<1>6. r.began <= clockNow /\ clockNow <= r.began + Latency
  BY <1>2, <1>4 DEF ChecksInductive, ChecksShort
<1>7. r.answer = "active" => r.began <= signedOut /\ forgotten # "yes"
  BY <1>0, <1>1, <1>3, <1>4 DEF ChecksInductive, ForgottenStays
<1> QED BY <1>2, <1>3, <1>4, <1>5, <1>6, <1>7, QuietCheck

LEMMA CheckFailed ==
    ASSUME ChecksInductive, NEW p \in Checkers, CheckFails(p), UNCHANGED clockNow
    PROVE  ChecksInductive'
<1>1. checker' = [checker EXCEPT ![p] = Unchecked] /\ said' = "none" /\ UNCHANGED <<signedOut, memo, forgotten>>
  BY DEF CheckFails, Silent
<1> QED BY <1>1, UncheckedIsIdle, QuietCheck

\* What is kept was true when its call was made, which was Latency ago at most.
LEMMA AnswerKept ==
    ASSUME ChecksInductive, NEW p \in Checkers, KeepAnswer(p), UNCHANGED clockNow
    PROVE  ChecksInductive'
<1>0. /\ clockNow \in Nat /\ clockNow < Ever /\ Ever \in Nat /\ Latency \in Nat
      /\ AnswerTTL \in Nat /\ AnswerTTL > 0 /\ signedOut \in Nat
  BY GatewayNumbers DEF ChecksInductive, ChecksTyped
<1>1. PICK t \in AccessTokens : t = checker[p].token /\ checker[p].at = "calling"
  BY DEF KeepAnswer, ChecksInductive, ChecksTyped
<1>2. PICK answer \in {"none", "active", "inactive"} : answer = checker[p].answer
  BY DEF ChecksInductive, ChecksTyped, CheckRecords
<1>3. /\ said' = answer /\ checker' = [checker EXCEPT ![p] = Unchecked]
      /\ UNCHANGED <<signedOut, forgotten>>
  BY <1>2 DEF KeepAnswer
<1>4. PICK spared \in Spared :
        memo' = [u \in AccessTokens |->
                    IF u = t THEN Answer(answer, clockNow)
                    ELSE IF u \in spared THEN memo[u] ELSE NoAnswer]
  BY <1>1, <1>2 DEF KeepAnswer
<1>5. \A u \in AccessTokens : \/ u = t /\ memo'[u] = Answer(answer, clockNow)
                              \/ memo'[u] = memo[u] \/ memo'[u] = NoAnswer
  BY <1>4
<1>6. /\ Answer(answer, clockNow) \in Answers /\ NoAnswer \in Answers /\ NoAnswer.answer = "none"
      /\ Answer(answer, clockNow).answer = answer /\ Answer(answer, clockNow).at = clockNow
  <2>1. clockNow \in 0..Ever /\ 0 \in 0..Ever
    BY <1>0
  <2> QED BY <2>1 DEF Answer, NoAnswer, Answers
<1>7. memo' \in [AccessTokens -> Answers]
  <2>1. \A u \in AccessTokens : memo'[u] \in Answers
    BY <1>5, <1>6 DEF ChecksInductive, ChecksTyped
  <2>2. memo' = [u \in AccessTokens |-> memo'[u]]
    BY <1>4
  <2> QED BY <2>1, <2>2
<1>8. /\ checker' \in [Checkers -> CheckRecords]
      /\ \A q \in Checkers : checker'[q].at = "calling" =>
           /\ checker'[q].token \in AccessTokens
           /\ checker'[q].began <= clockNow' /\ clockNow' <= checker'[q].began + Latency
      /\ \A q \in Checkers : checker'[q].answer = "active" =>
           checker'[q].at = "calling" /\ checker'[q].began <= signedOut'
      /\ forgotten' = "yes" => \A q \in Checkers : checker'[q].answer # "active"
  BY <1>3, UncheckedIsIdle, CheckMoves
<1>9. answer = "active" => clockNow <= signedOut + Latency /\ forgotten # "yes"
  <2> SUFFICES ASSUME answer = "active" PROVE clockNow <= signedOut + Latency /\ forgotten # "yes"
    OBVIOUS
  <2>1. checker[p].began \in Nat
    BY <1>0 DEF ChecksInductive, ChecksTyped, CheckRecords
  <2>2. checker[p].began <= signedOut /\ clockNow <= checker[p].began + Latency /\ forgotten # "yes"
    BY <1>1, <1>2 DEF ChecksInductive, ChecksShort, ActiveWhenAsked, ForgottenStays
  <2> QED BY <1>0, <2>1, <2>2
<1>10. ChecksTyped'
  BY <1>3, <1>7, <1>8 DEF ChecksInductive, ChecksTyped, Ever
<1>11. ChecksShort'
  BY <1>8 DEF ChecksShort
<1>12. ActiveWhenAsked'
  <2>1. ASSUME NEW u \in AccessTokens, memo'[u].answer = "active"
        PROVE  memo'[u].at <= clockNow /\ memo'[u].at <= signedOut + Latency
    <3>1. CASE u = t /\ memo'[u] = Answer(answer, clockNow)
      BY <1>0, <1>6, <1>9, <2>1, <3>1
    <3>2. CASE memo'[u] = memo[u]
      BY <2>1, <3>2 DEF ChecksInductive, ActiveWhenAsked
    <3>3. CASE memo'[u] = NoAnswer
      BY <1>6, <2>1, <3>3
    <3> QED BY <1>5, <3>1, <3>2, <3>3
  <2> QED BY <1>3, <1>8, <2>1 DEF ChecksInductive, ActiveWhenAsked, Ever
<1>13. ForgottenStays'
  <2> SUFFICES ASSUME forgotten = "yes"
               PROVE  signedOut # Ever /\ \A u \in AccessTokens : memo'[u].answer # "active"
    BY <1>3, <1>8 DEF ForgottenStays, Ever
  <2>1. \A u \in AccessTokens : memo[u].answer # "active"
    BY DEF ChecksInductive, ForgottenStays
  <2> QED BY <1>5, <1>6, <1>9, <2>1 DEF ChecksInductive, ForgottenStays
<1>14. RevocationSeen'
  BY <1>0, <1>3, <1>9 DEF RevocationSeen, Ever
<1> QED BY <1>10, <1>11, <1>12, <1>13, <1>14 DEF ChecksInductive

LEMMA ChecksStay ==
    ASSUME ChecksInductive, ChecksNext, UNCHANGED clockNow
    PROVE  ChecksInductive'
BY SignInsEnd, AnswersForgotten, TokenIntrospected, CheckServed, AnswerKept, CheckFailed DEF ChecksNext

-----------------------------------------------------------------------------
(* Lookups: what is left and what was spent since a time is at most a full    *)
(* bucket and what was refilled since.                                        *)

\* The lookups a full bucket and what is refilled in a span of time pay for.
Paid(span) == Allowance * Minute + Allowance * span

BudgetInductive ==
    /\ clockNow \in 0..MaxClock
    /\ level \in 0..(Allowance * Minute)
    /\ spent \in [0..Ever -> Nat]
    /\ \A t \in 0..clockNow : level + Minute * spent[Ever] <= Paid(clockNow - t) + Minute * spent[t]
    /\ \A t, u \in 0..clockNow : t < u => Minute * spent[u] <= Paid(u - 1 - t) + Minute * spent[t]
    /\ \A u \in 0..Ever : u > clockNow => spent[u] = spent[Ever]

\* The arithmetic of the bucket.
LEMMA PaidGrows ==
    /\ Minute \in Nat /\ Minute > 0 /\ Allowance \in Nat /\ Allowance > 0
    /\ Allowance * Minute \in Nat
    /\ \A n \in Nat : Minute * n \in Nat /\ Minute * (n + 1) = Minute * n + Minute
    /\ \A n \in Nat : Paid(n) \in Nat /\ Paid(n + 1) = Paid(n) + Allowance
    /\ \A m, n \in Nat : m <= n => Paid(m) <= Paid(n)
<1>1. Minute \in Nat /\ Minute > 0 /\ Allowance \in Nat /\ Allowance > 0
  BY GatewayNumbers
<1>2. Allowance * Minute \in Nat
  BY <1>1
<1>3. ASSUME NEW n \in Nat PROVE Minute * n \in Nat /\ Minute * (n + 1) = Minute * n + Minute
  BY <1>1
<1>4. ASSUME NEW n \in Nat PROVE Paid(n) \in Nat /\ Paid(n + 1) = Paid(n) + Allowance
  <2>1. Allowance * n \in Nat /\ Allowance * (n + 1) = Allowance * n + Allowance
    BY <1>1
  <2> QED BY <1>1, <1>2, <2>1 DEF Paid
<1>5. ASSUME NEW m \in Nat, NEW n \in Nat, m <= n PROVE Paid(m) <= Paid(n)
  <2>1. PICK d \in Nat : n = m + d
    BY <1>5
  <2>2. Allowance * n = Allowance * m + Allowance * d
    BY <1>1, <2>1
  <2>3. Allowance * m \in Nat /\ Allowance * d \in Nat
    BY <1>1
  <2>4. Allowance * m <= Allowance * n
    BY <2>2, <2>3
  <2> HIDE <2>1
  <2> QED BY <1>1, <1>2, <2>2, <2>3, <2>4 DEF Paid
<1> QED BY <1>1, <1>2, <1>3, <1>4, <1>5

LEMMA RefilledIsLess ==
    ASSUME level \in 0..(Allowance * Minute)
    PROVE  Refilled \in 0..(Allowance * Minute) /\ Refilled <= level + Allowance
<1>1. Allowance * Minute \in Nat /\ Allowance \in Nat
  BY PaidGrows
<1> DEFINE full == Allowance * Minute
           S == {level + Allowance, full}
<1>2. full \in Nat /\ level \in Nat /\ level <= full
  BY <1>1
<1> HIDE DEF full
<1>3. \E x \in S : \A y \in S : x <= y
  BY <1>1, <1>2
<1>4. Min(S) \in S /\ \A y \in S : Min(S) <= y
  BY <1>3 DEF Min
<1>5. Refilled = Min(S)
  BY DEF Refilled, full
<1> HIDE DEF S
<1>6. Refilled \in {level + Allowance, full} /\ Refilled <= full /\ Refilled <= level + Allowance
  BY <1>4, <1>5 DEF S
<1> QED BY <1>1, <1>2, <1>6 DEF full

LEMMA LookupSpent ==
    ASSUME BudgetInductive, SpendLookup, UNCHANGED clockNow
    PROVE  BudgetInductive'
<1>1. /\ clockNow \in Nat /\ clockNow <= MaxClock /\ MaxClock \in Nat /\ Ever \in Nat /\ clockNow < Ever
  BY GatewayNumbers DEF BudgetInductive
<1>2. level >= Minute /\ level' = level - Minute
  BY DEF SpendLookup
<1>3. /\ Minute \in Nat /\ Minute > 0 /\ Allowance * Minute \in Nat
      /\ \A n \in Nat : Minute * n \in Nat /\ Minute * (n + 1) = Minute * n + Minute
      /\ \A n \in Nat : Paid(n) \in Nat
  BY PaidGrows
<1>4. \A t \in 0..Ever : spent'[t] = (IF t > clockNow THEN spent[t] + 1 ELSE spent[t]) /\ spent[t] \in Nat
  BY DEF SpendLookup, BudgetInductive
<1>5. spent' \in [0..Ever -> Nat]
  BY DEF SpendLookup, BudgetInductive
<1>6. \A t \in 0..clockNow : spent'[t] = spent[t] /\ spent[t] \in Nat
  BY <1>1, <1>4
<1>7. spent'[Ever] = spent[Ever] + 1 /\ spent[Ever] \in Nat
  BY <1>1, <1>4
<1>8. level' \in 0..(Allowance * Minute)
  <2>1. level \in Nat /\ level <= Allowance * Minute
    BY <1>3 DEF BudgetInductive
  <2> QED BY <1>2, <1>3, <2>1
<1>9. ASSUME NEW t \in 0..clockNow
      PROVE  level' + Minute * spent'[Ever] <= Paid(clockNow - t) + Minute * spent'[t]
  <2>1. level + Minute * spent[Ever] <= Paid(clockNow - t) + Minute * spent[t]
    BY DEF BudgetInductive
  <2>2. level \in Nat
    BY <1>3 DEF BudgetInductive
  <2>3. Minute * spent'[Ever] = Minute * spent[Ever] + Minute /\ Minute * spent[Ever] \in Nat
    BY <1>3, <1>7
  <2>4. level' + Minute * spent'[Ever] = level + Minute * spent[Ever]
    <3>1. Minute \in Nat
      BY <1>3
    <3>2. PICK x \in Nat : x = Minute * spent[Ever]
      BY <2>3
    <3>3. Minute * spent'[Ever] = x + Minute
      BY <2>3, <3>2
    <3>4. level' + (x + Minute) = level + x
      BY <1>2, <2>2, <3>1
    <3> QED BY <3>2, <3>3, <3>4
  <2> QED BY <1>6, <2>1, <2>4
<1>10. \A t, u \in 0..clockNow : t < u => Minute * spent'[u] <= Paid(u - 1 - t) + Minute * spent'[t]
  BY <1>6 DEF BudgetInductive
<1>11. \A u \in 0..Ever : u > clockNow => spent'[u] = spent'[Ever]
  BY <1>1, <1>4 DEF BudgetInductive
<1> QED BY <1>5, <1>8, <1>9, <1>10, <1>11 DEF BudgetInductive, Ever, Paid

LEMMA BucketRefills ==
    ASSUME BudgetInductive, TimePasses
    PROVE  BudgetInductive'
<1>1. /\ clockNow \in Nat /\ clockNow' = clockNow + 1 /\ clockNow < MaxClock
      /\ MaxClock \in Nat /\ Ever \in Nat /\ Ever = MaxClock + 1 /\ spent' = spent
  BY GatewayNumbers DEF BudgetInductive, TimePasses, Ever
<1>2. /\ Minute \in Nat /\ Allowance \in Nat /\ Allowance * Minute \in Nat
      /\ \A n \in Nat : Minute * n \in Nat
      /\ \A n \in Nat : Paid(n) \in Nat /\ Paid(n + 1) = Paid(n) + Allowance
      /\ Paid(0) = Allowance * Minute
  <2>1. Paid(0) = Allowance * Minute
    BY PaidGrows DEF Paid
  <2> QED BY <2>1, PaidGrows
<1>3. level' \in 0..(Allowance * Minute) /\ level' <= level + Allowance
  BY RefilledIsLess DEF BudgetInductive, TimePasses
<1>4. level \in Nat /\ level' \in Nat /\ level' <= Allowance * Minute
  BY <1>2, <1>3 DEF BudgetInductive
<1>5. \A t \in 0..Ever : Minute * spent[t] \in Nat
  BY <1>2 DEF BudgetInductive
<1>6. spent[clockNow + 1] = spent[Ever]
  BY <1>1 DEF BudgetInductive
<1>7. ASSUME NEW t \in 0..(clockNow + 1)
      PROVE  level' + Minute * spent[Ever] <= Paid(clockNow + 1 - t) + Minute * spent[t]
  <2>1. CASE t \in 0..clockNow
    <3>1. level + Minute * spent[Ever] <= Paid(clockNow - t) + Minute * spent[t]
      BY <2>1 DEF BudgetInductive
    <3>2. PICK n \in Nat : n = clockNow - t /\ clockNow + 1 - t = n + 1
      BY <1>1, <2>1
    <3>3. Paid(clockNow + 1 - t) = Paid(clockNow - t) + Allowance /\ Paid(clockNow - t) \in Nat
      BY <1>2, <3>2
    <3>4. Minute * spent[Ever] \in Nat /\ Minute * spent[t] \in Nat
      BY <1>1, <1>5, <2>1
    <3> QED BY <1>2, <1>3, <1>4, <3>1, <3>3, <3>4
  <2>2. CASE t = clockNow + 1
    <3>1. Paid(clockNow + 1 - t) = Allowance * Minute
      <4>1. clockNow + 1 - t = 0
        BY <1>1, <2>2
      <4> QED BY <1>2, <4>1
    <3>2. Minute * spent[Ever] \in Nat /\ spent[t] = spent[Ever]
      BY <1>1, <1>5, <1>6, <2>2
    <3> QED BY <1>2, <1>4, <3>1, <3>2
  <2> QED BY <1>1, <2>1, <2>2
<1>8. ASSUME NEW t \in 0..(clockNow + 1), NEW u \in 0..(clockNow + 1), t < u
      PROVE  Minute * spent[u] <= Paid(u - 1 - t) + Minute * spent[t]
  <2>1. CASE u \in 0..clockNow
    <3>1. t \in 0..clockNow
      BY <1>1, <1>8, <2>1
    <3> QED BY <1>8, <2>1, <3>1 DEF BudgetInductive
  <2>2. CASE u = clockNow + 1
    <3>1. t \in 0..clockNow /\ u - 1 - t = clockNow - t
      BY <1>1, <1>8, <2>2
    <3>2. level + Minute * spent[Ever] <= Paid(clockNow - t) + Minute * spent[t]
      BY <3>1 DEF BudgetInductive
    <3>3. clockNow - t \in Nat
      BY <1>1, <3>1
    <3>4. Paid(clockNow - t) \in Nat /\ Minute * spent[t] \in Nat /\ Minute * spent[Ever] \in Nat
      BY <1>1, <1>2, <1>5, <3>1, <3>3
    <3>5. Minute * spent[Ever] <= Paid(clockNow - t) + Minute * spent[t]
      BY <1>4, <3>2, <3>4
    <3> QED BY <1>6, <2>2, <3>1, <3>5
  <2> QED BY <1>1, <2>1, <2>2
<1>9. \A u \in 0..Ever : u > clockNow + 1 => spent[u] = spent[Ever]
  BY <1>1 DEF BudgetInductive
<1>10. clockNow + 1 \in 0..MaxClock
  BY <1>1
<1> QED BY <1>1, <1>3, <1>7, <1>8, <1>9, <1>10 DEF BudgetInductive, Ever, Paid

\* In any minute the bucket pays for less than twice the allowance.
LEMMA BudgetBoundsLookups ==
    ASSUME BudgetInductive PROVE LookupsWithinTwice
<1>1. clockNow \in Nat /\ clockNow <= MaxClock /\ MaxClock \in Nat /\ Ever \in Nat /\ Ever = MaxClock + 1
  BY GatewayNumbers DEF BudgetInductive, Ever
<1>2. /\ Minute \in Nat /\ Minute > 0 /\ Allowance \in Nat /\ Allowance > 0 /\ Allowance * Minute \in Nat
      /\ \A n \in Nat : Paid(n) \in Nat
      /\ \A m, n \in Nat : m <= n => Paid(m) <= Paid(n)
  BY PaidGrows
<1> SUFFICES ASSUME NEW t \in 0..Ever, NEW u \in 0..Ever, t < u, u <= t + Minute
             PROVE  spent[u] < spent[t] + 2 * Allowance
  BY DEF LookupsWithinTwice
<1>3. spent[t] \in Nat /\ spent[u] \in Nat /\ spent[Ever] \in Nat /\ level \in Nat
  <2>1. spent \in [0..Ever -> Nat] /\ level \in 0..(Allowance * Minute)
    BY DEF BudgetInductive
  <2>2. Ever \in 0..Ever
    BY <1>1
  <2>3. spent[t] \in Nat /\ spent[u] \in Nat /\ spent[Ever] \in Nat
    BY <2>1, <2>2
  <2>4. level \in Nat
    BY <1>2, <2>1
  <2> QED BY <2>3, <2>4
<1>4. CASE t > clockNow
  <2>1. spent[t] = spent[Ever] /\ spent[u] = spent[Ever]
    BY <1>1, <1>4 DEF BudgetInductive
  <2> QED BY <1>2, <1>3, <2>1
<1>5. CASE t <= clockNow
  <2>1. \E n \in Nat : n <= Minute - 1 /\ Minute * spent[u] <= Paid(n) + Minute * spent[t]
    <3>1. CASE u <= clockNow
      <4>1. Minute * spent[u] <= Paid(u - 1 - t) + Minute * spent[t]
        BY <1>1, <1>5, <3>1 DEF BudgetInductive
      <4>2. u - 1 - t \in Nat /\ u - 1 - t <= Minute - 1
        BY <1>1, <1>2
      <4> QED BY <4>1, <4>2
    <3>2. CASE u > clockNow
      <4>1. level + Minute * spent[Ever] <= Paid(clockNow - t) + Minute * spent[t]
        BY <1>1, <1>5 DEF BudgetInductive
      <4>2. clockNow - t \in Nat /\ clockNow - t <= Minute - 1
        BY <1>1, <1>2, <1>5, <3>2
      <4>3. spent[u] = spent[Ever]
        BY <3>2 DEF BudgetInductive
      <4>4. Minute * spent[Ever] \in Nat /\ Minute * spent[t] \in Nat /\ Paid(clockNow - t) \in Nat
        BY <1>2, <1>3, <4>2, PaidGrows
      <4>5. Minute * spent[u] <= Paid(clockNow - t) + Minute * spent[t]
        BY <1>3, <4>1, <4>3, <4>4
      <4> QED BY <4>2, <4>5
    <3> QED BY <1>1, <3>1, <3>2
  <2>2. PICK n \in Nat : n <= Minute - 1 /\ Minute * spent[u] <= Paid(n) + Minute * spent[t]
    BY <2>1
  <2>3. PICK d \in Nat : d = Minute - 1
    BY <1>2
  <2>4. Paid(n) <= Paid(d) /\ Paid(n) \in Nat /\ Paid(d) \in Nat
    BY <1>2, <2>2, <2>3
  <2>5. Paid(d) < 2 * (Allowance * Minute)
    <3>1. d + 1 = Minute
      BY <1>2, <2>3
    <3>2. Allowance * Minute = Allowance * d + Allowance /\ Allowance * d \in Nat
      BY <1>2, <3>1
    <3>3. Paid(d) = Allowance * Minute + Allowance * d
      BY DEF Paid
    <3> HIDE <3>1, <2>3
    <3> QED BY <1>2, <3>2, <3>3
  <2>6. Minute * spent[u] < 2 * (Allowance * Minute) + Minute * spent[t]
    <3>1. Minute * spent[u] \in Nat /\ Minute * spent[t] \in Nat
      BY <1>3, PaidGrows
    <3> QED BY <1>2, <2>2, <2>4, <2>5, <3>1
  <2> SUFFICES ASSUME spent[u] >= spent[t] + 2 * Allowance PROVE FALSE
    BY <1>2, <1>3
  <2>7. PICK e \in Nat : spent[u] = spent[t] + 2 * Allowance + e
    <3>1. Allowance \in Nat
      BY <1>2
    <3>2. spent[u] - (spent[t] + 2 * Allowance) \in Nat
      BY <1>3, <3>1
    <3>3. spent[u] = spent[t] + 2 * Allowance + (spent[u] - (spent[t] + 2 * Allowance))
      BY <1>3, <3>1
    <3> QED BY <3>2, <3>3
  <2>8. Minute * spent[u] = Minute * spent[t] + 2 * (Allowance * Minute) + Minute * e
    <3>1. Minute \in Nat /\ Allowance \in Nat
      BY <1>2
    <3> QED BY <1>3, <2>7, <3>1
  <2>9. Minute * spent[u] \in Nat /\ Minute * spent[t] \in Nat /\ Minute * e \in Nat
    BY <1>3, PaidGrows
  <2> QED BY <1>2, <2>6, <2>8, <2>9
<1> QED BY <1>1, <1>4, <1>5

-----------------------------------------------------------------------------
(* The three together. *)

GatewayInductive ==
    KeysInductive /\ VerdictsRight /\ ChecksInductive /\ BudgetInductive

LEMMA GatewayStarts == ASSUME GatewayInit PROVE GatewayInductive
<1>1. /\ MaxClock \in Nat /\ Ever \in Nat /\ Ever > MaxClock /\ Ever # 0
  BY GatewayNumbers
<1>2. clockNow = 0 /\ 0 \in 0..MaxClock /\ 0 \in 0..Ever /\ Ever \in 0..Ever
  BY <1>1 DEF GatewayInit
<1>3. KeysInductive
  <2>1. published \in [Keys -> [from : 0..Ever, until : 0..Ever]]
    BY <1>2 DEF GatewayInit
  <2>2. keyCache \in [keys : SUBSET Keys, at : 0..Ever] /\ keyCache.at = Ever
    BY <1>2 DEF GatewayInit
  <2>3. verifier \in [Verifiers -> KeyRequests] /\ \A v \in Verifiers : verifier[v].at = "idle"
    BY UnaskedIsIdle DEF GatewayInit
  <2>4. attempt = Ever /\ faulted = Ever /\ ~rushed
    BY DEF GatewayInit
  <2>5. KeysTyped
    BY <1>2, <2>1, <2>2, <2>3, <2>4 DEF KeysTyped
  <2>6. KeysKept
    BY <2>2, <2>3, <2>4 DEF KeysKept, Cached, Calling
  <2> QED BY <2>5, <2>6 DEF KeysInductive
<1>4. VerdictsRight
  BY DEF GatewayInit, VerdictsRight, WithdrawnKeysExpire, PublishedKeysRefusedBriefly, NoVerdict, Verdict
<1>5. ChecksInductive
  <2>1. /\ NoAnswer \in Answers /\ NoAnswer.answer = "none"
    BY <1>2 DEF NoAnswer, Answer, Answers
  <2>2. memo \in [AccessTokens -> Answers] /\ \A t \in AccessTokens : memo[t].answer = "none"
    BY <2>1 DEF GatewayInit
  <2>3. checker \in [Checkers -> CheckRecords]
        /\ \A p \in Checkers : checker[p].at = "idle" /\ checker[p].answer = "none"
    BY UncheckedIsIdle DEF GatewayInit
  <2>4. signedOut = Ever /\ said = "none" /\ forgotten = "no"
    BY DEF GatewayInit
  <2> QED BY <1>2, <2>2, <2>3, <2>4
          DEF ChecksInductive, ChecksTyped, ChecksShort, ActiveWhenAsked, ForgottenStays, RevocationSeen
<1>6. BudgetInductive
  <2>1. Allowance * Minute \in Nat /\ Minute * 0 \in Nat /\ Paid(0) = Allowance * Minute
    BY PaidGrows DEF Paid
  <2>2. spent \in [0..Ever -> Nat] /\ \A t \in 0..Ever : spent[t] = 0
    BY DEF GatewayInit
  <2>3. level = Allowance * Minute
    BY DEF GatewayInit
  <2>4. ASSUME NEW t \in 0..clockNow
        PROVE  level + Minute * spent[Ever] <= Paid(clockNow - t) + Minute * spent[t]
    <3>1. t = 0 /\ clockNow - t = 0 /\ spent[t] = 0 /\ spent[Ever] = 0
      <4>1. clockNow = 0
        BY <1>2
      <4>2. t = 0
        BY <4>1
      <4>3. clockNow - t = 0
        BY <4>1, <4>2
      <4> QED BY <1>2, <2>2, <4>2, <4>3
    <3> QED BY <2>1, <2>3, <3>1
  <2>5. \A t, u \in 0..clockNow : ~(t < u)
    BY <1>2
  <2> QED BY <1>1, <1>2, <2>1, <2>2, <2>3, <2>4, <2>5 DEF BudgetInductive
<1> QED BY <1>3, <1>4, <1>5, <1>6 DEF GatewayInductive

LEMMA GatewayStays ==
    ASSUME GatewayInductive, [GatewayNext]_gatewayVars
    PROVE  GatewayInductive'
<1>1. ASSUME UNCHANGED <<clockNow, keyVars>> PROVE KeysInductive' /\ VerdictsRight'
  BY <1>1 DEF GatewayInductive, keyVars, KeysInductive, KeysTyped, KeysKept, KeysReadAt, Cached, RefreshLocked,
              AttemptFailed, VerdictsRight, WithdrawnKeysExpire, PublishedKeysRefusedBriefly, Published,
              PublishedAt, Hindered, Ever
<1>2. ASSUME UNCHANGED <<clockNow, checkVars>> PROVE ChecksInductive'
  BY <1>2 DEF GatewayInductive, checkVars, ChecksInductive, ChecksTyped, ChecksShort, ActiveWhenAsked,
              ForgottenStays, RevocationSeen, Ever
<1>3. ASSUME UNCHANGED <<clockNow, budgetVars>> PROVE BudgetInductive'
  BY <1>3 DEF GatewayInductive, budgetVars, BudgetInductive, Paid, Ever
<1>4. CASE TimePasses
  <2>1. verdict' = NoVerdict
    BY <1>4 DEF TimePasses, Undecided
  <2>2. VerdictsRight'
    BY <2>1, VerdictRight
  <2> QED BY <1>4, <2>2, KeysAge, ChecksAge, BucketRefills DEF GatewayInductive
<1>5. CASE UNCHANGED clockNow /\ KeysNext /\ UNCHANGED <<checkVars, budgetVars>>
  BY <1>2, <1>3, <1>5, KeysStay DEF GatewayInductive
<1>6. CASE UNCHANGED clockNow /\ ChecksNext /\ UNCHANGED <<keyVars, budgetVars>>
  BY <1>1, <1>3, <1>6, ChecksStay DEF GatewayInductive
<1>7. CASE UNCHANGED clockNow /\ SpendLookup /\ UNCHANGED <<keyVars, checkVars>>
  BY <1>1, <1>2, <1>7, LookupSpent DEF GatewayInductive
<1>8. CASE UNCHANGED gatewayVars
  <2>1. UNCHANGED <<clockNow, keyVars, checkVars, budgetVars>>
    BY <1>8 DEF gatewayVars, keyVars, checkVars, budgetVars
  <2> QED BY <1>1, <1>2, <1>3, <2>1 DEF GatewayInductive
<1> QED BY <1>4, <1>5, <1>6, <1>7, <1>8 DEF GatewayNext

\* What a host keeps of Silicon Accounts is what it says it is, with its types: keys
\* read at one moment that only a failed refresh leaves older, answers that were true
\* when they were asked for, and a bucket that pays for every lookup.
THEOREM GatewayStaysInductive == GatewaySpec => []GatewayInductive
<1>1. GatewayInit => GatewayInductive
  BY GatewayStarts
<1>2. GatewayInductive /\ [GatewayNext]_gatewayVars => GatewayInductive'
  BY GatewayStays
<1> QED BY <1>1, <1>2, PTL DEF GatewaySpec

\* For any number of requests, keys and tokens and any spans of time: a withdrawn key
\* stops verifying and a published one is accepted within the times the code sets,
\* unless Silicon Accounts cannot be reached; refreshes are spaced; an ended sign-in is
\* seen; lookups stay below twice the allowance in any minute.
THEOREM BeliefsAlwaysBounded == GatewaySpec => []BeliefsAreBounded
<1>1. GatewayInductive => BeliefsAreBounded
  BY BudgetBoundsLookups DEF GatewayInductive, BeliefsAreBounded, VerdictsRight, KeysInductive, KeysKept,
                             FetchesSpaced, ChecksInductive
<1> QED BY <1>1, GatewayStaysInductive, PTL

\* The types of what a host keeps of Silicon Accounts.
THEOREM GatewayAlwaysTyped == GatewaySpec => []GatewayTypeOK
<1>1. GatewayInductive => GatewayTypeOK
  BY DEF GatewayInductive, GatewayTypeOK, KeysInductive, KeysTyped, KeyRequests, ChecksInductive, ChecksTyped,
         CheckRecords, BudgetInductive
<1> QED BY <1>1, GatewayStaysInductive, PTL

-----------------------------------------------------------------------------
(* The sign-in of a device: what holds whatever is lost or killed. *)

Early == {"begin", "ask", "asking", "exchange"}
LoginPlaces == Early \cup {"asleep", "save", "revoke", "over"}

\* The records have their fields, and the numbers in them are numbers.
RecordsFit ==
    /\ DOMAIN login = {"pc", "since", "interval", "wake", "email", "replaced", "told"}
    /\ DOMAIN device = {"at", "state", "who", "interval"}
    /\ DOMAIN status = {"pc", "forced", "token", "me", "unsure", "told"}
    /\ DOMAIN kept = {"of", "who", "id", "turn"}
NumbersFit ==
    /\ time \in Nat /\ time <= MaxSignInClock
    /\ login.since \in Nat /\ login.interval \in Nat /\ login.wake \in Nat /\ login.since <= time
    /\ device.at \in Nat /\ device.interval \in Nat /\ device.at <= time
    /\ mishaps \in Nat /\ mishaps <= MaxSignInFaults
SignInsFit ==
    /\ living \subseteq {Before, ThisOne}
    /\ kept.of \in {0, Before, ThisOne} /\ kept.turn \in Nat
    /\ status.token.of \in {0, Before, ThisOne} /\ status.token.turn \in Nat
    /\ login.replaced \in {0, Before, ThisOne}

\* Where the login is, and what that says of the code.
LoginInOrder ==
    /\ login.pc \in LoginPlaces
    /\ login.told # "nothing" => login.pc = "over"
    /\ login.pc \in Early => device.state = "none"
    /\ login.pc \in Early => slt # "spent" \/ login.pc = "over"
    /\ login.pc = "save" => device.state \in {"none", "used"} /\ device.who \in People
    /\ device.state \in {"approved", "used"} => device.who \in People
    /\ kept.of = ThisOne \/ status.token.of = ThisOne => login.pc \in {"revoke", "over"}
SpentForGood ==
    /\ ~Agrees /\ mishaps = 0 => login.pc \in {"begin", "over"}
    /\ login.told = "mismatch" \/ (~Agrees /\ mishaps = 0) => device.state = "none" /\ slt # "spent"

\* The interval that is kept, and when the next question may be asked.
SlowUntil(k) == {j \in 1 .. k : polls[j].slow}
LastAsked == IF polls = <<>> THEN device.at ELSE polls[Len(polls)].at
PollsFit ==
    /\ polls \in Seq([at : Nat, slow : BOOLEAN])
    /\ login.pc \in Early => polls = <<>>
PollingKept ==
    login.pc = "asleep" =>
        /\ login.since <= device.at
        /\ login.interval = device.interval + SlowDownStep * Cardinality(SlowUntil(Len(polls)))
        /\ login.wake >= Deadline \/ login.wake >= LastAsked + login.interval

\* What the status holds.
StatusInOrder ==
    /\ \A t \in old.service : t[2] = 0
    /\ status.pc = "begin" => ~status.forced
    /\ status.pc = "show" => status.token.of # 0 /\ status.token.who \in People
    /\ status.pc = "show" /\ status.forced => status.unsure \/ status.token.turn # 0
    /\ status.pc = "remember" => status.me \in IdsOfPeople
    /\ status.told # "nothing" => status.pc = "over"
    /\ status.told = "signed_out" => status.token.of \notin living \/ status.unsure
LoginTruth ==
    /\ login.told = "signed_in" \/ login.pc = "revoke" => kept.of = ThisOne \/ ThisOne \notin living
    /\ login.told = "denied" => device.state = "denied"
IdsInOrder ==
    /\ DOMAIN idOf = People
    /\ \A p \in People : idOf[p] \in {<<p, 0>>, <<p, 1>>}
    /\ kept.of # 0 => kept.who \in People /\ kept.id \in IdsOfPeople /\ kept.id[1] = kept.who

SignInInv ==
    /\ RecordsFit /\ NumbersFit /\ SignInsFit /\ LoginInOrder /\ SpentForGood
    /\ PollsFit /\ PollingKept /\ PolledInTime /\ NoneForgotten
    /\ StatusInOrder /\ LoginTruth /\ IdsInOrder

-----------------------------------------------------------------------------
(* What the steps do to the records. *)

\* The end of a login changes what it told and nothing else.
LEMMA TellFields ==
    ASSUME RecordsFit, NEW what, Tell(what)
    PROVE  /\ login'.pc = "over" /\ login'.told = what /\ login'.since = login.since
           /\ login'.interval = login.interval /\ login'.wake = login.wake
           /\ login'.replaced = login.replaced /\ DOMAIN login' = DOMAIN login
    BY DEF RecordsFit, Tell

\* A sleep ends at the deadline at the latest, and one that would begin after
\* it ends the login.
LEMMA SleepFields ==
    ASSUME RecordsFit, NEW interval, Sleep(interval)
    PROVE  /\ login'.since = login.since /\ login'.replaced = login.replaced
           /\ DOMAIN login' = DOMAIN login
           /\ \/ /\ time >= Deadline /\ login'.pc = "over" /\ login'.told = "expired"
                 /\ login'.interval = login.interval /\ login'.wake = login.wake
              \/ /\ ~(time >= Deadline) /\ login'.pc = "asleep" /\ login'.told = login.told
                 /\ login'.interval = interval
                 /\ login'.wake = IF time + interval < Deadline THEN time + interval ELSE Deadline
<1>1. CASE time >= Deadline
  BY <1>1, TellFields DEF Sleep
<1>2. CASE ~(time >= Deadline)
  <2>1. login' = [login EXCEPT !.pc = "asleep", !.interval = interval,
                      !.wake = IF time + interval < Deadline THEN time + interval ELSE Deadline]
    BY <1>2 DEF Sleep
  <2>2. PICK w : w = IF time + interval < Deadline THEN time + interval ELSE Deadline
    OBVIOUS
  <2>3. login' = [login EXCEPT !.pc = "asleep", !.interval = interval, !.wake = w]
    BY <2>1, <2>2
  <2>4. /\ login'.pc = "asleep" /\ login'.told = login.told /\ login'.since = login.since
        /\ login'.replaced = login.replaced /\ DOMAIN login' = DOMAIN login
        /\ login'.interval = interval /\ login'.wake = w
    BY <2>3 DEF RecordsFit
  <2> QED BY <1>2, <2>2, <2>4
<1> QED BY <1>1, <1>2

\* A login that goes on from one place to the next.
GoesTo(place) ==
    /\ login'.pc = place /\ login'.told = login.told
    /\ login'.interval = login.interval /\ login'.wake = login.wake
    /\ DOMAIN login' = DOMAIN login
LEMMA ProceedFields ==
    ASSUME RecordsFit, Proceed
    PROVE  /\ login'.pc \in {"ask", "exchange"} /\ GoesTo(login'.pc)
           /\ login'.since = login.since /\ login'.replaced = login.replaced
    BY DEF RecordsFit, Proceed, GoesTo

LEMMA AskFields ==
    ASSUME RecordsFit, AskForCode
    PROVE  /\ GoesTo("asking") /\ login'.since = time /\ login'.replaced = login.replaced
    BY DEF RecordsFit, AskForCode, GoesTo

LEMMA AskAgainFields ==
    ASSUME RecordsFit, login' = [login EXCEPT !.pc = "ask", !.email = FALSE]
    PROVE  GoesTo("ask") /\ login'.since = login.since /\ login'.replaced = login.replaced
    BY DEF RecordsFit, GoesTo

LEMMA SaveFields ==
    ASSUME RecordsFit, login' = [login EXCEPT !.pc = "save"]
    PROVE  GoesTo("save") /\ login'.since = login.since /\ login'.replaced = login.replaced
    BY DEF RecordsFit, GoesTo

LEMMA RevokeFields ==
    ASSUME RecordsFit, login' = [login EXCEPT !.pc = "revoke", !.replaced = kept.of]
    PROVE  GoesTo("revoke") /\ login'.since = login.since /\ login'.replaced = kept.of
    BY DEF RecordsFit, GoesTo

LEMMA KillFields ==
    ASSUME RecordsFit, login' = [login EXCEPT !.pc = "over", !.told = "killed"]
    PROVE  /\ login'.pc = "over" /\ login'.told = "killed" /\ login'.since = login.since
           /\ login'.interval = login.interval /\ login'.wake = login.wake
           /\ login'.replaced = login.replaced /\ DOMAIN login' = DOMAIN login
    BY DEF RecordsFit

\* The code.
LEMMA IssueFields ==
    ASSUME RecordsFit, NEW n,
           device' = [device EXCEPT !.at = time, !.state = "pending", !.interval = n]
    PROVE  /\ device'.at = time /\ device'.state = "pending" /\ device'.interval = n
           /\ device'.who = device.who /\ DOMAIN device' = DOMAIN device
    BY DEF RecordsFit
LEMMA SettleFields ==
    ASSUME RecordsFit, NEW s, NEW p, device' = [device EXCEPT !.state = s, !.who = p]
    PROVE  /\ device'.state = s /\ device'.who = p /\ device'.at = device.at
           /\ device'.interval = device.interval /\ DOMAIN device' = DOMAIN device
    BY DEF RecordsFit
LEMMA UseFields ==
    ASSUME RecordsFit, device' = [device EXCEPT !.state = "used"]
    PROVE  /\ device'.state = "used" /\ device'.who = device.who /\ device'.at = device.at
           /\ device'.interval = device.interval /\ DOMAIN device' = DOMAIN device
    BY DEF RecordsFit
LEMMA WhoFields ==
    ASSUME RecordsFit, NEW p, device' = [device EXCEPT !.who = p]
    PROVE  /\ device'.state = device.state /\ device'.who = p /\ device'.at = device.at
           /\ device'.interval = device.interval /\ DOMAIN device' = DOMAIN device
    BY DEF RecordsFit

\* The file.
LEMMA KeptForFields ==
    ASSUME NEW s, NEW p
    PROVE  /\ KeptFor(s, p).of = s /\ KeptFor(s, p).who = p /\ KeptFor(s, p).id = idOf[p]
           /\ KeptFor(s, p).turn = 0 /\ DOMAIN KeptFor(s, p) = {"of", "who", "id", "turn"}
    BY DEF KeptFor
LEMMA NotKeptFields ==
    /\ NotKept.of = 0 /\ NotKept.turn = 0 /\ DOMAIN NotKept = {"of", "who", "id", "turn"}
    /\ Unreadable.of = 0 /\ Unreadable.turn = 1 /\ DOMAIN Unreadable = {"of", "who", "id", "turn"}
    BY DEF NotKept, Unreadable
LEMMA RotatedFields ==
    ASSUME RecordsFit
    PROVE  /\ RotatedHere.of = kept.of /\ RotatedHere.who = kept.who
           /\ RotatedHere.id = idOf[kept.who] /\ RotatedHere.turn = kept.turn + 1
           /\ DOMAIN RotatedHere = {"of", "who", "id", "turn"}
    BY KeptForFields DEF RotatedHere
LEMMA RememberFields ==
    ASSUME RecordsFit, NEW i, kept' = [kept EXCEPT !.id = i]
    PROVE  /\ kept'.of = kept.of /\ kept'.who = kept.who /\ kept'.id = i /\ kept'.turn = kept.turn
           /\ DOMAIN kept' = DOMAIN kept
    BY DEF RecordsFit

\* The status.
LEMMA ReportFields ==
    ASSUME RecordsFit, NEW what, Report(what)
    PROVE  /\ status'.pc = "over" /\ status'.told = what /\ status'.token = status.token
           /\ status'.unsure = status.unsure /\ DOMAIN status' = DOMAIN status
    BY DEF RecordsFit, Report
LEMMA ShowFields ==
    ASSUME RecordsFit, NEW place, NEW token,
           status' = [status EXCEPT !.pc = place, !.token = token]
    PROVE  /\ status'.pc = place /\ status'.told = status.told /\ status'.token = token
           /\ status'.forced = status.forced
           /\ status'.unsure = status.unsure /\ DOMAIN status' = DOMAIN status
    BY DEF RecordsFit
LEMMA SignedOutFields ==
    ASSUME RecordsFit,
           status' = [status EXCEPT !.pc = "over", !.told = "signed_out", !.token = kept]
    PROVE  /\ status'.pc = "over" /\ status'.told = "signed_out" /\ status'.token = kept
           /\ status'.unsure = status.unsure /\ DOMAIN status' = DOMAIN status
    BY DEF RecordsFit
LEMMA UnsureFields ==
    ASSUME RecordsFit,
           status' = [status EXCEPT !.pc = "show", !.token = kept, !.unsure = TRUE]
    PROVE  /\ status'.pc = "show" /\ status'.told = status.told /\ status'.token = kept
           /\ status'.unsure /\ DOMAIN status' = DOMAIN status
    BY DEF RecordsFit
LEMMA MeFields ==
    ASSUME RecordsFit, NEW i, status' = [status EXCEPT !.pc = "remember", !.me = i]
    PROVE  /\ status'.pc = "remember" /\ status'.told = status.told /\ status'.token = status.token
           /\ status'.me = i /\ status'.unsure = status.unsure /\ DOMAIN status' = DOMAIN status
    BY DEF RecordsFit
LEMMA ForcedFields ==
    ASSUME RecordsFit, status' = [status EXCEPT !.pc = "refresh", !.forced = TRUE]
    PROVE  /\ status'.pc = "refresh" /\ status'.told = status.told /\ status'.token = status.token
           /\ status'.unsure = status.unsure /\ DOMAIN status' = DOMAIN status
    BY DEF RecordsFit

-----------------------------------------------------------------------------
(* Each step keeps the invariant. *)

\* What has been asked, and the interval, are as before.
LEMMA PolledSame ==
    ASSUME PolledInTime, polls' = polls, device'.at = device.at, device'.interval = device.interval
    PROVE  PolledInTime'
    BY DEF PolledInTime

\* The login does not sleep, or sleeps as before.
LEMMA PollingSame ==
    ASSUME PollingKept,
           \/ login'.pc # "asleep"
           \/ /\ login.pc = "asleep" /\ login'.since = login.since
              /\ login'.interval = login.interval /\ login'.wake = login.wake
              /\ polls' = polls /\ device'.at = device.at /\ device'.interval = device.interval
    PROVE  PollingKept'
    BY DEF PollingKept, SlowUntil, LastAsked, Deadline

\* The deployment is asked about: nothing is spent yet.
LEMMA CheckDeploymentKeeps ==
    ASSUME DeviceSignInAssumption, SignInInv, CheckDeployment
    PROVE  SignInInv'
<1> USE DEF SignInInv
<1>1. /\ UNCHANGED <<setting, time, device, slt, polls, living, idOf, old, kept, aside, status, lostOf>>
      /\ login.pc = "begin"
      /\ mishaps' = mishaps \/ (mishaps < MaxSignInFaults /\ mishaps' = mishaps + 1)
      /\ login'.since = login.since
      /\ login'.interval = login.interval
      /\ login'.wake = login.wake
      /\ login'.replaced = login.replaced
      /\ DOMAIN login' = DOMAIN login
      /\ \/ /\ login'.pc \in {"ask", "exchange"} /\ login'.told = login.told
            /\ Agrees \/ mishaps' = mishaps + 1
         \/ login'.pc = "over" /\ login'.told = "mismatch"
  BY ProceedFields, TellFields DEF CheckDeployment, World, Amiss, GoesTo
<1>2. RecordsFit'
  BY <1>1 DEF RecordsFit
<1>3. NumbersFit'
  BY <1>1 DEF NumbersFit, DeviceSignInAssumption, Before, ThisOne
<1>4. SignInsFit'
  BY <1>1 DEF SignInsFit, Before, ThisOne
<1>5. LoginInOrder'
  BY <1>1 DEF LoginInOrder, Early, LoginPlaces
<1>6. SpentForGood'
  BY <1>1 DEF SpentForGood, Agrees, NumbersFit, LoginInOrder, Early, LoginPlaces, Before, ThisOne
<1>7. PollsFit'
  BY <1>1 DEF PollsFit, Early
<1>8. PollingKept'
  BY <1>1, PollingSame
<1>9. PolledInTime'
  BY <1>1, PolledSame
<1>10. NoneForgotten'
  BY <1>1 DEF NoneForgotten, Before, ThisOne
<1>11. StatusInOrder'
  BY <1>1 DEF StatusInOrder
<1>12. LoginTruth'
  BY <1>1 DEF LoginTruth
<1>13. IdsInOrder'
  BY <1>1 DEF IdsInOrder
<1> QED BY <1>2, <1>3, <1>4, <1>5, <1>6, <1>7, <1>8, <1>9, <1>10, <1>11, <1>12, <1>13 DEF SignInInv

\* The time is noted before the code is asked for.
LEMMA AskForCodeKeeps ==
    ASSUME DeviceSignInAssumption, SignInInv, AskForCode
    PROVE  SignInInv'
<1> USE DEF SignInInv
<1>1. /\ UNCHANGED <<setting, time, device, slt, polls, living, idOf, old, kept, aside, status, lostOf, mishaps>>
      /\ login.pc = "ask"
      /\ login'.pc = "asking" /\ login'.told = login.told /\ login'.since = time
      /\ login'.interval = login.interval
      /\ login'.wake = login.wake
      /\ login'.replaced = login.replaced
      /\ DOMAIN login' = DOMAIN login
  BY AskFields DEF AskForCode, World, GoesTo
<1>2. RecordsFit'
  BY <1>1 DEF RecordsFit
<1>3. NumbersFit'
  BY <1>1 DEF NumbersFit, DeviceSignInAssumption, Before, ThisOne
<1>4. SignInsFit'
  BY <1>1 DEF SignInsFit, Before, ThisOne
<1>5. LoginInOrder'
  BY <1>1 DEF LoginInOrder, Early, LoginPlaces
<1>6. SpentForGood'
  BY <1>1 DEF SpentForGood, Agrees, NumbersFit, LoginInOrder, Early, LoginPlaces, Before, ThisOne
<1>7. PollsFit'
  BY <1>1 DEF PollsFit, Early
<1>8. PollingKept'
  BY <1>1, PollingSame
<1>9. PolledInTime'
  BY <1>1, PolledSame
<1>10. NoneForgotten'
  BY <1>1 DEF NoneForgotten, Before, ThisOne
<1>11. StatusInOrder'
  BY <1>1 DEF StatusInOrder
<1>12. LoginTruth'
  BY <1>1 DEF LoginTruth
<1>13. IdsInOrder'
  BY <1>1 DEF IdsInOrder
<1> QED BY <1>2, <1>3, <1>4, <1>5, <1>6, <1>7, <1>8, <1>9, <1>10, <1>11, <1>12, <1>13 DEF SignInInv

\* No code: the login ends.
LEMMA CodeRefusedKeeps ==
    ASSUME DeviceSignInAssumption, SignInInv, CodeRefused
    PROVE  SignInInv'
<1> USE DEF SignInInv
<1>1. /\ UNCHANGED <<setting, time, device, slt, polls, living, idOf, old, kept, aside, status, lostOf>>
      /\ login.pc = "asking"
      /\ mishaps' = mishaps \/ (mishaps < MaxSignInFaults /\ mishaps' = mishaps + 1)
      /\ login'.pc = "over" /\ login'.told \in {"refused", "unreachable"} /\ login'.since = login.since
      /\ login'.interval = login.interval
      /\ login'.wake = login.wake
      /\ login'.replaced = login.replaced
      /\ DOMAIN login' = DOMAIN login
  BY TellFields DEF CodeRefused, World, Amiss
<1>2. RecordsFit'
  BY <1>1 DEF RecordsFit
<1>3. NumbersFit'
  BY <1>1 DEF NumbersFit, DeviceSignInAssumption, Before, ThisOne
<1>4. SignInsFit'
  BY <1>1 DEF SignInsFit, Before, ThisOne
<1>5. LoginInOrder'
  BY <1>1 DEF LoginInOrder, Early, LoginPlaces
<1>6. SpentForGood'
  BY <1>1 DEF SpentForGood, Agrees, NumbersFit, LoginInOrder, Early, LoginPlaces, Before, ThisOne
<1>7. PollsFit'
  BY <1>1 DEF PollsFit, Early
<1>8. PollingKept'
  BY <1>1, PollingSame
<1>9. PolledInTime'
  BY <1>1, PolledSame
<1>10. NoneForgotten'
  BY <1>1 DEF NoneForgotten, Before, ThisOne
<1>11. StatusInOrder'
  BY <1>1 DEF StatusInOrder
<1>12. LoginTruth'
  BY <1>1 DEF LoginTruth
<1>13. IdsInOrder'
  BY <1>1 DEF IdsInOrder
<1> QED BY <1>2, <1>3, <1>4, <1>5, <1>6, <1>7, <1>8, <1>9, <1>10, <1>11, <1>12, <1>13 DEF SignInInv

\* The account settles a code that is pending: one that has been issued.
LEMMA SettleKeeps ==
    ASSUME DeviceSignInAssumption, SignInInv, NEW state \in {"approved", "denied"}, NEW who, state = "approved" => who \in People, Settle(state, who)
    PROVE  SignInInv'
<1> USE DEF SignInInv
<1>1. /\ UNCHANGED <<setting, time, slt, login, polls, living, idOf, old, kept, aside, status, lostOf, mishaps>>
      /\ device.state = "pending" /\ device'.state = state /\ device'.who = who
      /\ device'.at = device.at /\ device'.interval = device.interval
      /\ DOMAIN device' = DOMAIN device
  BY SettleFields DEF Settle, World
<1>2. RecordsFit'
  BY <1>1 DEF RecordsFit
<1>3. NumbersFit'
  BY <1>1 DEF NumbersFit, DeviceSignInAssumption, Before, ThisOne
<1>4. SignInsFit'
  BY <1>1 DEF SignInsFit, Before, ThisOne
<1>5. LoginInOrder'
  BY <1>1 DEF LoginInOrder, Early, LoginPlaces
<1>6. SpentForGood'
  BY <1>1 DEF SpentForGood, Agrees, NumbersFit, LoginInOrder, Early, LoginPlaces, Before, ThisOne
<1>7. PollsFit'
  BY <1>1 DEF PollsFit, Early
<1>8. PollingKept'
  BY <1>1, PollingSame
<1>9. PolledInTime'
  BY <1>1, PolledSame
<1>10. NoneForgotten'
  BY <1>1 DEF NoneForgotten, Before, ThisOne
<1>11. StatusInOrder'
  BY <1>1 DEF StatusInOrder
<1>12. LoginTruth'
  BY <1>1 DEF LoginTruth
<1>13. IdsInOrder'
  BY <1>1 DEF IdsInOrder
<1> QED BY <1>2, <1>3, <1>4, <1>5, <1>6, <1>7, <1>8, <1>9, <1>10, <1>11, <1>12, <1>13 DEF SignInInv

\* The code is too old.
LEMMA StopWaitingKeeps ==
    ASSUME DeviceSignInAssumption, SignInInv, StopWaiting
    PROVE  SignInInv'
<1> USE DEF SignInInv
<1>1. /\ UNCHANGED <<setting, time, device, slt, polls, living, idOf, old, kept, aside, status, lostOf, mishaps>>
      /\ login.pc = "asleep"
      /\ login'.pc = "over" /\ login'.told = "expired" /\ login'.since = login.since
      /\ login'.interval = login.interval
      /\ login'.wake = login.wake
      /\ login'.replaced = login.replaced
      /\ DOMAIN login' = DOMAIN login
  BY TellFields DEF StopWaiting, World
<1>2. RecordsFit'
  BY <1>1 DEF RecordsFit
<1>3. NumbersFit'
  BY <1>1 DEF NumbersFit, DeviceSignInAssumption, Before, ThisOne
<1>4. SignInsFit'
  BY <1>1 DEF SignInsFit, Before, ThisOne
<1>5. LoginInOrder'
  BY <1>1 DEF LoginInOrder, Early, LoginPlaces
<1>6. SpentForGood'
  BY <1>1 DEF SpentForGood, Agrees, NumbersFit, LoginInOrder, Early, LoginPlaces, Before, ThisOne
<1>7. PollsFit'
  BY <1>1 DEF PollsFit, Early
<1>8. PollingKept'
  BY <1>1, PollingSame
<1>9. PolledInTime'
  BY <1>1, PolledSame
<1>10. NoneForgotten'
  BY <1>1 DEF NoneForgotten, Before, ThisOne
<1>11. StatusInOrder'
  BY <1>1 DEF StatusInOrder
<1>12. LoginTruth'
  BY <1>1 DEF LoginTruth
<1>13. IdsInOrder'
  BY <1>1 DEF IdsInOrder
<1> QED BY <1>2, <1>3, <1>4, <1>5, <1>6, <1>7, <1>8, <1>9, <1>10, <1>11, <1>12, <1>13 DEF SignInInv

-----------------------------------------------------------------------------
(* The questions about the code. *)

LEMMA OneSlower ==
    ASSUME NEW s \in Nat, NEW c \in Nat
    PROVE  s * (c + 1) = s * c + s /\ s * c \in Nat
    OBVIOUS

\* There are only so many answers that asked for more time.
LEMMA SlowCounted ==
    ASSUME NEW k \in Nat
    PROVE  /\ SlowUntil(k) \subseteq 1 .. k /\ IsFiniteSet(SlowUntil(k))
           /\ Cardinality(SlowUntil(k)) \in Nat
<1>1. SlowUntil(k) \subseteq 1 .. k
  BY DEF SlowUntil
<1>2. IsFiniteSet(1 .. k)
  BY FS_Interval
<1>3. IsFiniteSet(SlowUntil(k))
  BY <1>1, <1>2, FS_Subset
<1> QED BY <1>1, <1>3, FS_CardinalityType

\* One more question, and what it does to that count.
LEMMA SlowAppended ==
    ASSUME PollsFit, NEW at \in Nat, NEW slow \in BOOLEAN, NEW n, n = Len(polls),
           polls' = Append(polls, [at |-> at, slow |-> slow])
    PROVE  /\ polls' \in Seq([at : Nat, slow : BOOLEAN])
           /\ n \in Nat /\ Len(polls') = n + 1 /\ polls' # <<>>
           /\ \A k \in 1 .. n : polls'[k] = polls[k]
           /\ polls'[n + 1].at = at
           /\ \A k \in 0 .. n : SlowUntil(k)' = SlowUntil(k)
           /\ Cardinality(SlowUntil(n + 1)')
                = IF slow THEN Cardinality(SlowUntil(n)) + 1 ELSE Cardinality(SlowUntil(n))
<1> DEFINE asked == [at |-> at, slow |-> slow]
<1>1. asked \in [at : Nat, slow : BOOLEAN] /\ asked.at = at /\ asked.slow = slow
  OBVIOUS
<1>2. polls \in Seq([at : Nat, slow : BOOLEAN])
  BY DEF PollsFit
<1>3. PICK e \in [at : Nat, slow : BOOLEAN] : e = asked
  BY <1>1
<1>4. polls' = Append(polls, e)
  BY <1>3
<1>5. /\ n \in Nat /\ Len(polls') = n + 1 /\ polls' # <<>>
      /\ polls' \in Seq([at : Nat, slow : BOOLEAN])
      /\ \A k \in 1 .. n : polls'[k] = polls[k]
      /\ polls'[n + 1] = e
  BY <1>2, <1>4
<1>6. polls'[n + 1].at = at /\ polls'[n + 1].slow = slow
  BY <1>1, <1>3, <1>5
<1>7. ASSUME NEW k \in 0 .. n
      PROVE  SlowUntil(k)' = SlowUntil(k)
  <2>1. \A j \in 1 .. k : polls'[j] = polls[j]
    BY <1>5
  <2> QED BY <2>1 DEF SlowUntil
<1>8. SlowUntil(n + 1)' = {j \in 1 .. (n + 1) : polls'[j].slow}
  BY DEF SlowUntil
<1>9. SlowUntil(n) = {j \in 1 .. n : polls'[j].slow}
  BY <1>5 DEF SlowUntil
<1>10. CASE slow
  <2>1. {j \in 1 .. (n + 1) : polls'[j].slow} = {j \in 1 .. n : polls'[j].slow} \cup {n + 1}
    BY <1>5, <1>6, <1>10
  <2>2. SlowUntil(n + 1)' = SlowUntil(n) \cup {n + 1}
    BY <1>8, <1>9, <2>1
  <2>3. n + 1 \notin SlowUntil(n) /\ IsFiniteSet(SlowUntil(n))
    BY <1>5, SlowCounted
  <2>4. Cardinality(SlowUntil(n) \cup {n + 1}) = Cardinality(SlowUntil(n)) + 1
    BY <2>3, FS_AddElement
  <2>5. Cardinality(SlowUntil(n + 1)') = Cardinality(SlowUntil(n)) + 1
    BY <2>2, <2>4
  <2> QED BY <1>5, <1>6, <1>7, <1>10, <2>5
<1>11. CASE ~slow
  <2>1. {j \in 1 .. (n + 1) : polls'[j].slow} = {j \in 1 .. n : polls'[j].slow}
    BY <1>5, <1>6, <1>11
  <2>2. SlowUntil(n + 1)' = SlowUntil(n)
    BY <1>8, <1>9, <2>1
  <2> QED BY <1>5, <1>6, <1>7, <1>11, <2>2
<1> QED BY <1>10, <1>11

\* A login that wakes up in time has waited as long as it was told to.
LEMMA WokenAfterTheInterval ==
    ASSUME DeviceSignInAssumption, SignInInv, WokenInTime
    PROVE  /\ login.pc = "asleep" /\ time < device.at + CodeLives
           /\ LastAsked \in Nat /\ login.interval \in Nat
           /\ time - LastAsked >= login.interval
           /\ login.interval = device.interval + SlowDownStep * Cardinality(SlowUntil(Len(polls)))
<1>1. /\ login.pc = "asleep" /\ time \in Nat /\ time >= login.wake /\ time < Deadline
      /\ login.wake \in Nat /\ login.since \in Nat /\ device.at \in Nat /\ login.interval \in Nat
      /\ CodeLives \in Nat /\ Deadline = login.since + CodeLives
  BY DEF WokenInTime, SignInInv, NumbersFit, DeviceSignInAssumption, Deadline
<1>2. /\ login.since <= device.at
      /\ login.interval = device.interval + SlowDownStep * Cardinality(SlowUntil(Len(polls)))
      /\ login.wake >= Deadline \/ login.wake >= LastAsked + login.interval
  BY <1>1 DEF SignInInv, PollingKept
<1>3. LastAsked \in Nat
  <2>1. CASE polls = <<>>
    BY <1>1, <2>1 DEF LastAsked
  <2>2. CASE polls # <<>>
    <3>1. polls \in Seq([at : Nat, slow : BOOLEAN])
      BY DEF SignInInv, PollsFit
    <3>2. polls[Len(polls)] \in [at : Nat, slow : BOOLEAN]
      <4>1. Len(polls) \in 1 .. Len(polls)
        BY <2>2, <3>1
      <4> QED BY <3>1, <4>1, ElementOfSeq
    <3> QED BY <2>2, <3>2 DEF LastAsked
  <2> QED BY <2>1, <2>2
<1>4. PICK last \in Nat : last = LastAsked
  BY <1>3
<1>5. PICK end : end = Deadline
  OBVIOUS
<1>6. time - last >= login.interval
  BY <1>1, <1>2, <1>4, <1>5
<1>7. time < device.at + CodeLives
  BY <1>1, <1>2
<1> QED BY <1>1, <1>2, <1>3, <1>4, <1>6, <1>7

\* A question asked then keeps to the interval and the life of the code.
LEMMA AskedInTime ==
    ASSUME DeviceSignInAssumption, SignInInv, WokenInTime, NEW slow \in BOOLEAN,
           polls' = Append(polls, [at |-> time, slow |-> slow]),
           device'.at = device.at, device'.interval = device.interval,
           login'.pc \notin Early
    PROVE  PolledInTime' /\ PollsFit'
<1> PICK n : n = Len(polls)
  OBVIOUS
<1>1. time \in Nat
  BY DEF SignInInv, NumbersFit
<1>2. /\ polls' \in Seq([at : Nat, slow : BOOLEAN])
      /\ n \in Nat /\ Len(polls') = n + 1
      /\ \A k \in 1 .. n : polls'[k] = polls[k]
      /\ polls'[n + 1].at = time
      /\ \A k \in 0 .. n : SlowUntil(k)' = SlowUntil(k)
  <2>1. PollsFit
    BY DEF SignInInv
  <2> QED BY <1>1, <2>1, SlowAppended
<1>3. PollsFit'
  BY <1>2 DEF PollsFit
<1>4. ASSUME NEW i \in DOMAIN polls'
      PROVE  /\ polls'[i].at < device.at + CodeLives
             /\ polls'[i].at - (IF i = 1 THEN device.at ELSE polls'[i - 1].at)
                  >= device.interval + SlowDownStep * Cardinality(SlowUntil(i - 1)')
  <2>1. i \in 1 .. (n + 1)
    BY <1>2
  <2>2. CASE i \in 1 .. n
    <3>1. i \in DOMAIN polls /\ polls'[i] = polls[i] /\ (i # 1 => polls'[i - 1] = polls[i - 1])
      BY <1>2, <2>2 DEF SignInInv, PollsFit
    <3>2. i - 1 \in 0 .. n
      BY <1>2, <2>2
    <3>3. SlowUntil(i - 1)' = SlowUntil(i - 1)
      BY <1>2, <3>2
    <3>4. /\ polls[i].at < device.at + CodeLives
          /\ polls[i].at - (IF i = 1 THEN device.at ELSE polls[i - 1].at)
               >= device.interval + SlowDownStep * Cardinality(SlowUntil(i - 1))
      BY <3>1 DEF SignInInv, PolledInTime, SlowUntil
    <3> QED BY <3>1, <3>3, <3>4
  <2>3. CASE i = n + 1
    <3>1. i - 1 = n /\ polls'[i].at = time
      BY <1>2, <2>3
    <3>2. (IF i = 1 THEN device.at ELSE polls'[i - 1].at) = LastAsked
      <4>1. CASE polls = <<>>
        BY <1>2, <2>3, <4>1 DEF LastAsked
      <4>2. CASE polls # <<>>
        <5>1. n \in 1 .. n /\ i # 1
          BY <1>2, <2>3, <4>2 DEF SignInInv, PollsFit
        <5> QED BY <1>2, <3>1, <4>2, <5>1 DEF LastAsked
      <4> QED BY <4>1, <4>2
    <3>3. SlowUntil(i - 1)' = SlowUntil(n)
      <4>1. n \in 0 .. n
        BY <1>2
      <4> QED BY <1>2, <3>1, <4>1
    <3> QED BY <3>1, <3>2, <3>3, WokenAfterTheInterval
  <2> QED BY <2>1, <2>2, <2>3
<1>5. PolledInTime'
  BY <1>4 DEF PolledInTime, SlowUntil
<1> QED BY <1>3, <1>5

\* And the sleep after it lasts as long as the answer says.
LEMMA AsleepAgain ==
    ASSUME DeviceSignInAssumption, SignInInv, WokenInTime, NEW slow \in BOOLEAN,
           polls' = Append(polls, [at |-> time, slow |-> slow]),
           device'.at = device.at, device'.interval = device.interval,
           Sleep(IF slow THEN Slower ELSE login.interval)
    PROVE  PollingKept'
<1> PICK n : n = Len(polls)
  OBVIOUS
<1> PICK c : c = Cardinality(SlowUntil(n))
  OBVIOUS
<1> DEFINE next == IF slow THEN Slower ELSE login.interval
<1>1. /\ time \in Nat /\ SlowDownStep \in Nat /\ device.interval \in Nat /\ CodeLives \in Nat
      /\ login.since \in Nat /\ login.since <= device.at /\ RecordsFit /\ PollsFit
  BY WokenAfterTheInterval DEF SignInInv, NumbersFit, DeviceSignInAssumption, PollingKept
<1>2. n \in Nat /\ c \in Nat
  BY <1>1, SlowCounted DEF PollsFit
<1>3. login.interval = device.interval + SlowDownStep * c /\ login.interval \in Nat
  BY WokenAfterTheInterval
<1>4. /\ Len(polls') = n + 1 /\ polls' # <<>> /\ polls'[n + 1].at = time
      /\ Cardinality(SlowUntil(n + 1)') = IF slow THEN c + 1 ELSE c
  BY <1>1, SlowAppended
<1>5. next = device.interval + SlowDownStep * Cardinality(SlowUntil(n + 1)') /\ next \in Nat
  <2>1. CASE slow
    <3>1. SlowDownStep * (c + 1) = SlowDownStep * c + SlowDownStep
      BY <1>1, <1>2, OneSlower
    <3>2. PICK p : p = SlowDownStep * c
      OBVIOUS
    <3>3. next = login.interval + SlowDownStep /\ Cardinality(SlowUntil(n + 1)') = c + 1
      BY <1>4, <2>1 DEF Slower
    <3> HIDE DEF next
    <3>4. p \in Nat
      BY <1>1, <1>2, <3>2, OneSlower
    <3> QED BY <1>1, <1>3, <3>1, <3>2, <3>3, <3>4
  <2>2. CASE ~slow
    BY <1>3, <1>4, <2>2
  <2> QED BY <2>1, <2>2
<1>6. ASSUME login'.pc = "asleep"
      PROVE  /\ login'.since = login.since /\ login'.interval = next
             /\ login'.wake = IF time + next < Deadline THEN time + next ELSE Deadline
  BY <1>1, <1>6, SleepFields
<1>7. Deadline = login.since + CodeLives /\ Deadline' = login'.since + CodeLives
  BY DEF Deadline
<1>8. LastAsked' = time
  BY <1>4 DEF LastAsked
<1>9. SlowUntil(Len(polls))' = SlowUntil(n + 1)'
  BY <1>4 DEF SlowUntil
<1> HIDE DEF next
<1>10. ASSUME login'.pc = "asleep"
       PROVE  \/ login'.wake >= Deadline'
              \/ login'.wake >= LastAsked' + login'.interval
  BY <1>1, <1>5, <1>6, <1>7, <1>8, <1>10
<1>11. ASSUME login'.pc = "asleep"
       PROVE  /\ login'.since <= device'.at
              /\ login'.interval = device'.interval
                    + SlowDownStep * Cardinality(SlowUntil(Len(polls))')
  BY <1>1, <1>5, <1>6, <1>9, <1>11
<1> QED BY <1>10, <1>11 DEF PollingKept

-----------------------------------------------------------------------------
(* The steps that wait for the code. *)


\* A code is issued: the first question is an interval away.
LEMMA CodeIssuedKeeps ==
    ASSUME DeviceSignInAssumption, SignInInv, CodeIssued
    PROVE  SignInInv'
<1> USE DEF SignInInv
<1>1. /\ login.pc = "asking" /\ polls = <<>> /\ device.state = "none"
      /\ UNCHANGED <<time, slt, polls, mishaps, setting, living, idOf, old, kept, aside, status, lostOf>>
  BY DEF CodeIssued, World, LoginInOrder, PollsFit, Early
<1>2. CASE login.email /\ ~setting.email
  <2>1. /\ UNCHANGED device
        /\ login'.pc = "ask" /\ login'.told = login.told /\ login'.since = login.since
        /\ login'.interval = login.interval /\ login'.wake = login.wake
        /\ login'.replaced = login.replaced /\ DOMAIN login' = DOMAIN login
    BY <1>2, AskAgainFields DEF CodeIssued, GoesTo
  <2>2. RecordsFit'
    BY <1>1, <2>1 DEF RecordsFit
  <2>3. NumbersFit'
    BY <1>1, <2>1 DEF NumbersFit, DeviceSignInAssumption, Before, ThisOne
  <2>4. SignInsFit'
    BY <1>1, <2>1 DEF SignInsFit, Before, ThisOne
  <2>5. LoginInOrder'
    BY <1>1, <2>1 DEF LoginInOrder, Early, LoginPlaces
  <2>6. SpentForGood'
    BY <1>1, <2>1 DEF SpentForGood, Agrees, NumbersFit, LoginInOrder, Early, LoginPlaces, Before, ThisOne
  <2>7. PollsFit'
    BY <1>1, <2>1 DEF PollsFit, Early
  <2>8. PollingKept'
    BY <1>1, <2>1, PollingSame
  <2>9. PolledInTime'
    BY <1>1, <2>1, PolledSame
  <2>10. NoneForgotten'
    BY <1>1, <2>1 DEF NoneForgotten, Before, ThisOne
  <2>11. StatusInOrder'
    BY <1>1, <2>1 DEF StatusInOrder
  <2>12. LoginTruth'
    BY <1>1, <2>1 DEF LoginTruth
  <2>13. IdsInOrder'
    BY <1>1, <2>1 DEF IdsInOrder
  <2> QED BY <2>2, <2>3, <2>4, <2>5, <2>6, <2>7, <2>8, <2>9, <2>10, <2>11, <2>12, <2>13 DEF SignInInv
<1>3. CASE ~(login.email /\ ~setting.email)
  <2>1. PICK i \in OfferedIntervals :
           /\ device' = [device EXCEPT !.at = time, !.state = "pending", !.interval = AtLeastOne(i)]
           /\ Sleep(AtLeastOne(i))
    BY <1>3 DEF CodeIssued
  <2>2. PICK n \in Nat : n = AtLeastOne(i)
    BY DEF AtLeastOne, DeviceSignInAssumption
  <2>3. /\ device'.at = time /\ device'.state = "pending" /\ device'.interval = n
        /\ device'.who = device.who /\ DOMAIN device' = DOMAIN device
    BY <2>1, <2>2, IssueFields
  <2>4. Sleep(n)
    BY <2>1, <2>2
  <2>5. /\ login'.since = login.since /\ login'.replaced = login.replaced
        /\ DOMAIN login' = DOMAIN login
        /\ \/ /\ login'.pc = "over" /\ login'.told = "expired"
              /\ login'.interval = login.interval /\ login'.wake = login.wake
           \/ /\ login'.pc = "asleep" /\ login'.told = login.told
              /\ login'.interval = n
              /\ login'.wake = IF time + n < Deadline THEN time + n ELSE Deadline
    BY <2>4, SleepFields
  <2>6. /\ login.since \in Nat /\ login.since <= time /\ time \in Nat /\ CodeLives \in Nat
        /\ Deadline = login.since + CodeLives /\ Deadline' = login'.since + CodeLives
    BY DEF NumbersFit, DeviceSignInAssumption, Deadline
  <2>7. NumbersFit'
    <3>1. PICK end \in Nat : end = Deadline
      BY <2>6
    <3>2. time + n \in Nat
      BY <2>2, <2>6
    <3>3. login'.wake \in Nat /\ login'.interval \in Nat
      BY <2>5, <3>1, <3>2 DEF NumbersFit
    <3> QED BY <1>1, <2>2, <2>3, <2>5, <3>3 DEF NumbersFit
  <2>8. PolledInTime'
    <3>1. polls' = <<>>
      BY <1>1
    <3>2. DOMAIN polls' = {}
      BY <3>1
    <3> QED BY <3>2 DEF PolledInTime
  <2>9. PollingKept'
    <3>1. SUFFICES ASSUME login'.pc = "asleep"
                   PROVE  PollingKept'
      BY DEF PollingKept
    <3>2. Cardinality(SlowUntil(Len(polls)))' = 0
      <4>1. polls' = <<>> /\ Len(polls') = 0
        BY <1>1
      <4>2. SlowUntil(Len(polls))' = {}
        BY <4>1 DEF SlowUntil
      <4> QED BY <4>2, FS_EmptySet
    <3>3. LastAsked' = time
      BY <1>1, <2>3 DEF LastAsked
    <3>4. SlowDownStep * 0 = 0
      BY DEF DeviceSignInAssumption
    <3>5. login'.interval = device'.interval + SlowDownStep * Cardinality(SlowUntil(Len(polls)))'
      BY <2>3, <2>5, <3>1, <3>2, <3>4
    <3>6. login'.since <= device'.at
      BY <2>3, <2>5, <2>6
    <3>7. login'.wake >= Deadline' \/ login'.wake >= LastAsked' + login'.interval
      BY <2>5, <2>6, <3>1, <3>3
    <3> QED BY <3>5, <3>6, <3>7 DEF PollingKept
  <2>10. RecordsFit' /\ SignInsFit'
    BY <1>1, <2>3, <2>5 DEF RecordsFit, SignInsFit
  <2>11. LoginInOrder'
    BY <1>1, <2>3, <2>5 DEF LoginInOrder, Early, LoginPlaces
  <2>12. SpentForGood'
    BY <1>1, <2>3, <2>5 DEF SpentForGood, Agrees, LoginInOrder, Early
  <2>13. PollsFit'
    BY <1>1, <2>5 DEF PollsFit
  <2>14. NoneForgotten' /\ StatusInOrder' /\ IdsInOrder'
    BY <1>1, <2>5 DEF NoneForgotten, StatusInOrder, IdsInOrder
  <2>15. LoginTruth'
    BY <1>1, <2>3, <2>5 DEF LoginTruth, LoginInOrder
  <2> QED BY <2>7, <2>8, <2>9, <2>10, <2>11, <2>12, <2>13, <2>14, <2>15 DEF SignInInv
<1> QED BY <1>2, <1>3


\* How a login goes to sleep again after a question.
LEMMA SleepsOn ==
    ASSUME DeviceSignInAssumption, SignInInv, WokenInTime, NEW slow \in BOOLEAN,
           Sleep(IF slow THEN Slower ELSE login.interval)
    PROVE  /\ login'.since = login.since /\ login'.replaced = login.replaced
           /\ DOMAIN login' = DOMAIN login
           /\ login'.interval \in Nat /\ login'.wake \in Nat
           /\ \/ login'.pc = "over" /\ login'.told = "expired"
              \/ login'.pc = "asleep" /\ login'.told = login.told
<1>1. PICK next : next = IF slow THEN Slower ELSE login.interval
  OBVIOUS
<1>2. /\ RecordsFit /\ time \in Nat /\ login.interval \in Nat /\ login.wake \in Nat
      /\ login.since \in Nat /\ CodeLives \in Nat /\ SlowDownStep \in Nat
  BY DEF SignInInv, NumbersFit, DeviceSignInAssumption
<1>3. next \in Nat
  BY <1>1, <1>2 DEF Slower
<1>4. Sleep(next)
  BY <1>1
<1>5. Deadline \in Nat
  BY <1>2 DEF Deadline
<1> QED BY <1>2, <1>3, <1>4, <1>5, SleepFields


\* The code is still pending, or the answer asks for more time.
LEMMA PollPendingKeeps ==
    ASSUME DeviceSignInAssumption, SignInInv, PollPending
    PROVE  SignInInv'
<1> USE DEF SignInInv
<1>1. PICK slow \in BOOLEAN :
         /\ polls' = Append(polls, [at |-> time, slow |-> slow])
         /\ Sleep(IF slow THEN Slower ELSE login.interval)
  BY DEF PollPending, Asks
<1>2. /\ UNCHANGED <<setting, time, device, slt, living, idOf, old, kept, aside, status, lostOf, mishaps>>
      /\ WokenInTime /\ login.pc = "asleep"
  BY DEF PollPending, World, WokenInTime
<1>3. /\ login'.since = login.since /\ login'.replaced = login.replaced
      /\ DOMAIN login' = DOMAIN login
      /\ login'.interval \in Nat /\ login'.wake \in Nat
      /\ \/ login'.pc = "over" /\ login'.told = "expired"
         \/ login'.pc = "asleep" /\ login'.told = login.told
  BY <1>1, <1>2, SleepsOn
<1>4. PolledInTime' /\ PollsFit'
  BY <1>1, <1>2, <1>3, AskedInTime DEF Early
<1>5. PollingKept'
  BY <1>1, <1>2, AsleepAgain
<1>6. RecordsFit' /\ NumbersFit' /\ SignInsFit'
  BY <1>2, <1>3 DEF RecordsFit, NumbersFit, SignInsFit
<1>7. LoginInOrder'
  BY <1>2, <1>3 DEF LoginInOrder, Early, LoginPlaces
<1>8. SpentForGood'
  BY <1>2, <1>3 DEF SpentForGood, Agrees, LoginInOrder
<1>9. NoneForgotten' /\ StatusInOrder' /\ IdsInOrder'
  BY <1>2, <1>3 DEF NoneForgotten, StatusInOrder, IdsInOrder
<1>10. LoginTruth'
  BY <1>2, <1>3 DEF LoginTruth
<1> QED BY <1>4, <1>5, <1>6, <1>7, <1>8, <1>9, <1>10 DEF SignInInv

\* The code was denied, has been used or is too old.
LEMMA PollSettledKeeps ==
    ASSUME DeviceSignInAssumption, SignInInv, PollSettled
    PROVE  SignInInv'
<1> USE DEF SignInInv
<1>1. /\ UNCHANGED <<setting, time, device, slt, living, idOf, old, kept, aside, status, lostOf, mishaps>>
      /\ WokenInTime /\ login.pc = "asleep"
      /\ polls' = Append(polls, [at |-> time, slow |-> FALSE])
      /\ login'.pc = "over" /\ login'.told \in {"denied", "refused", "expired"}
      /\ login'.told = "denied" => device.state = "denied"
      /\ login'.since = login.since
      /\ login'.interval = login.interval
      /\ login'.wake = login.wake
      /\ login'.replaced = login.replaced
      /\ DOMAIN login' = DOMAIN login
  BY TellFields DEF PollSettled, WokenInTime, Asks, World
<1>2. PolledInTime' /\ PollsFit'
  BY <1>1, AskedInTime DEF Early
<1>3. RecordsFit'
  BY <1>1 DEF RecordsFit
<1>4. NumbersFit'
  BY <1>1 DEF NumbersFit, DeviceSignInAssumption, Before, ThisOne
<1>5. SignInsFit'
  BY <1>1 DEF SignInsFit, Before, ThisOne
<1>6. LoginInOrder'
  BY <1>1 DEF LoginInOrder, Early, LoginPlaces
<1>7. SpentForGood'
  BY <1>1 DEF SpentForGood, Agrees, NumbersFit, LoginInOrder, Early, LoginPlaces, Before, ThisOne
<1>8. PollsFit'
  BY <1>1, <1>2
<1>9. PollingKept'
  BY <1>1, PollingSame
<1>10. PolledInTime'
  BY <1>1, <1>2
<1>11. NoneForgotten'
  BY <1>1 DEF NoneForgotten, Before, ThisOne
<1>12. StatusInOrder'
  BY <1>1 DEF StatusInOrder
<1>13. LoginTruth'
  BY <1>1 DEF LoginTruth
<1>14. IdsInOrder'
  BY <1>1 DEF IdsInOrder
<1> QED BY <1>3, <1>4, <1>5, <1>6, <1>7, <1>8, <1>9, <1>10, <1>11, <1>12, <1>13, <1>14 DEF SignInInv

\* The tokens are issued, once.
LEMMA PollSignsInKeeps ==
    ASSUME DeviceSignInAssumption, SignInInv, PollSignsIn
    PROVE  SignInInv'
<1> USE DEF SignInInv
<1>1. /\ UNCHANGED <<setting, time, slt, idOf, old, kept, aside, status, lostOf, mishaps>>
      /\ WokenInTime /\ login.pc = "asleep" /\ device.state = "approved"
      /\ polls' = Append(polls, [at |-> time, slow |-> FALSE])
      /\ living' = living \union {ThisOne}
      /\ login'.pc = "save" /\ login'.told = login.told
      /\ login'.since = login.since
      /\ login'.interval = login.interval
      /\ login'.wake = login.wake
      /\ login'.replaced = login.replaced
      /\ DOMAIN login' = DOMAIN login
      /\ device'.state = "used" /\ device'.who = device.who
      /\ device'.at = device.at
      /\ device'.interval = device.interval
      /\ DOMAIN device' = DOMAIN device
  BY SaveFields, UseFields DEF PollSignsIn, WokenInTime, Asks, GoesTo
<1>2. PolledInTime' /\ PollsFit'
  BY <1>1, AskedInTime DEF Early
<1>3. RecordsFit'
  BY <1>1 DEF RecordsFit
<1>4. NumbersFit'
  BY <1>1 DEF NumbersFit, DeviceSignInAssumption, Before, ThisOne
<1>5. SignInsFit'
  BY <1>1 DEF SignInsFit, Before, ThisOne
<1>6. LoginInOrder'
  BY <1>1 DEF LoginInOrder, Early, LoginPlaces
<1>7. SpentForGood'
  BY <1>1 DEF SpentForGood, Agrees, NumbersFit, LoginInOrder, Early, LoginPlaces, Before, ThisOne
<1>8. PollsFit'
  BY <1>1, <1>2
<1>9. PollingKept'
  BY <1>1, PollingSame
<1>10. PolledInTime'
  BY <1>1, <1>2
<1>11. NoneForgotten'
  BY <1>1 DEF NoneForgotten, Before, ThisOne
<1>12. StatusInOrder'
  BY <1>1 DEF StatusInOrder, LoginInOrder
<1>13. LoginTruth'
  BY <1>1 DEF LoginTruth, LoginInOrder
<1>14. IdsInOrder'
  BY <1>1 DEF IdsInOrder
<1> QED BY <1>3, <1>4, <1>5, <1>6, <1>7, <1>8, <1>9, <1>10, <1>11, <1>12, <1>13, <1>14 DEF SignInInv


\* No answer: the tokens may have been issued all the same.
LEMMA PollUnansweredKeeps ==
    ASSUME DeviceSignInAssumption, SignInInv, PollUnanswered
    PROVE  SignInInv'
<1> USE DEF SignInInv
<1>1. /\ UNCHANGED <<setting, time, slt, idOf, old, kept, aside, status>>
      /\ WokenInTime /\ login.pc = "asleep" /\ mishaps < MaxSignInFaults /\ mishaps' = mishaps + 1
      /\ polls' = Append(polls, [at |-> time, slow |-> FALSE]) /\ Sleep(login.interval)
  BY DEF PollUnanswered, World, WokenInTime, Amiss, Asks
<1>2. /\ device'.at = device.at /\ device'.interval = device.interval /\ device'.who = device.who
      /\ DOMAIN device' = DOMAIN device
      /\ \/ device'.state = device.state /\ living' = living /\ lostOf' = lostOf
         \/ /\ device.state = "approved" /\ device'.state = "used"
            /\ living' = living \union {ThisOne} /\ lostOf' = lostOf \union {ThisOne}
  BY UseFields DEF PollUnanswered
<1>3. /\ login'.since = login.since /\ login'.replaced = login.replaced
      /\ DOMAIN login' = DOMAIN login
      /\ login'.interval \in Nat /\ login'.wake \in Nat
      /\ \/ login'.pc = "over" /\ login'.told = "expired"
         \/ login'.pc = "asleep" /\ login'.told = login.told
  BY <1>1, SleepsOn
<1>4. PolledInTime' /\ PollsFit'
  BY <1>1, <1>2, <1>3, AskedInTime DEF Early
<1>5. PollingKept'
  BY <1>1, <1>2, AsleepAgain
<1>6. RecordsFit' /\ NumbersFit' /\ SignInsFit'
  BY <1>1, <1>2, <1>3 DEF RecordsFit, NumbersFit, SignInsFit
<1>7. LoginInOrder'
  BY <1>1, <1>2, <1>3 DEF LoginInOrder, Early, LoginPlaces
<1>8. SpentForGood'
  BY <1>1, <1>2, <1>3 DEF SpentForGood, Agrees, LoginInOrder, NumbersFit
<1>9. NoneForgotten' /\ IdsInOrder'
  BY <1>1, <1>2, <1>3 DEF NoneForgotten, IdsInOrder
<1>10. StatusInOrder'
  BY <1>1, <1>2 DEF StatusInOrder, LoginInOrder
<1>11. LoginTruth'
  BY <1>1, <1>2, <1>3 DEF LoginTruth, LoginInOrder
<1> QED BY <1>4, <1>5, <1>6, <1>7, <1>8, <1>9, <1>10, <1>11 DEF SignInInv

-----------------------------------------------------------------------------
(* The steps that spend a token, and those that save. *)

\* A short-lived token is spent, or not even sent.
LEMMA ExchangeKeeps ==
    ASSUME DeviceSignInAssumption, SignInInv, Exchange
    PROVE  SignInInv'
<1> USE DEF SignInInv
<1>a. /\ login.pc = "exchange" /\ device.state = "none" /\ (mishaps = 0 => Agrees)
      /\ UNCHANGED <<setting, time, polls, idOf, old, kept, aside, status>>
      /\ mishaps' = mishaps \/ (mishaps < MaxSignInFaults /\ mishaps' = mishaps + 1)
  BY DEF Exchange, LoginInOrder, SpentForGood, Early, Amiss
<1>b. /\ device'.state = device.state /\ device'.at = device.at
      /\ device'.interval = device.interval /\ DOMAIN device' = DOMAIN device
      /\ slt = "fresh" => device'.who \in People
      /\ slt # "fresh" => device'.who = device.who
  <2>1. CASE slt = "fresh"
    <3>1. PICK p \in People : device' = [device EXCEPT !.who = p]
      BY <2>1 DEF Exchange
    <3> QED BY <2>1, <3>1, WhoFields
  <2>2. CASE slt # "fresh"
    BY <2>2 DEF Exchange
  <2> QED BY <2>1, <2>2
<1>c. /\ login'.since = login.since /\ login'.interval = login.interval
      /\ login'.wake = login.wake /\ login'.replaced = login.replaced
      /\ DOMAIN login' = DOMAIN login
      /\ \/ /\ login'.pc = "over" /\ login'.told = "refused" /\ slt # "fresh"
            /\ living' = living /\ lostOf' = lostOf
         \/ /\ login'.pc = "over" /\ login'.told = "unreachable"
            /\ living' = living \/ (slt = "fresh" /\ living' = living \union {ThisOne})
            /\ lostOf' = lostOf \union {ThisOne}
         \/ /\ login'.pc = "save" /\ login'.told = login.told /\ slt = "fresh"
            /\ living' = living \union {ThisOne} /\ lostOf' = lostOf
  BY SaveFields, TellFields DEF Exchange, GoesTo, Amiss
<1>1. /\ UNCHANGED <<setting, time, polls, idOf, old, kept, aside, status>>
      /\ login.pc = "exchange" /\ device.state = "none"
      /\ mishaps' = mishaps \/ (mishaps < MaxSignInFaults /\ mishaps' = mishaps + 1)
      /\ login'.since = login.since
      /\ login'.interval = login.interval
      /\ login'.wake = login.wake
      /\ login'.replaced = login.replaced
      /\ DOMAIN login' = DOMAIN login
      /\ device'.state = device.state /\ device'.at = device.at
      /\ device'.interval = device.interval /\ DOMAIN device' = DOMAIN device
      /\ \/ /\ login'.pc = "over" /\ login'.told \in {"refused", "unreachable"}
            /\ living' = living /\ lostOf \subseteq lostOf' /\ device'.who = device.who
         \/ /\ login'.pc = "over" /\ login'.told \in {"refused", "unreachable"}
            /\ device'.who = device.who \/ device'.who \in People
            /\ living' \subseteq living \union {ThisOne} /\ lostOf' = lostOf \union {ThisOne}
         \/ /\ login'.pc = "save" /\ login'.told = login.told /\ device'.who \in People
            /\ living' = living \union {ThisOne} /\ lostOf' = lostOf
      /\ mishaps = 0 => Agrees
  BY <1>a, <1>b, <1>c
<1>2. RecordsFit'
  BY <1>1 DEF RecordsFit
<1>3. NumbersFit'
  BY <1>1 DEF NumbersFit, DeviceSignInAssumption, Before, ThisOne
<1>4. SignInsFit'
  BY <1>1 DEF SignInsFit, Before, ThisOne
<1>5. LoginInOrder'
  BY <1>1 DEF LoginInOrder, Early, LoginPlaces
<1>6. SpentForGood'
  BY <1>1 DEF SpentForGood, Agrees, NumbersFit, LoginInOrder, Early, LoginPlaces, Before, ThisOne
<1>7. PollsFit'
  BY <1>1 DEF PollsFit, Early
<1>8. PollingKept'
  BY <1>1, PollingSame
<1>9. PolledInTime'
  BY <1>1, PolledSame
<1>10. NoneForgotten'
  BY <1>1 DEF NoneForgotten, Before, ThisOne
<1>11. StatusInOrder'
  BY <1>1 DEF StatusInOrder, LoginInOrder
<1>12. LoginTruth'
  BY <1>1 DEF LoginTruth, LoginInOrder
<1>13. IdsInOrder'
  BY <1>1 DEF IdsInOrder
<1> QED BY <1>2, <1>3, <1>4, <1>5, <1>6, <1>7, <1>8, <1>9, <1>10, <1>11, <1>12, <1>13 DEF SignInInv

\* The sign-in takes the place of the one before.
LEMMA SaveKeeps ==
    ASSUME DeviceSignInAssumption, SignInInv, Save
    PROVE  SignInInv'
<1> USE DEF SignInInv
<1>1. /\ UNCHANGED <<setting, time, device, slt, polls, living, idOf, old, status>>
      /\ login.pc = "save"
      /\ mishaps' = mishaps \/ (mishaps < MaxSignInFaults /\ mishaps' = mishaps + 1)
      /\ login'.since = login.since
      /\ login'.interval = login.interval
      /\ login'.wake = login.wake
      /\ DOMAIN login' = DOMAIN login
      /\ login'.pc \in {"over", "revoke"} /\ login'.told # "mismatch"
      /\ kept' = KeptFor(ThisOne, device.who) /\ aside' = SetAside
      /\ \/ /\ login'.pc = "over" /\ login'.told = "signed_in" /\ login'.replaced = login.replaced
            /\ kept.of = 0 /\ lostOf' = lostOf
         \/ /\ login'.pc = "revoke" /\ login'.told = login.told /\ login'.replaced = kept.of
            /\ lostOf' = lostOf
         \/ /\ login'.pc = "over" /\ login'.told = "not_saved" /\ login'.replaced = login.replaced
            /\ lostOf' = lostOf \union {kept.of}
  BY TellFields, RevokeFields DEF Save, GoesTo, Amiss, LoginInOrder
<1>2. /\ UNCHANGED <<setting, time, device, slt>>
      /\ login.pc = "save"
      /\ mishaps' = mishaps \/ (mishaps < MaxSignInFaults /\ mishaps' = mishaps + 1)
      /\ login'.since = login.since
      /\ login'.interval = login.interval
      /\ login'.wake = login.wake
      /\ DOMAIN login' = DOMAIN login
      /\ login'.pc \in {"over", "revoke"} /\ login'.told # "mismatch"
  BY <1>1
<1>3. /\ kept'.of = ThisOne /\ kept'.who = device.who /\ kept'.id = idOf[device.who]
      /\ kept'.turn = 0 /\ DOMAIN kept' = {"of", "who", "id", "turn"}
  BY <1>1 DEF KeptFor
<1>4. kept = Unreadable => kept.of = 0 /\ aside' # {}
  BY <1>1, NotKeptFields DEF SetAside
<1>5. RecordsFit'
  BY <1>1, <1>3 DEF RecordsFit
<1>6. NumbersFit'
  BY <1>2 DEF NumbersFit, DeviceSignInAssumption, Before, ThisOne
<1>7. SignInsFit'
  BY <1>1, <1>3 DEF SignInsFit, Before, ThisOne
<1>8. LoginInOrder'
  BY <1>1, <1>3 DEF LoginInOrder, Early, LoginPlaces
<1>9. SpentForGood'
  BY <1>2 DEF SpentForGood, Agrees, NumbersFit, LoginInOrder, Early, LoginPlaces, Before, ThisOne
<1>10. PollsFit'
  BY <1>1 DEF PollsFit, Early
<1>11. PollingKept'
  BY <1>1, PollingSame
<1>12. PolledInTime'
  BY <1>1, PolledSame
<1>13. NoneForgotten'
  BY <1>1, <1>3, <1>4, NotKeptFields DEF NoneForgotten, SignInsFit, SetAside, Before, ThisOne
<1>14. StatusInOrder'
  BY <1>1 DEF StatusInOrder
<1>15. LoginTruth'
  BY <1>1, <1>3 DEF LoginTruth
<1>16. IdsInOrder'
  BY <1>1, <1>3 DEF IdsInOrder, LoginInOrder, IdsOfPeople, Before, ThisOne
<1> QED BY <1>5, <1>6, <1>7, <1>8, <1>9, <1>10, <1>11, <1>12, <1>13, <1>14, <1>15, <1>16 DEF SignInInv

\* The sign-in could not be saved.
LEMMA SaveFailsKeeps ==
    ASSUME DeviceSignInAssumption, SignInInv, SaveFails
    PROVE  SignInInv'
<1> USE DEF SignInInv
<1>1. /\ UNCHANGED <<setting, time, device, slt, polls, living, idOf, old, kept, aside, status>>
      /\ login.pc = "save"
      /\ mishaps' = mishaps \/ (mishaps < MaxSignInFaults /\ mishaps' = mishaps + 1)
      /\ login'.since = login.since
      /\ login'.interval = login.interval
      /\ login'.wake = login.wake
      /\ login'.replaced = login.replaced
      /\ DOMAIN login' = DOMAIN login
      /\ lostOf' = lostOf \union {ThisOne}
      /\ login'.pc = "over" /\ login'.told \in {"not_saved"}
  BY TellFields DEF SaveFails, Amiss
<1>2. /\ UNCHANGED <<setting, time, device, slt>>
      /\ login.pc = "save"
      /\ mishaps' = mishaps \/ (mishaps < MaxSignInFaults /\ mishaps' = mishaps + 1)
      /\ login'.since = login.since
      /\ login'.interval = login.interval
      /\ login'.wake = login.wake
      /\ login'.replaced = login.replaced
      /\ DOMAIN login' = DOMAIN login
      /\ login'.pc = "over" /\ login'.told \in {"not_saved"}
  BY <1>1
<1>3. RecordsFit'
  BY <1>1 DEF RecordsFit
<1>4. NumbersFit'
  BY <1>2 DEF NumbersFit, DeviceSignInAssumption, Before, ThisOne
<1>5. SignInsFit'
  BY <1>1 DEF SignInsFit, Before, ThisOne
<1>6. LoginInOrder'
  BY <1>1 DEF LoginInOrder, Early, LoginPlaces
<1>7. SpentForGood'
  BY <1>2 DEF SpentForGood, Agrees, NumbersFit, LoginInOrder, Early, LoginPlaces, Before, ThisOne
<1>8. PollsFit'
  BY <1>1 DEF PollsFit, Early
<1>9. PollingKept'
  BY <1>1, PollingSame
<1>10. PolledInTime'
  BY <1>1, PolledSame
<1>11. NoneForgotten'
  BY <1>1 DEF NoneForgotten, Before, ThisOne
<1>12. StatusInOrder'
  BY <1>1 DEF StatusInOrder
<1>13. LoginTruth'
  BY <1>1 DEF LoginTruth
<1>14. IdsInOrder'
  BY <1>1 DEF IdsInOrder
<1> QED BY <1>3, <1>4, <1>5, <1>6, <1>7, <1>8, <1>9, <1>10, <1>11, <1>12, <1>13, <1>14 DEF SignInInv

\* The sign-in that was replaced is ended.
LEMMA RevokeTheOtherKeeps ==
    ASSUME DeviceSignInAssumption, SignInInv, RevokeTheOther
    PROVE  SignInInv'
<1> USE DEF SignInInv
<1>1. /\ UNCHANGED <<setting, time, device, slt, polls, idOf, old, kept, aside, status>>
      /\ login.pc = "revoke"
      /\ mishaps' = mishaps \/ (mishaps < MaxSignInFaults /\ mishaps' = mishaps + 1)
      /\ login'.since = login.since
      /\ login'.interval = login.interval
      /\ login'.wake = login.wake
      /\ login'.replaced = login.replaced
      /\ DOMAIN login' = DOMAIN login
      /\ \/ living' = living \ {login.replaced} /\ lostOf' = lostOf
         \/ living' = living /\ lostOf' = lostOf \union {login.replaced}
      /\ login'.pc = "over" /\ login'.told \in {"signed_in"}
  BY TellFields DEF RevokeTheOther, Amiss
<1>2. /\ UNCHANGED <<setting, time, device, slt>>
      /\ login.pc = "revoke"
      /\ mishaps' = mishaps \/ (mishaps < MaxSignInFaults /\ mishaps' = mishaps + 1)
      /\ login'.since = login.since
      /\ login'.interval = login.interval
      /\ login'.wake = login.wake
      /\ login'.replaced = login.replaced
      /\ DOMAIN login' = DOMAIN login
      /\ login'.pc = "over" /\ login'.told \in {"signed_in"}
  BY <1>1
<1>3. RecordsFit'
  BY <1>1 DEF RecordsFit
<1>4. NumbersFit'
  BY <1>2 DEF NumbersFit, DeviceSignInAssumption, Before, ThisOne
<1>5. SignInsFit'
  BY <1>1 DEF SignInsFit, Before, ThisOne
<1>6. LoginInOrder'
  BY <1>1 DEF LoginInOrder, Early, LoginPlaces
<1>7. SpentForGood'
  BY <1>2 DEF SpentForGood, Agrees, NumbersFit, LoginInOrder, Early, LoginPlaces, Before, ThisOne
<1>8. PollsFit'
  BY <1>1 DEF PollsFit, Early
<1>9. PollingKept'
  BY <1>1, PollingSame
<1>10. PolledInTime'
  BY <1>1, PolledSame
<1>11. NoneForgotten'
  BY <1>1 DEF NoneForgotten, Before, ThisOne
<1>12. StatusInOrder'
  BY <1>1 DEF StatusInOrder
<1>13. LoginTruth'
  BY <1>1 DEF LoginTruth
<1>14. IdsInOrder'
  BY <1>1 DEF IdsInOrder
<1> QED BY <1>3, <1>4, <1>5, <1>6, <1>7, <1>8, <1>9, <1>10, <1>11, <1>12, <1>13, <1>14 DEF SignInInv

\* The login is killed.
LEMMA KillLoginKeeps ==
    ASSUME DeviceSignInAssumption, SignInInv, KillLogin
    PROVE  SignInInv'
<1> USE DEF SignInInv
<1>1. /\ UNCHANGED <<setting, time, device, slt, polls, living, idOf, old, kept, aside, status>>
      /\ login.pc # "over"
      /\ mishaps' = mishaps \/ (mishaps < MaxSignInFaults /\ mishaps' = mishaps + 1)
      /\ login'.since = login.since
      /\ login'.interval = login.interval
      /\ login'.wake = login.wake
      /\ login'.replaced = login.replaced
      /\ DOMAIN login' = DOMAIN login
      /\ lostOf \subseteq lostOf'
      /\ login.pc = "save" => ThisOne \in lostOf'
      /\ login.pc = "revoke" => login.replaced \in lostOf'
      /\ login'.pc = "over" /\ login'.told \in {"killed"}
  BY KillFields DEF KillLogin, Amiss
<1>2. RecordsFit'
  BY <1>1 DEF RecordsFit
<1>3. NumbersFit'
  BY <1>1 DEF NumbersFit, DeviceSignInAssumption, Before, ThisOne
<1>4. SignInsFit'
  BY <1>1 DEF SignInsFit, Before, ThisOne
<1>5. LoginInOrder'
  BY <1>1 DEF LoginInOrder, Early, LoginPlaces
<1>6. SpentForGood'
  BY <1>1 DEF SpentForGood, Agrees, NumbersFit, LoginInOrder, Early, LoginPlaces, Before, ThisOne
<1>7. PollsFit'
  BY <1>1 DEF PollsFit, Early
<1>8. PollingKept'
  BY <1>1, PollingSame
<1>9. PolledInTime'
  BY <1>1, PolledSame
<1>10. NoneForgotten'
  BY <1>1 DEF NoneForgotten, Before, ThisOne
<1>11. StatusInOrder'
  BY <1>1 DEF StatusInOrder
<1>12. LoginTruth'
  BY <1>1 DEF LoginTruth
<1>13. IdsInOrder'
  BY <1>1 DEF IdsInOrder
<1> QED BY <1>2, <1>3, <1>4, <1>5, <1>6, <1>7, <1>8, <1>9, <1>10, <1>11, <1>12, <1>13 DEF SignInInv

-----------------------------------------------------------------------------
(* The steps of a status. *)

\* The status reads the file.
LEMMA StatusReadsKeeps ==
    ASSUME DeviceSignInAssumption, SignInInv, StatusReads
    PROVE  SignInInv'
<1> USE DEF SignInInv
<1>0. ASSUME kept.of # 0
      PROVE  StatusReads => /\ status'.pc \in {"refresh", "show"} /\ status'.told = status.told
                            /\ status'.token = kept /\ status'.forced = status.forced
                            /\ DOMAIN status' = DOMAIN status
  <2>1. PICK place : place = IF NeedsRefresh(kept) THEN "refresh" ELSE "show"
    OBVIOUS
  <2>2. StatusReads => status' = [status EXCEPT !.pc = place, !.token = kept]
    BY <1>0, <2>1 DEF StatusReads
  <2> QED BY <2>1, <2>2, ShowFields
<1>1. /\ UNCHANGED <<setting, time, device, slt, login, polls, living, idOf, old, kept, aside, lostOf, mishaps>>
      /\ DOMAIN status' = DOMAIN status
      /\ \/ /\ status'.pc = "over" /\ status'.told \in {"unreadable", "not_signed_in"}
            /\ status'.token = status.token
         \/ /\ status'.pc \in {"refresh", "show"} /\ status'.told = status.told
            /\ status'.token = kept /\ kept.of # 0 /\ status'.forced = status.forced
      /\ status.pc = "begin"
  BY <1>0, ReportFields DEF StatusReads
<1>2. RecordsFit'
  BY <1>1 DEF RecordsFit
<1>3. NumbersFit'
  BY <1>1 DEF NumbersFit, DeviceSignInAssumption, Before, ThisOne
<1>4. SignInsFit'
  BY <1>1 DEF SignInsFit, Before, ThisOne
<1>5. LoginInOrder'
  BY <1>1 DEF LoginInOrder
<1>6. SpentForGood'
  BY <1>1 DEF SpentForGood, Agrees, NumbersFit, LoginInOrder, Early, LoginPlaces, Before, ThisOne
<1>7. PollsFit'
  BY <1>1 DEF PollsFit, Early
<1>8. PollingKept'
  BY <1>1, PollingSame
<1>9. PolledInTime'
  BY <1>1, PolledSame
<1>10. NoneForgotten'
  BY <1>1 DEF NoneForgotten, Before, ThisOne
<1>11. StatusInOrder'
  BY <1>1 DEF StatusInOrder, IdsInOrder
<1>12. LoginTruth'
  BY <1>1 DEF LoginTruth
<1>13. IdsInOrder'
  BY <1>1 DEF IdsInOrder
<1> QED BY <1>2, <1>3, <1>4, <1>5, <1>6, <1>7, <1>8, <1>9, <1>10, <1>11, <1>12, <1>13 DEF SignInInv


\* The status refreshes the sign-in in the file.
LEMMA RefreshForStatusKeeps ==
    ASSUME DeviceSignInAssumption, SignInInv, RefreshForStatus
    PROVE  SignInInv'
<1> USE DEF SignInInv
<1>1. /\ UNCHANGED <<setting, time, device, slt, login, polls, living, idOf, old, aside>>
      /\ status.pc = "refresh"
  BY DEF RefreshForStatus
<1>2. /\ mishaps' = mishaps \/ (mishaps < MaxSignInFaults /\ mishaps' = mishaps + 1)
      /\ lostOf \subseteq lostOf'
  BY DEF RefreshForStatus, Amiss
<1>3. \/ /\ Report("unverified") /\ kept' = kept
      \/ /\ kept.of # 0 /\ ~status.forced /\ kept' = kept
         /\ status' = [status EXCEPT !.pc = "show", !.token = kept]
      \/ /\ kept.of \in living /\ kept' = RotatedHere
         /\ status' = [status EXCEPT !.pc = "show", !.token = kept']
      \/ /\ kept.of # 0 /\ kept.of \notin living /\ kept' = NotKept
         /\ status' = [status EXCEPT !.pc = "over", !.told = "signed_out", !.token = kept]
      \/ /\ kept.of # 0 /\ kept' = kept
         /\ status' = [status EXCEPT !.pc = "show", !.token = kept, !.unsure = TRUE]
  BY DEF RefreshForStatus
<1>4. kept.turn \in Nat /\ kept.turn + 1 \in Nat /\ kept.turn + 1 # 0 /\ 0 \notin living
  BY DEF SignInsFit, Before, ThisOne
<1>5. /\ DOMAIN kept' = {"of", "who", "id", "turn"} /\ kept'.turn \in Nat
      /\ \/ kept' = kept
         \/ kept'.of = kept.of /\ kept.of # 0 /\ kept'.who = kept.who /\ kept'.id = idOf[kept.who]
         \/ kept'.of = 0 /\ kept.of # 0 /\ kept.of \notin living
  BY <1>3, <1>4, RotatedFields, NotKeptFields DEF RecordsFit
<1>6. /\ DOMAIN status' = DOMAIN status
      /\ \/ status'.pc = "over" /\ status'.told = "unverified" /\ status'.token = status.token
         \/ /\ status'.pc = "over" /\ status'.told = "signed_out" /\ status'.token = kept
            /\ kept.of # 0 /\ kept.of \notin living
         \/ /\ status'.pc = "show" /\ status'.told = status.told /\ kept'.of # 0
            /\ status'.token = kept' /\ (status'.forced => status'.unsure \/ kept'.turn # 0)
  <2>1. CASE Report("unverified")
    BY <2>1, ReportFields
  <2>2. CASE /\ kept.of # 0 /\ ~status.forced /\ kept' = kept
             /\ status' = [status EXCEPT !.pc = "show", !.token = kept]
    BY <2>2, ShowFields
  <2>3. CASE /\ kept.of \in living /\ kept' = RotatedHere
             /\ status' = [status EXCEPT !.pc = "show", !.token = kept']
    <3>1. PICK token : token = kept'
      OBVIOUS
    <3>2. status' = [status EXCEPT !.pc = "show", !.token = token]
      BY <2>3, <3>1
    <3>3. /\ status'.pc = "show" /\ status'.told = status.told /\ status'.token = token
          /\ DOMAIN status' = DOMAIN status
      BY <3>2, ShowFields
    <3>4. kept'.of # 0 /\ kept'.turn # 0
      BY <1>4, <2>3, RotatedFields
    <3> QED BY <3>1, <3>3, <3>4
  <2>4. CASE /\ kept.of # 0 /\ kept.of \notin living /\ kept' = NotKept
             /\ status' = [status EXCEPT !.pc = "over", !.told = "signed_out", !.token = kept]
    BY <2>4, SignedOutFields
  <2>5. CASE /\ kept.of # 0 /\ kept' = kept
             /\ status' = [status EXCEPT !.pc = "show", !.token = kept, !.unsure = TRUE]
    BY <2>5, UnsureFields
  <2> QED BY <1>3, <2>1, <2>2, <2>3, <2>4, <2>5
<1>7. RecordsFit'
  BY <1>1, <1>5, <1>6 DEF RecordsFit
<1>8. NumbersFit'
  BY <1>1, <1>2 DEF NumbersFit, DeviceSignInAssumption
<1>9. SignInsFit'
  BY <1>1, <1>5, <1>6 DEF SignInsFit, Before, ThisOne
<1>10. LoginInOrder'
  BY <1>1, <1>5, <1>6 DEF LoginInOrder, ThisOne
<1>11. SpentForGood'
  BY <1>1, <1>2 DEF SpentForGood, Agrees, NumbersFit
<1>12. PollsFit' /\ PollingKept' /\ PolledInTime'
  BY <1>1, PolledSame, PollingSame DEF PollsFit
<1>13. NoneForgotten'
  BY <1>1, <1>2, <1>4, <1>5, NotKeptFields DEF NoneForgotten
<1>14. IdsInOrder'
  BY <1>1, <1>5 DEF IdsInOrder, IdsOfPeople
<1>15. StatusInOrder'
  BY <1>1, <1>5, <1>6, <1>14 DEF StatusInOrder, IdsInOrder
<1>16. LoginTruth'
  BY <1>1, <1>5 DEF LoginTruth, ThisOne
<1> QED BY <1>7, <1>8, <1>9, <1>10, <1>11, <1>12, <1>13, <1>14, <1>15, <1>16 DEF SignInInv

\* The status shows the access token to Briefcase.
LEMMA ShowToBriefcaseKeeps ==
    ASSUME DeviceSignInAssumption, SignInInv, ShowToBriefcase
    PROVE  SignInInv'
<1> USE DEF SignInInv
<1>1. /\ UNCHANGED <<setting, time, device, slt, login, polls, living, idOf, old, kept, aside, lostOf>>
      /\ status.pc = "show"
      /\ mishaps' = mishaps \/ (mishaps < MaxSignInFaults /\ mishaps' = mishaps + 1)
      /\ DOMAIN status' = DOMAIN status
      /\ status'.token = status.token /\ status'.unsure = status.unsure
      /\ \/ /\ status'.pc = "remember" /\ status'.told = status.told
            /\ status'.me = idOf[status.token.who]
         \/ /\ status'.pc = "over" /\ status'.told = "signed_out" /\ status.forced
            /\ AccessToken(status.token) \in old.service \/ status.token.of \notin living
         \/ status'.pc = "refresh" /\ status'.told = status.told
         \/ status'.pc = "over" /\ status'.told = "unverified"
  BY MeFields, ReportFields, ForcedFields DEF ShowToBriefcase, GivesUpOnRefusal, Amiss
<1>2. RecordsFit'
  BY <1>1 DEF RecordsFit
<1>3. NumbersFit'
  BY <1>1 DEF NumbersFit, DeviceSignInAssumption, Before, ThisOne
<1>4. SignInsFit'
  BY <1>1 DEF SignInsFit, Before, ThisOne
<1>5. LoginInOrder'
  BY <1>1 DEF LoginInOrder
<1>6. SpentForGood'
  BY <1>1 DEF SpentForGood, Agrees, NumbersFit, LoginInOrder, Early, LoginPlaces, Before, ThisOne
<1>7. PollsFit'
  BY <1>1 DEF PollsFit, Early
<1>8. PollingKept'
  BY <1>1, PollingSame
<1>9. PolledInTime'
  BY <1>1, PolledSame
<1>10. NoneForgotten'
  BY <1>1 DEF NoneForgotten, Before, ThisOne
<1>11. StatusInOrder'
  BY <1>1 DEF StatusInOrder, IdsInOrder, IdsOfPeople, AccessToken
<1>12. LoginTruth'
  BY <1>1 DEF LoginTruth
<1>13. IdsInOrder'
  BY <1>1 DEF IdsInOrder
<1> QED BY <1>2, <1>3, <1>4, <1>5, <1>6, <1>7, <1>8, <1>9, <1>10, <1>11, <1>12, <1>13 DEF SignInInv

\* The id that Briefcase named is kept with the account it named.
LEMMA RememberIdentityKeeps ==
    ASSUME DeviceSignInAssumption, SignInInv, RememberIdentity
    PROVE  SignInInv'
<1> USE DEF SignInInv
<1>1. /\ UNCHANGED <<setting, time, device, slt, login, polls, living, idOf, old, aside, lostOf, mishaps>>
      /\ status.pc = "remember"
      /\ DOMAIN status' = DOMAIN status
      /\ status'.pc = "over" /\ status'.told = "verified" /\ status'.token = status.token
      /\ kept'.of = kept.of /\ kept'.turn = kept.turn /\ DOMAIN kept' = DOMAIN kept
      /\ kept'.who = kept.who
      /\ kept' = kept \/ (kept.of # 0 /\ kept'.id = status.me /\ kept.who = status.me[1])
  BY ReportFields, RememberFields DEF RememberIdentity, SameAccount
<1>2. RecordsFit'
  BY <1>1 DEF RecordsFit
<1>3. NumbersFit'
  BY <1>1 DEF NumbersFit, DeviceSignInAssumption, Before, ThisOne
<1>4. SignInsFit'
  BY <1>1 DEF SignInsFit, Before, ThisOne
<1>5. LoginInOrder'
  BY <1>1 DEF LoginInOrder
<1>6. SpentForGood'
  BY <1>1 DEF SpentForGood, Agrees, NumbersFit, LoginInOrder, Early, LoginPlaces, Before, ThisOne
<1>7. PollsFit'
  BY <1>1 DEF PollsFit, Early
<1>8. PollingKept'
  BY <1>1, PollingSame
<1>9. PolledInTime'
  BY <1>1, PolledSame
<1>10. NoneForgotten'
  BY <1>1, NotKeptFields DEF NoneForgotten, SignInsFit, Before, ThisOne
<1>11. StatusInOrder'
  BY <1>1 DEF StatusInOrder
<1>12. LoginTruth'
  BY <1>1 DEF LoginTruth
<1>13. IdsInOrder'
  BY <1>1 DEF IdsInOrder, StatusInOrder
<1> QED BY <1>2, <1>3, <1>4, <1>5, <1>6, <1>7, <1>8, <1>9, <1>10, <1>11, <1>12, <1>13 DEF SignInInv


-----------------------------------------------------------------------------
(* What happens meanwhile. *)

\* Time passes.
LEMMA PassKeeps ==
    ASSUME DeviceSignInAssumption, SignInInv, Pass
    PROVE  SignInInv'
<1> USE DEF SignInInv
<1>1. /\ UNCHANGED <<setting, device, slt, login, polls, living, idOf, old, kept, aside, status, lostOf, mishaps>>
      /\ time \in Nat /\ time' = time + 1 /\ time < MaxSignInClock
  BY DEF Pass, Elsewhere, NumbersFit
<1>2. RecordsFit'
  BY <1>1 DEF RecordsFit
<1>3. NumbersFit'
  BY <1>1 DEF NumbersFit, DeviceSignInAssumption, Before, ThisOne
<1>4. SignInsFit'
  BY <1>1 DEF SignInsFit, Before, ThisOne
<1>5. LoginInOrder'
  BY <1>1 DEF LoginInOrder, Early, LoginPlaces
<1>6. SpentForGood'
  BY <1>1 DEF SpentForGood, Agrees, NumbersFit, LoginInOrder, Early, LoginPlaces, Before, ThisOne
<1>7. PollsFit'
  BY <1>1 DEF PollsFit, Early
<1>8. PollingKept'
  BY <1>1, PollingSame
<1>9. PolledInTime'
  BY <1>1, PolledSame
<1>10. NoneForgotten'
  BY <1>1 DEF NoneForgotten, Before, ThisOne
<1>11. StatusInOrder'
  BY <1>1 DEF StatusInOrder
<1>12. LoginTruth'
  BY <1>1 DEF LoginTruth
<1>13. IdsInOrder'
  BY <1>1 DEF IdsInOrder
<1> QED BY <1>2, <1>3, <1>4, <1>5, <1>6, <1>7, <1>8, <1>9, <1>10, <1>11, <1>12, <1>13 DEF SignInInv

\* A sign-in ends.
LEMMA EndSignInKeeps ==
    ASSUME DeviceSignInAssumption, SignInInv, NEW s, EndSignIn(s)
    PROVE  SignInInv'
<1> USE DEF SignInInv
<1>1. /\ UNCHANGED <<setting, time, device, slt, login, polls, idOf, old, kept, aside, status, lostOf, mishaps>>
      /\ living' = living \ {s}
  BY DEF EndSignIn, Elsewhere
<1>2. RecordsFit'
  BY <1>1 DEF RecordsFit
<1>3. NumbersFit'
  BY <1>1 DEF NumbersFit, DeviceSignInAssumption, Before, ThisOne
<1>4. SignInsFit'
  BY <1>1 DEF SignInsFit, Before, ThisOne
<1>5. LoginInOrder'
  BY <1>1 DEF LoginInOrder, Early, LoginPlaces
<1>6. SpentForGood'
  BY <1>1 DEF SpentForGood, Agrees, NumbersFit, LoginInOrder, Early, LoginPlaces, Before, ThisOne
<1>7. PollsFit'
  BY <1>1 DEF PollsFit, Early
<1>8. PollingKept'
  BY <1>1, PollingSame
<1>9. PolledInTime'
  BY <1>1, PolledSame
<1>10. NoneForgotten'
  BY <1>1 DEF NoneForgotten, Before, ThisOne
<1>11. StatusInOrder'
  BY <1>1 DEF StatusInOrder
<1>12. LoginTruth'
  BY <1>1 DEF LoginTruth
<1>13. IdsInOrder'
  BY <1>1 DEF IdsInOrder
<1> QED BY <1>2, <1>3, <1>4, <1>5, <1>6, <1>7, <1>8, <1>9, <1>10, <1>11, <1>12, <1>13 DEF SignInInv

\* An account gets another id.
LEMMA ChangeIdOfKeeps ==
    ASSUME DeviceSignInAssumption, SignInInv, NEW p \in People, ChangeIdOf(p)
    PROVE  SignInInv'
<1> USE DEF SignInInv
<1>1. /\ UNCHANGED <<setting, time, device, slt, login, polls, living, old, kept, aside, status, lostOf, mishaps>>
      /\ idOf' = [idOf EXCEPT ![p] = <<p, 1>>]
  BY DEF ChangeIdOf, Elsewhere
<1>2. RecordsFit'
  BY <1>1 DEF RecordsFit
<1>3. NumbersFit'
  BY <1>1 DEF NumbersFit, DeviceSignInAssumption, Before, ThisOne
<1>4. SignInsFit'
  BY <1>1 DEF SignInsFit, Before, ThisOne
<1>5. LoginInOrder'
  BY <1>1 DEF LoginInOrder, Early, LoginPlaces
<1>6. SpentForGood'
  BY <1>1 DEF SpentForGood, Agrees, NumbersFit, LoginInOrder, Early, LoginPlaces, Before, ThisOne
<1>7. PollsFit'
  BY <1>1 DEF PollsFit, Early
<1>8. PollingKept'
  BY <1>1, PollingSame
<1>9. PolledInTime'
  BY <1>1, PolledSame
<1>10. NoneForgotten'
  BY <1>1 DEF NoneForgotten, Before, ThisOne
<1>11. StatusInOrder'
  BY <1>1 DEF StatusInOrder
<1>12. LoginTruth'
  BY <1>1 DEF LoginTruth
<1>13. IdsInOrder'
  BY <1>1 DEF IdsInOrder
<1> QED BY <1>2, <1>3, <1>4, <1>5, <1>6, <1>7, <1>8, <1>9, <1>10, <1>11, <1>12, <1>13 DEF SignInInv

\* A logout elsewhere.
LEMMA LogOutKeeps ==
    ASSUME DeviceSignInAssumption, SignInInv, LogOut
    PROVE  SignInInv'
<1> USE DEF SignInInv
<1>1. /\ UNCHANGED <<setting, time, device, slt, login, polls, idOf, old, aside, status, lostOf, mishaps>>
      /\ kept.of # 0 /\ kept' = NotKept /\ living' = living \ {kept.of}
      /\ kept'.of = 0 /\ kept'.turn = 0 /\ DOMAIN kept' = {"of", "who", "id", "turn"}
  BY NotKeptFields DEF LogOut
<1>2. /\ UNCHANGED <<login, status>> /\ living' \subseteq living
      /\ kept'.of = 0 /\ kept'.turn = 0
  BY <1>1
<1>3. RecordsFit'
  BY <1>1 DEF RecordsFit
<1>4. NumbersFit'
  BY <1>1 DEF NumbersFit, DeviceSignInAssumption, Before, ThisOne
<1>5. SignInsFit'
  BY <1>2 DEF SignInsFit
<1>6. LoginInOrder'
  BY <1>1 DEF LoginInOrder, ThisOne
<1>7. SpentForGood'
  BY <1>1 DEF SpentForGood, Agrees, NumbersFit, LoginInOrder, Early, LoginPlaces, Before, ThisOne
<1>8. PollsFit'
  BY <1>1 DEF PollsFit, Early
<1>9. PollingKept'
  BY <1>1, PollingSame
<1>10. PolledInTime'
  BY <1>1, PolledSame
<1>11. NoneForgotten'
  BY <1>1, NotKeptFields DEF NoneForgotten
<1>12. StatusInOrder'
  BY <1>1 DEF StatusInOrder
<1>13. LoginTruth'
  BY <1>1 DEF LoginTruth, ThisOne
<1>14. IdsInOrder'
  BY <1>1 DEF IdsInOrder
<1> QED BY <1>3, <1>4, <1>5, <1>6, <1>7, <1>8, <1>9, <1>10, <1>11, <1>12, <1>13, <1>14 DEF SignInInv

\* An access token grows too old: one that has not been renewed.
LEMMA ExpireKeeps ==
    ASSUME DeviceSignInAssumption, SignInInv, Expire
    PROVE  SignInInv'
<1> USE DEF SignInInv
<1>1. /\ UNCHANGED <<setting, time, device, slt, login, polls, living, idOf, kept, aside, status, lostOf, mishaps>>
      /\ \A t \in old'.service : t \in old.service \/ t[2] = 0
  BY DEF Expire, Elsewhere, AccessToken
<1>2. RecordsFit'
  BY <1>1 DEF RecordsFit
<1>3. NumbersFit'
  BY <1>1 DEF NumbersFit, DeviceSignInAssumption, Before, ThisOne
<1>4. SignInsFit'
  BY <1>1 DEF SignInsFit, Before, ThisOne
<1>5. LoginInOrder'
  BY <1>1 DEF LoginInOrder, Early, LoginPlaces
<1>6. SpentForGood'
  BY <1>1 DEF SpentForGood, Agrees, NumbersFit, LoginInOrder, Early, LoginPlaces, Before, ThisOne
<1>7. PollsFit'
  BY <1>1 DEF PollsFit, Early
<1>8. PollingKept'
  BY <1>1, PollingSame
<1>9. PolledInTime'
  BY <1>1, PolledSame
<1>10. NoneForgotten'
  BY <1>1 DEF NoneForgotten, Before, ThisOne
<1>11. StatusInOrder'
  BY <1>1 DEF StatusInOrder
<1>12. LoginTruth'
  BY <1>1 DEF LoginTruth
<1>13. IdsInOrder'
  BY <1>1 DEF IdsInOrder
<1> QED BY <1>2, <1>3, <1>4, <1>5, <1>6, <1>7, <1>8, <1>9, <1>10, <1>11, <1>12, <1>13 DEF SignInInv

-----------------------------------------------------------------------------
(* The invariant, and what it is for. *)

\* A login begins with nothing spent and nothing asked.
LEMMA SignInBegins ==
    ASSUME DeviceSignInAssumption, SignInInit
    PROVE  SignInInv
<1>1. /\ Owner \in People /\ MaxSignInClock \in Nat /\ MaxSignInFaults \in Nat
  BY DEF DeviceSignInAssumption, Owner
<1>2. /\ time = 0 /\ mishaps = 0 /\ polls = <<>> /\ aside = {} /\ lostOf = {}
      /\ slt # "spent" /\ old.service = {}
  BY DEF SignInInit
<1>3. /\ login.pc = "begin" /\ login.since = 0 /\ login.interval = 0 /\ login.wake = 0
      /\ login.replaced = 0 /\ login.told = "nothing"
      /\ DOMAIN login = {"pc", "since", "interval", "wake", "email", "replaced", "told"}
  BY DEF SignInInit
<1>4. /\ device.at = 0 /\ device.state = "none" /\ device.interval = 0
      /\ DOMAIN device = {"at", "state", "who", "interval"}
  BY DEF SignInInit
<1>5. DOMAIN idOf = People /\ \A p \in People : idOf[p] = <<p, 0>>
  BY DEF SignInInit
<1>6. kept \in {NotKept, Unreadable, KeptFor(Before, Owner)}
  BY DEF SignInInit
<1>7. /\ kept.of \in {0, Before} /\ kept.turn \in Nat /\ DOMAIN kept = {"of", "who", "id", "turn"}
      /\ kept.of # 0 => kept.of = Before /\ kept.who = Owner /\ kept.id = idOf[Owner]
      /\ kept.of = 0 => kept \in {NotKept, Unreadable}
  BY <1>6, KeptForFields, NotKeptFields DEF Before
<1>8. living = IF kept = NotKept THEN {} ELSE {Before}
  BY DEF SignInInit
<1>9. /\ status.pc \in {"begin", "over"} /\ ~status.forced /\ status.told = "nothing"
      /\ status.token = NotKept
      /\ DOMAIN status = {"pc", "forced", "token", "me", "unsure", "told"}
  BY DEF SignInInit
<1>10. RecordsFit
  BY <1>3, <1>4, <1>7, <1>9 DEF RecordsFit
<1>11. NumbersFit
  BY <1>1, <1>2, <1>3, <1>4 DEF NumbersFit
<1>12. SignInsFit
  BY <1>3, <1>7, <1>8, <1>9, NotKeptFields DEF SignInsFit
<1>13. LoginInOrder
  BY <1>2, <1>3, <1>4, <1>7, <1>9, NotKeptFields DEF LoginInOrder, Early, LoginPlaces, Before, ThisOne
<1>14. SpentForGood
  BY <1>2, <1>3, <1>4 DEF SpentForGood
<1>15. PollsFit /\ PollingKept /\ PolledInTime
  <2>1. DOMAIN polls = {}
    BY <1>2
  <2> QED BY <1>2, <1>3, <2>1 DEF PollsFit, PollingKept, PolledInTime
<1>16. NoneForgotten
  BY <1>7, <1>8 DEF NoneForgotten
<1>17. StatusInOrder
  BY <1>2, <1>9 DEF StatusInOrder
<1>18. LoginTruth
  BY <1>3 DEF LoginTruth
<1>19. IdsInOrder
  <2>1. \A p \in People : idOf[p] \in IdsOfPeople /\ idOf[p][1] = p
    BY <1>5 DEF IdsOfPeople
  <2> QED BY <1>1, <1>5, <1>7, <2>1 DEF IdsInOrder
<1> QED
  BY <1>10, <1>11, <1>12, <1>13, <1>14, <1>15, <1>16, <1>17, <1>18, <1>19 DEF SignInInv

\* Every step keeps it.
LEMMA SignInStepKeeps ==
    ASSUME DeviceSignInAssumption, SignInInv, [SignInNext]_signInVars
    PROVE  SignInInv'
<1>1. CASE LoginStep
  BY <1>1, CheckDeploymentKeeps, AskForCodeKeeps, CodeIssuedKeeps, CodeRefusedKeeps,
     StopWaitingKeeps, PollPendingKeeps, PollSettledKeeps, PollSignsInKeeps,
     PollUnansweredKeeps, ExchangeKeeps, SaveKeeps, SaveFailsKeeps, RevokeTheOtherKeeps,
     KillLoginKeeps DEF LoginStep
<1>2. CASE StatusStep
  BY <1>2, StatusReadsKeeps, RefreshForStatusKeeps, ShowToBriefcaseKeeps,
     RememberIdentityKeeps DEF StatusStep
<1>3. CASE Deny
  BY <1>3, SettleKeeps DEF Deny
<1>4. ASSUME NEW p \in People, Approve(p)
      PROVE  SignInInv'
  BY <1>4, SettleKeeps DEF Approve
<1>5. CASE Pass \/ LogOut \/ Expire
  BY <1>5, PassKeeps, LogOutKeeps, ExpireKeeps
<1>6. CASE ChangeIdOf(Owner)
  <2>1. Owner \in People
    BY DEF DeviceSignInAssumption, Owner
  <2> QED BY <1>6, <2>1, ChangeIdOfKeeps
<1>7. ASSUME NEW s \in {Before, ThisOne}, EndSignIn(s)
      PROVE  SignInInv'
  BY <1>7, EndSignInKeeps
<1>8. CASE UNCHANGED signInVars
  <2> USE <1>8 DEF signInVars, SignInInv
  <2>1. RecordsFit' /\ NumbersFit' /\ SignInsFit'
    BY DEF RecordsFit, NumbersFit, SignInsFit
  <2>2. LoginInOrder' /\ SpentForGood'
    BY DEF LoginInOrder, SpentForGood, Agrees
  <2>3. PollsFit' /\ PollingKept' /\ PolledInTime'
    BY PolledSame, PollingSame DEF PollsFit
  <2>4. NoneForgotten' /\ StatusInOrder' /\ LoginTruth' /\ IdsInOrder'
    BY DEF NoneForgotten, StatusInOrder, LoginTruth, IdsInOrder
  <2> QED BY <2>1, <2>2, <2>3, <2>4
<1> QED BY <1>1, <1>2, <1>3, <1>4, <1>5, <1>6, <1>7, <1>8 DEF SignInNext

\* It says what the runs check.
LEMMA SignInInvSuffices ==
    ASSUME SignInInv
    PROVE  SignInsHold
<1> USE DEF SignInInv
<1>1. SignInTypeOK
  BY DEF SignInTypeOK, NumbersFit, SignInsFit
<1>2. NothingSpentInVain
  BY DEF NothingSpentInVain, SpentForGood
<1>3. CommandsTellTheTruth
  BY DEF CommandsTellTheTruth, LoginTruth, StatusInOrder
<1>4. IdsBelong
  BY DEF IdsBelong, IdsInOrder
<1> QED BY <1>1, <1>2, <1>3, <1>4 DEF SignInsHold

\* A sign-in from the command line, for any interval Silicon Accounts asks for,
\* any life of a code, and losses, kills, logouts and ended sign-ins at any
\* moment: no code or token is spent where it would be refused, the code is
\* asked about no sooner than allowed, no sign-in is left behind that nobody
\* could end, and the two commands say what is so.
THEOREM SignInsAlwaysHold == SignInSpec => []SignInsHold
<1>1. SignInInit => SignInInv
  BY DeviceSignInAssumption, SignInBegins
<1>2. SignInInv /\ [SignInNext]_signInVars => SignInInv'
  BY DeviceSignInAssumption, SignInStepKeeps
<1>3. SignInInv => SignInsHold
  BY SignInInvSuffices
<1> QED BY <1>1, <1>2, <1>3, PTL DEF SignInSpec
===============================================================================
