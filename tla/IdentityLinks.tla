----------------------------- MODULE IdentityLinks -----------------------------
(***************************************************************************)
(* The cutover from organizations to personal drives: link-identities.      *)
(*                                                                          *)
(* A run takes the operator's mapping of legacy identities to accounts and, *)
(* in one transaction behind exclusive locks, renames the identities in     *)
(* every organization and moves the organizations' files into drives.  What *)
(* it changes goes to a ledger, so that a corrected mapping can be applied: *)
(* the run in place is undone first, unless a drive it touched has been     *)
(* used since.  Later the accounts themselves get new keys, and that closes *)
(* the ledger for good.                                                     *)
(*                                                                          *)
(* The tables are fields of one record.  An id is a tuple of strings, a     *)
(* name too, and a path is the tuple of the names on the way.  The closure  *)
(* of the tree is computed from the parents.                                *)
(***************************************************************************)
EXTENDS Integers, FiniteSets, Sequences, TLC

LOCAL INSTANCE SequencesExt

CONSTANTS
    Organizations,  \* the tenants from before personal drives
    LegacyStates,   \* databases before any run
    LegacyOrder,    \* the organizations' ordinary entries, by organization, path and id
    BoundTo,        \* IAM principal -> the legacy ids bound to it
    OldAddresses,   \* <<organization, path>> -> entry, kept by an earlier migration
    Mappings,       \* mapping files: sequences of rows [key, account]
    Visitors,       \* the accounts that use Briefcase
    Apps,           \* the applications they use
    Successor,      \* account -> its key in the export of new keys
    MaxRunsOfLink,
    MaxVisits

VARIABLES
    base,    \* the tables
    applied, \* the run in place: its mapping, links and ledger
    visits,  \* <<table, tenant>> written by users since the run finished
    sealed,  \* the accounts have their new keys
    origin,  \* the tables as they would be without the run
    duties,  \* what users did, and must find again
    steps    \* how many runs and visits there were

linkVars == <<base, applied, visits, sealed, origin, duties, steps>>

NoRun == [mapping |-> <<>>, links |-> <<>>, ledger |-> <<>>, done |-> FALSE]
Nowhere == <<>>
Private == <<"private", "">>
Everyone == "members"

Put(f, k, v) == (k :> v) @@ f
Without(f, S) == [x \in DOMAIN f \ S |-> f[x]]

\* s after change(_, x) for every x of a sequence, in turn, or of a set.
InTurn(s, seq, change(_, _)) ==
    LET after[n \in 0..Len(seq)] ==
            IF n = 0 THEN s
            ELSE CHOOSE next \in {change(before, seq[n]) : before \in {after[n - 1]}} : TRUE
    IN after[Len(seq)]
ForEach(s, S, change(_, _)) ==
    LET after[T \in SUBSET S] ==
            IF T = {} THEN s
            ELSE LET x == CHOOSE x \in T : TRUE
                 IN CHOOSE next \in {change(before, x) : before \in {after[T \ {x}]}} : TRUE
    IN after[S]

-----------------------------------------------------------------------------
(* The tree                                                                  *)

\* The entries on the way to the top, from each entry.
Above(d) ==
    LET above[e \in DOMAIN d.entries] ==
            {e} \cup IF d.entries[e].parent = Nowhere THEN {} ELSE above[d.entries[e].parent]
    IN above

Below(d, e) == {x \in DOMAIN d.entries : e \in Above(d)[x]}
Ordinary(d, e) == d.entries[e].system = ""
RootOf(d, u) == {e \in DOMAIN d.entries : d.entries[e].tenant = u /\ d.entries[e].system = "drive_root"}
TheRoot(d, u) == CHOOSE e \in RootOf(d, u) : TRUE
LegacyEntries(d) == {e \in DOMAIN d.entries : d.entries[e].tenant \in Organizations}

FolderOf(drive, parent, name, path, system, app) ==
    [tenant |-> drive, parent |-> parent, name |-> name, path |-> path, system |-> system, owner |-> drive,
     app |-> app, boundary |-> Private, trashed |-> FALSE, config |-> "", file |-> FALSE]

\* A run is a sequence of changes, each written to the ledger: a row it made,
\* or one it changed, with what was there before.
RowMade(s, item, org, key) ==
    [s EXCEPT !.ledger = Append(@, [item |-> item, org |-> org, key |-> key, made |-> TRUE])]
Changed(s, item, org, key, before) ==
    [s EXCEPT !.ledger = Append(@, [item |-> item, org |-> org, key |-> key, made |-> FALSE, before |-> before])]

NewFolder(s, id, drive, parent, name, system, app) ==
    LET path == IF parent = Nowhere THEN <<>> ELSE Append(s.db.entries[parent].path, name) IN
    RowMade([s EXCEPT !.db.entries = Put(@, id, FolderOf(drive, parent, name, path, system, app))],
         "folder", drive, id)

\* The name, else "name (from org)", "name (from org 2)"...: no live sibling
\* has it, and the top of a drive keeps "apps" for apps.
FreeName(d, parent, name, org) ==
    LET candidate(n) == IF n = 0 THEN name ELSE name \o <<"from", org, ToString(n)>>
        taken == {d.entries[e].name : e \in {x \in DOMAIN d.entries :
                                              d.entries[x].parent = parent /\ ~d.entries[x].trashed}}
                 \cup (IF d.entries[parent].system = "drive_root" THEN {<<"apps">>} ELSE {})
        free == {n \in 0..Cardinality(taken) : candidate(n) \notin taken}
    IN candidate(CHOOSE n \in free : \A k \in free : n <= k)

\* An account's drive: its row, its owner's participation, its top and its
\* usage, each made when it is missing.
Drive(s, u) ==
    LET owned == IF u \in s.db.drives THEN s
                 ELSE RowMade([s EXCEPT !.db.drives = @ \cup {u}], "drive", u, u)
        joined == IF <<u, u>> \in DOMAIN owned.db.members THEN owned
                  ELSE RowMade([owned EXCEPT !.db.members = Put(@, <<u, u>>, [role |-> "owner", active |-> TRUE])],
                            "participant", u, <<u, u>>)
        rooted == IF RootOf(joined.db, u) # {} THEN joined
                  ELSE NewFolder(joined, <<"root", u>>, u, Nowhere, <<u>>, "drive_root", "")
    IN IF u \in DOMAIN rooted.db.usage THEN rooted
       ELSE RowMade([rooted EXCEPT !.db.usage = Put(@, u, [stored |-> 0, limit |-> 0])], "usage", u, u)

\* The tables with a subtree moved into a folder of another tenant, and what
\* belongs to its entries moved with them.
Moved(d, top, to, parent, name) ==
    LET from == d.entries[top].tenant
        below == Below(d, top)
        depth == Len(d.entries[top].path)
        path == Append(d.entries[parent].path, name)
        follows(rows) == [r \in DOMAIN rows |->
            IF rows[r].tenant = from /\ rows[r].entry \in below THEN [rows[r] EXCEPT !.tenant = to] ELSE rows[r]]
    IN [d EXCEPT
         !.entries = [e \in DOMAIN @ |->
            IF e \notin below THEN @[e]
            ELSE [@[e] EXCEPT !.tenant = to, !.boundary = Private,
                              !.path = path \o SubSeq(@, depth + 1, Len(@)),
                              !.parent = IF e = top THEN parent ELSE @,
                              !.name = IF e = top THEN name ELSE @]],
         !.shares = follows(@), !.tagShares = follows(@), !.uploads = follows(@)]

\* A finished upload that leaves its folder behind names the file's new one.
MoveSubtree(s, top, to, parent, name) ==
    LET old == s.db
        below == Below(old, top)
        moved == Moved(old, top, to, parent, name)
        left == {u \in DOMAIN old.uploads : old.uploads[u].entry \in below /\ old.uploads[u].parent \notin below}
        before == [parent |-> old.entries[top].parent, name |-> old.entries[top].name,
                   from |-> old.entries[top].tenant,
                   entries |-> [e \in below |-> [path |-> old.entries[e].path,
                                                 boundary |-> old.entries[e].boundary]],
                   uploads |-> [u \in left |-> old.uploads[u].parent]]
    IN Changed([s EXCEPT !.db = [moved EXCEPT !.uploads = [u \in DOMAIN @ |->
                    IF u \in left THEN [@[u] EXCEPT !.parent = moved.entries[old.uploads[u].entry].parent] ELSE @[u]]]],
               "move", to, top, before)

\* The entries a run moved: entry -> its organization, old path and drive, by
\* the order of the moves.
Moves(s) == SelectSeq(s.ledger, LAMBDA change : change.item = "move")
MovedEntries(s) == UNION {DOMAIN change.before.entries : change \in ToSet(Moves(s))}
DrivesFilled(s) == {change.org : change \in ToSet(Moves(s))}
CameFrom(s, e) ==
    (CHOOSE change \in ToSet(Moves(s)) : e \in DOMAIN change.before.entries).before.from

-----------------------------------------------------------------------------
(* Reading the mapping                                                       *)

IsOrganization(row) == row.key[1] = "org"
KnownIds(d) == {m[2] : m \in {x \in DOMAIN d.members : x[1] \in Organizations}}
               \cup {d.entries[e].owner : e \in LegacyEntries(d)}

\* The legacy identities a row names: itself when some row has it, or those
\* bound to the principal.  A row that matches nothing is reported and skipped.
Identities(d, row) ==
    IF row.key[1] = "principal" THEN BoundTo[row.key[2]] ELSE {row.key[2]} \cap KnownIds(d)

LinkingRows(d, m) == {i \in DOMAIN m : ~IsOrganization(m[i]) /\ Identities(d, m[i]) # {}}
ReceivingRows(m) == {i \in DOMAIN m : IsOrganization(m[i]) /\ m[i].key[2] \in Organizations}

\* Legacy id -> account.
LinkMap(d, m) ==
    [x \in UNION {Identities(d, m[i]) : i \in LinkingRows(d, m)} |->
        m[CHOOSE i \in LinkingRows(d, m) : x \in Identities(d, m[i])].account]

\* One identity per account and one account per identity; an organization is
\* received once, by an account that is linked or known.
Resolves(d, m) ==
    /\ \A i \in LinkingRows(d, m) :
        /\ Cardinality(Identities(d, m[i])) = 1
        /\ m[i].account \notin Organizations
        /\ \A j \in LinkingRows(d, m) : (Identities(d, m[i]) = Identities(d, m[j])) <=> (m[i].account = m[j].account)
    /\ \A i \in ReceivingRows(m) :
        /\ m[i].account \notin Organizations
        /\ \A j \in ReceivingRows(m) : m[i].key = m[j].key => i = j
        /\ m[i].account \in {m[j].account : j \in LinkingRows(d, m)} \cup d.accounts

-----------------------------------------------------------------------------
(* The steps of a run                                                        *)

\* Renames the identities in every row of the organizations.
Rekey(d, names) ==
    LET as(x) == IF x \in DOMAIN names THEN names[x] ELSE x
        key(pair) == IF pair[1] \in Organizations THEN <<pair[1], as(pair[2])>> ELSE pair
        rekeyed(row) == IF row.tenant \in Organizations THEN [row EXCEPT !.by = as(@)] ELSE row
    IN [d EXCEPT
         !.members = [p \in {key(q) : q \in DOMAIN @} |-> @[CHOOSE q \in DOMAIN @ : key(q) = p]],
         !.tagged = {IF t[1] \in Organizations THEN <<t[1], as(t[2]), t[3]>> ELSE t : t \in @},
         !.entries = [e \in DOMAIN @ |->
            IF @[e].tenant \in Organizations THEN [@[e] EXCEPT !.owner = as(@)] ELSE @[e]],
         !.shares = [g \in DOMAIN @ |->
            IF @[g].tenant \in Organizations THEN [@[g] EXCEPT !.who = as(@), !.by = as(@)] ELSE @[g]],
         !.tagShares = [g \in DOMAIN @ |-> rekeyed(@[g])],
         !.notes = [n \in DOMAIN @ |->
            IF @[n].tenant \in Organizations THEN [@[n] EXCEPT !.recipient = as(@)] ELSE @[n]]]

Full(d) == {org \in Organizations : \E e \in LegacyEntries(d) : Ordinary(d, e) /\ d.entries[e].tenant = org}
ActiveOwners(d, org) ==
    {m[2] : m \in {x \in DOMAIN d.members : x[1] = org /\ d.members[x].role = "owner" /\ d.members[x].active}}
Received(m, org) == {m[i].account : i \in {j \in ReceivingRows(m) : m[j].key[2] = org}}

\* Each organization with files has one owner, linked, or a receiving account.
OwnersKnown(d, m, linked) ==
    \A org \in Full(d) : \/ Received(m, org) # {}
                         \/ \E u \in linked : ActiveOwners(d, org) = {u}
OwnerOf(d, m, org) ==
    CHOOSE u \in (IF Received(m, org) # {} THEN Received(m, org) ELSE ActiveOwners(d, org)) : TRUE

Step(id, name) == [id |-> id, name |-> name, system |-> "", app |-> ""]
AppSteps(drive, app) ==
    <<[id |-> <<"apps", drive>>, name |-> <<"apps">>, system |-> "apps_root", app |-> ""],
      [id |-> <<"apps", drive, app>>, name |-> <<app>>, system |-> "app_root", app |-> app]>>
Unclaimed(owner, org, name) ==
    <<Step(<<"unclaimed", owner>>, <<"unclaimed">>), Step(<<"unclaimed", owner, org, name>>, <<name>>)>>

\* Where what is in a structural folder goes: a drive, the folders on the way,
\* and who could reach it, when it was shared.
Home(parent, owner, linked) ==
    LET org == parent.tenant
        own == parent.owner \in linked
        lost == Unclaimed(owner, org, parent.owner)
        place(drive, way, audience) == [drive |-> drive, way |-> way, audience |-> audience]
    IN CASE parent.system = "public_root" ->
              place(owner, <<Step(<<"space", org, "public">>, <<org, "public">>)>>, Everyone)
         [] parent.system = "tag_root" ->
              place(owner, <<Step(<<"space", org, "tag", parent.boundary[2]>>, <<org>> \o parent.name)>>,
                    parent.boundary[2])
         [] parent.system = "app_public" ->
              place(owner, Append(AppSteps(owner, parent.app),
                                  Step(<<"space", org, "app", parent.app>>, <<org, "public">>)), Everyone)
         [] parent.system = "actor_root" ->
              IF own THEN place(parent.owner, <<>>, "") ELSE place(owner, lost, "")
         [] parent.system \in {"app_actor", "app_container"} ->
              IF own THEN place(parent.owner, AppSteps(parent.owner, parent.app), "")
              ELSE place(owner, lost \o <<Step(<<"unclaimed", owner, org, parent.owner, "apps">>, <<"apps">>),
                                          Step(<<"unclaimed", owner, org, parent.owner, "app", parent.app>>,
                                               <<parent.app>>)>>, "")
         [] OTHER -> place(owner, Unclaimed(owner, org, org), "")

\* The folders on the way, each made once; system folders keep their names.
Ensure(s, drive, org, way) ==
    LET enter(at, step) ==
            [folder |-> step.id,
             s |-> IF step.id \in DOMAIN at.s.db.entries THEN at.s
                   ELSE NewFolder(at.s, step.id, drive, at.folder,
                                  IF step.system = "" THEN FreeName(at.s.db, at.folder, step.name, org)
                                  ELSE step.name, step.system, step.app)]
        started == Drive(s, drive)
    IN InTurn([s |-> started, folder |-> TheRoot(started.db, drive)], way, enter)

\* Every entry directly in a structural folder starts a subtree that moves.
MoveOrganizations(s, m, linked) ==
    LET starts(e) == e \in LegacyEntries(s.db)
                     /\ s.db.entries[s.db.entries[e].parent].system # ""
        move(t, e) ==
            LET org == s.db.entries[e].tenant
                parent == s.db.entries[s.db.entries[e].parent]
                owner == OwnerOf(s.db, m, org)
                home == Home(parent, owner, linked)
                at == Ensure(Drive(t, owner), home.drive, org, home.way)
                noted == [at.s EXCEPT
                    !.spaces = IF home.audience = "" THEN @
                               ELSE @ \cup {[folder |-> at.folder, drive |-> home.drive, org |-> org,
                                             audience |-> home.audience]},
                    !.containers = @ @@ (<<org, parent.path>> :> <<home.drive, at.folder>>)]
            IN MoveSubtree(noted, e, home.drive, at.folder,
                           FreeName(noted.db, at.folder, s.db.entries[e].name, org))
    IN InTurn(s, SelectSeq(LegacyOrder, starts), move)

\* A linked member's notifications go to its own drive, and say where their
\* subject is now.
MoveNotifications(s, linked) ==
    LET move(t, n) ==
            LET note == t.db.notes[n]
                housed == Drive(t, note.recipient)
                says == IF note.entry \in MovedEntries(s)
                        THEN <<s.db.entries[note.entry].tenant, s.db.entries[note.entry].path>> ELSE note.says
            IN Changed([housed EXCEPT !.db.notes[n].tenant = note.recipient, !.db.notes[n].says = says],
                       "notification", note.recipient, n, note)
    IN ForEach(s, {n \in DOMAIN s.db.notes : /\ s.db.notes[n].tenant \in Organizations
                                              /\ s.db.notes[n].recipient \in linked}, move)

\* A drive that holds versions stored with an organization's settings gets a
\* copy of them; only the receiving drive takes them over as its active ones.
StorageConfigs(s, m) ==
    LET full == {change.before.from : change \in ToSet(Moves(s))}
        owner(org) == OwnerOf(s.db, m, org)
        needed == {<<s.db.entries[e].tenant, s.db.entries[e].config>> :
                      e \in {x \in DOMAIN s.db.entries : /\ s.db.entries[x].config # ""
                                                         /\ s.db.entries[x].tenant \in DrivesFilled(s)}}
                  \cup {<<owner(c[1]), c[2]>> : c \in {x \in DOMAIN s.db.configs :
                                                        x[1] \in full /\ s.db.configs[x] = "active"}}
        source(c) == CHOOSE x \in DOMAIN s.db.configs : x[1] \in Organizations /\ x[2] = c
        copy(t, p) ==
            LET from == source(p[2])
                takes == /\ from[1] \in full /\ owner(from[1]) = p[1]
                         /\ ~\E c \in DOMAIN t.db.configs : c[1] = p[1] /\ t.db.configs[c] = "active"
                status == IF t.db.configs[from] # "active" THEN t.db.configs[from]
                          ELSE IF takes THEN "active" ELSE "superseded"
            IN RowMade([t EXCEPT !.db.configs = Put(@, p, status)], "storage_config", p[1], p)
    IN ForEach(s, {p \in needed \ DOMAIN s.db.configs :
                    \E x \in DOMAIN s.db.configs : x[1] \in Organizations /\ x[2] = p[2]}, copy)

\* One share: a permanent one for the same account and entry gains what the
\* new one would give.
ShareWith(s, drive, entry, who, rights, inherits, by, expires) ==
    LET same == {g \in DOMAIN s.db.shares : LET h == s.db.shares[g] IN
                    h.tenant = drive /\ h.entry = entry /\ h.who = who /\ ~h.revoked}
        permanent == {g \in same : s.db.shares[g].expires = "never"}
        widest == CHOOSE g \in permanent : TRUE
        had == s.db.shares[widest]
        id == <<"share", ToString(Cardinality(DOMAIN s.db.shares))>>
    IN IF who = drive THEN s
       ELSE IF expires = "never" /\ permanent # {} THEN
            IF rights \subseteq had.rights /\ (had.inherits \/ ~inherits) THEN s
            ELSE Changed([s EXCEPT !.db.shares[widest].rights = @ \cup rights,
                                   !.db.shares[widest].inherits = @ \/ inherits],
                         "grant", drive, widest, [rights |-> had.rights, inherits |-> had.inherits])
       ELSE IF \E g \in same : LET h == s.db.shares[g] IN
                    h.rights = rights /\ h.inherits = inherits /\ h.expires = expires THEN s
       ELSE RowMade([s EXCEPT !.db.shares = Put(@, id, [tenant |-> drive, entry |-> entry, who |-> who,
                    rights |-> rights, inherits |-> inherits, by |-> by, expires |-> expires,
                    revoked |-> FALSE])], "grant", drive, id)

Audience(d, org, tag, linked) ==
    {u \in linked : /\ <<org, u>> \in DOMAIN d.members /\ d.members[<<org, u>>].active
                    /\ tag = Everyone \/ <<org, u, tag>> \in d.tagged}

\* A tag share becomes shares with the accounts that have the tag, and stays,
\* revoked, with a copy of its tag.
ExpandTagShares(s, linked) ==
    LET expand(t, g) ==
            LET share == t.db.tagShares[g]
                org == CameFrom(s, share.entry)
                tag == <<share.tenant, share.tag>>
                copied == IF tag \in t.db.tags THEN t
                          ELSE RowMade([t EXCEPT !.db.tags = @ \cup {tag}], "tag", share.tenant, tag)
                give(v, u) == ShareWith(v, share.tenant, share.entry, u, share.rights, share.inherits, share.by,
                                    share.expires)
                given == ForEach(copied, Audience(t.db, org, share.tag, linked), give)
            IN IF share.revoked \/ share.expires = "past" THEN copied
               ELSE Changed([given EXCEPT !.db.tagShares[g].revoked = TRUE], "tag_grant", share.tenant, g, FALSE)
    IN ForEach(s, {g \in DOMAIN s.db.tagShares : s.db.tagShares[g].entry \in MovedEntries(s)}, expand)

\* Each shared space is shared with exactly the accounts that could reach it.
SnapshotGrants(s, linked) ==
    LET share(t, pair) == ShareWith(t, pair[1].drive, pair[1].folder, pair[2], {"read", "write"}, TRUE,
                                pair[1].drive, "never")
    IN ForEach(s, UNION {{space} \X Audience(s.db, space.org, space.audience, linked) : space \in s.spaces}, share)

\* Every account a row of the drive names takes part in it.
Named(d, drive) ==
    {d.entries[e].owner : e \in {x \in DOMAIN d.entries : d.entries[x].tenant = drive}}
    \cup UNION {{d.shares[g].who, d.shares[g].by} : g \in {x \in DOMAIN d.shares : d.shares[x].tenant = drive}}
    \cup {d.notes[n].recipient : n \in {x \in DOMAIN d.notes : d.notes[x].tenant = drive}}

Participants(s) ==
    LET join(t, p) ==
            RowMade([t EXCEPT !.db.members = Put(@, p, [role |-> IF p[1] = p[2] THEN "owner" ELSE "member",
                                                     active |-> TRUE])], "participant", p[1], p)
        touched == {s.ledger[i].org : i \in DOMAIN s.ledger} \ Organizations
    IN ForEach(s, UNION {{drive} \X Named(s.db, drive) : drive \in touched} \ DOMAIN s.db.members, join)

\* Stored bytes are counted again where files came or went, and the limit of
\* an organization goes to its owner's drive unless that has its own.
Usage(s, m) ==
    LET owners == {<<org, OwnerOf(s.db, m, org)>> : org \in {change.before.from : change \in ToSet(Moves(s))}}
        counted == (DrivesFilled(s) \cup {p[2] : p \in owners} \cup Organizations) \cap DOMAIN s.db.usage
        logged == {s.ledger[i].org : i \in {j \in DOMAIN s.ledger : s.ledger[j].item = "usage"}}
        log(t, tenant) == Changed(t, "usage", tenant, tenant, s.db.usage[tenant])
        stored(t) == Cardinality({e \in DOMAIN s.db.entries : s.db.entries[e].tenant = t /\ s.db.entries[e].file})
        limits(t) == {s.db.usage[p[1]].limit : p \in {q \in owners : q[2] = t /\ q[1] \in DOMAIN s.db.usage}} \ {0}
        limit(t) == IF s.db.usage[t].limit # 0 \/ limits(t) = {} THEN s.db.usage[t].limit
                    ELSE CHOOSE x \in limits(t) : TRUE
    IN [ForEach(s, counted \ logged, log) EXCEPT
         !.db.usage = [t \in DOMAIN @ |->
            IF t \in counted THEN [stored |-> stored(t), limit |-> limit(t)] ELSE @[t]]]

\* Old addresses: of every moved entry, those an earlier migration kept, and
\* of each structural folder that was emptied.  The first to claim one has it.
Aliases(s) ==
    LET claim(f, change) ==
            f @@ [a \in {<<change.before.from, change.before.entries[e].path>> :
                            e \in DOMAIN change.before.entries} |->
                    <<change.org, CHOOSE e \in DOMAIN change.before.entries :
                                     change.before.entries[e].path = a[2]>>]
        earlier == {a \in DOMAIN OldAddresses : OldAddresses[a] \in MovedEntries(s)}
    IN [s EXCEPT !.db.aliases =
            InTurn(<<>>, Moves(s), claim)
            @@ [a \in earlier |-> <<s.db.entries[OldAddresses[a]].tenant, OldAddresses[a]>>]
            @@ s.containers]

\* The accounts Briefcase never saw are remembered, and the links with them.
CacheAccounts(s, linked) ==
    LET add(t, u) == RowMade([t EXCEPT !.db.accounts = @ \cup {u}], "account", u, u)
    IN ForEach(s, linked \ s.db.accounts, add)

-----------------------------------------------------------------------------
(* Undoing a run                                                             *)

\* A subtree is put back where it was, with every path, boundary and upload.
Unmove(d, change) ==
    LET before == change.before
        back == Moved(d, change.key, before.from, before.parent, before.name)
    IN [back EXCEPT
         !.entries = [e \in DOMAIN @ |->
            IF e \notin DOMAIN before.entries THEN @[e]
            ELSE [@[e] EXCEPT !.path = before.entries[e].path, !.boundary = before.entries[e].boundary]],
         !.uploads = [u \in DOMAIN @ |->
            IF u \in DOMAIN before.uploads THEN [@[u] EXCEPT !.parent = before.uploads[u]] ELSE @[u]]]

UndoChange(d, change) ==
    CASE change.item = "grant" /\ change.made -> [d EXCEPT !.shares = Without(@, {change.key})]
      [] change.item = "grant" /\ ~change.made ->
            [d EXCEPT !.shares[change.key].rights = change.before.rights,
                      !.shares[change.key].inherits = change.before.inherits]
      [] change.item = "tag_grant" -> [d EXCEPT !.tagShares[change.key].revoked = change.before]
      [] change.item = "notification" ->
            [d EXCEPT !.notes[change.key].tenant = change.before.tenant,
                      !.notes[change.key].says = change.before.says]
      [] change.item = "usage" -> [d EXCEPT !.usage[change.org] = change.before]
      [] change.item = "move" -> Unmove(d, change)

\* What still stands in the way of removing a row the run made.
InTheWay(d, change) ==
    LET in(rows) == \E r \in DOMAIN rows : rows[r].tenant = change.org IN
    CASE change.item = "tag" -> \E g \in DOMAIN d.tagShares :
                                    <<d.tagShares[g].tenant, d.tagShares[g].tag>> = change.key
      [] change.item = "participant" -> \E n \in DOMAIN d.notes :
                                    <<d.notes[n].tenant, d.notes[n].recipient>> = change.key
      [] change.item = "folder" -> \/ \E e \in DOMAIN d.entries : d.entries[e].parent = change.key
                                   \/ \E g \in DOMAIN d.shares : d.shares[g].entry = change.key
      [] change.item = "drive" -> in(d.entries) \/ in(d.notes) \/ \E p \in DOMAIN d.members : p[1] = change.org
      [] OTHER -> FALSE

RowRemoved(d, change) ==
    CASE change.item = "usage" -> [d EXCEPT !.usage = Without(@, {change.org})]
      [] change.item = "storage_config" -> [d EXCEPT !.configs = Without(@, {change.key})]
      [] change.item = "tag" -> [d EXCEPT !.tags = @ \ {change.key}]
      [] change.item = "participant" -> [d EXCEPT !.members = Without(@, {change.key})]
      [] change.item = "folder" -> [d EXCEPT !.entries = Without(@, {change.key})]
      [] change.item = "drive" -> [d EXCEPT !.drives = @ \ {change.org}]
      [] change.item = "account" -> [d EXCEPT !.accounts = @ \ {change.key}]

\* Newest first: every change and move, and only then the rows the run made,
\* because removing one takes along whatever refers to it.
Undone(d, r) ==
    LET isChange(c) == c.item \in {"grant", "tag_grant", "notification", "move"} \/ (c.item = "usage" /\ ~c.made)
        isRow(c) == ~isChange(c)
        undo(x, c) == UndoChange(x, c)
        remove(at, c) == [db |-> RowRemoved(at.db, c), clear |-> at.clear /\ ~InTheWay(at.db, c)]
        changed == InTurn(d, Reverse(SelectSeq(r.ledger, isChange)), undo)
        removed == InTurn([db |-> changed, clear |-> TRUE], Reverse(SelectSeq(r.ledger, isRow)), remove)
        back == [u \in {r.links[x] : x \in DOMAIN r.links} |->
                    CHOOSE x \in DOMAIN r.links : r.links[x] = u]
    IN [clear |-> removed.clear, db |-> [Rekey(removed.db, back) EXCEPT !.aliases = <<>>]]

\* The drives a run touched, and whether anyone has used them since.
Touched(r) == {r.ledger[i].org : i \in DOMAIN r.ledger} \ Organizations
\* A faulty variant: reading a notification does not count as use.
WatchedButInbox == {"audit_events", "entries", "entry_versions", "permission_grants"}
Watched == {"audit_events", "entries", "entry_versions", "permission_grants", "notifications"}
UsedSince(r) == \E v \in visits : v[1] \in Watched /\ v[2] \in Touched(r)

-----------------------------------------------------------------------------
(* Old addresses                                                             *)

\* The longest alias that is the address or a folder above it leads to the
\* place its entry has now.
Relocated(d, org, path) ==
    LET above == {n \in 1..Len(path) : <<org, SubSeq(path, 1, n)>> \in DOMAIN d.aliases}
        n == CHOOSE x \in above : \A y \in above : y <= x
        alias == d.aliases[<<org, SubSeq(path, 1, n)>>]
    IN IF \/ above = {} \/ alias[2] \notin DOMAIN d.entries \/ alias[1] \notin d.drives
          \/ d.entries[alias[2]].tenant # alias[1]
       THEN <<>>
       ELSE <<alias[1], d.entries[alias[2]].path \o SubSeq(path, n + 1, Len(path))>>

-----------------------------------------------------------------------------
(* Runs                                                                      *)

\* The run in place is undone first.
Unlinked == IF applied.done THEN Undone(base, applied) ELSE [db |-> base, clear |-> TRUE]

\* The same mapping again changes nothing, and a refused run neither.
LinkIdentities(m) ==
    /\ ~sealed /\ steps.runs < MaxRunsOfLink
    /\ applied.done => applied.mapping # m /\ ~UsedSince(applied)
    /\ \E undone \in {Unlinked} :
        LET links == LinkMap(undone.db, m)
            linked == {links[x] : x \in DOMAIN links}
            started == [db |-> Rekey(undone.db, links), ledger |-> <<>>, spaces |-> {}, containers |-> <<>>]
        IN /\ undone.clear
           /\ Resolves(undone.db, m)
           /\ OwnersKnown(started.db, m, linked)
           /\ \E moved \in {MoveOrganizations(started, m, linked)} :
              \E housed \in {StorageConfigs(MoveNotifications(moved, linked), m)} :
              \E shared \in {SnapshotGrants(ExpandTagShares(housed, linked), linked)} :
              \E s \in {CacheAccounts(Aliases(Usage(Participants(shared), m)), linked)} :
                /\ base' = s.db
                /\ applied' = [mapping |-> m, links |-> links, ledger |-> s.ledger, done |-> TRUE]
    /\ origin' = IF applied.done THEN origin ELSE base
    /\ visits' = {}
    /\ steps' = [steps EXCEPT !.runs = @ + 1]
    /\ UNCHANGED <<sealed, duties>>

\* Every reference to an account gets its new key; resources keep theirs.
Renewed(d) ==
    LET as(x) == IF x \in DOMAIN Successor THEN Successor[x] ELSE x
        keyed(rows) == [p \in {<<as(q[1]), q[2]>> : q \in DOMAIN rows} |->
                            rows[CHOOSE q \in DOMAIN rows : <<as(q[1]), q[2]>> = p]]
        tenants(rows) == [r \in DOMAIN rows |-> [rows[r] EXCEPT !.tenant = as(@)]]
    IN [d EXCEPT
         !.drives = {as(u) : u \in @}, !.accounts = {as(u) : u \in @},
         !.members = [p \in {<<as(q[1]), as(q[2])>> : q \in DOMAIN @} |->
                        @[CHOOSE q \in DOMAIN @ : <<as(q[1]), as(q[2])>> = p]],
         !.tagged = {<<t[1], as(t[2]), t[3]>> : t \in @},
         !.tags = {<<as(t[1]), t[2]>> : t \in @},
         !.entries = [e \in DOMAIN @ |-> [@[e] EXCEPT !.tenant = as(@), !.owner = as(@)]],
         !.shares = [g \in DOMAIN @ |-> [@[g] EXCEPT !.tenant = as(@), !.who = as(@), !.by = as(@)]],
         !.tagShares = [g \in DOMAIN @ |-> [@[g] EXCEPT !.tenant = as(@), !.by = as(@)]],
         !.notes = [n \in DOMAIN @ |-> [@[n] EXCEPT !.tenant = as(@), !.recipient = as(@),
                                                    !.says = <<as(@[1]), @[2]>>]],
         !.uploads = tenants(@), !.configs = keyed(@),
         !.usage = [t \in {as(x) : x \in DOMAIN @} |-> @[CHOOSE x \in DOMAIN @ : as(x) = t]],
         !.aliases = [a \in DOMAIN @ |-> <<as(@[a][1]), @[a][2]>>]]

RekeyAccounts ==
    /\ ~sealed
    /\ base.accounts \subseteq DOMAIN Successor
    /\ base' = Renewed(base) /\ sealed' = TRUE
    /\ UNCHANGED <<applied, visits, origin, duties, steps>>

-----------------------------------------------------------------------------
(* Visits, before the first run, between runs and after the last             *)

KeyOf(u) == IF sealed THEN Successor[u] ELSE u

\* A visit to one drive: what it does to the tables, the rows it leaves there
\* and what its user relies on.
Visit(u, done(_), tables, relied) ==
    /\ steps.visits < MaxVisits
    /\ base' = done(base)
    /\ visits' = visits \cup {<<t, KeyOf(u)>> : t \in tables}
    /\ origin' = IF applied.done /\ KeyOf(u) \notin Touched(applied) /\ ~sealed THEN done(origin) ELSE origin
    /\ duties' = duties \cup relied
    /\ steps' = [steps EXCEPT !.visits = @ + 1]
    /\ UNCHANGED <<applied, sealed>>

\* The first request of an account makes its drive.
FirstRequest(u) ==
    LET key == KeyOf(u)
        enter(d) ==
            [d EXCEPT !.accounts = @ \cup {key}, !.drives = @ \cup {key},
                      !.members = @ @@ (<<key, key>> :> [role |-> "owner", active |-> TRUE]),
                      !.entries = IF RootOf(d, key) # {} THEN @
                                  ELSE Put(@, <<"root", key>>, FolderOf(key, Nowhere, <<key>>, <<>>, "drive_root", ""))]
    IN Visit(u, enter, IF RootOf(base, key) = {} THEN {"entries"} ELSE {}, {})

\* An app's first use makes its folder in the drive.
OpenApp(u, app) ==
    LET key == KeyOf(u)
        folder(d, id, parent, name, system, of) ==
            IF \E e \in DOMAIN d.entries : d.entries[e].tenant = key /\ d.entries[e].name = name
                                           /\ d.entries[e].system = system THEN d
            ELSE [d EXCEPT !.entries = Put(@, id, FolderOf(key, parent, name, Append(d.entries[parent].path, name),
                                                           system, of))]
        apps(d) == CHOOSE e \in DOMAIN d.entries : d.entries[e].tenant = key /\ d.entries[e].system = "apps_root"
        open(d) == LET contained == folder(d, <<"apps", key>>, TheRoot(d, key), <<"apps">>, "apps_root", "")
                   IN folder(contained, <<"apps", key, app>>, apps(contained), <<app>>, "app_root", app)
    IN /\ RootOf(base, key) # {} /\ open(base) # base
       /\ Visit(u, open, {"entries"}, {})

\* A user publishes a file at the top of the drive.
Publish(u) ==
    LET key == KeyOf(u)
        id == <<"file", u>>
        name == <<"notes">>
        publish(d) == [d EXCEPT !.entries = Put(@, id,
            [FolderOf(key, TheRoot(d, key), name, <<name>>, "", "") EXCEPT !.file = TRUE])]
    IN /\ RootOf(base, key) # {} /\ id \notin DOMAIN base.entries
       /\ FreeName(base, TheRoot(base, key), name, "") = name
       /\ Visit(u, publish, {"entries", "entry_versions", "audit_events"}, {<<"entry", id>>})

\* The owner of a drive renames what the run brought there.
Rename(u, e) ==
    LET name == <<"renamed">>
        old == base.entries[e]
        path == Append(base.entries[old.parent].path, name)
        rename(d) == [d EXCEPT !.entries = [x \in DOMAIN @ |->
            IF x \notin Below(d, e) THEN @[x]
            ELSE [@[x] EXCEPT !.path = path \o SubSeq(@, Len(old.path) + 1, Len(@)),
                              !.name = IF x = e THEN name ELSE @]]]
    IN /\ e \in DOMAIN base.entries /\ old.tenant = KeyOf(u) /\ Ordinary(base, e) /\ ~old.trashed /\ old.name # name
       /\ FreeName(base, old.parent, name, "") = name
       /\ Visit(u, rename, {"entries", "audit_events"}, {<<"named", e>>})

EndShare(u, g) ==
    LET revoke(d) == [d EXCEPT !.shares[g].revoked = TRUE] IN
    /\ base.shares[g].tenant = KeyOf(u) /\ ~base.shares[g].revoked /\ base.shares[g].expires # "past"
    /\ Visit(u, revoke, {"permission_grants", "audit_events"}, {<<"revoked", g>>})

ReadNotification(u, n) ==
    LET read(d) == [d EXCEPT !.notes[n].read = TRUE] IN
    /\ base.notes[n].tenant = KeyOf(u) /\ base.notes[n].recipient = KeyOf(u) /\ ~base.notes[n].read
    /\ Visit(u, read, {"notifications"}, {<<"read", n>>})

LinkInit ==
    /\ base \in LegacyStates
    /\ applied = NoRun /\ visits = {} /\ sealed = FALSE /\ origin = base /\ duties = {}
    /\ steps = [runs |-> 0, visits |-> 0]

LinkNext ==
    \/ \E m \in Mappings : LinkIdentities(m)
    \/ RekeyAccounts
    \/ \E u \in Visitors :
        \/ FirstRequest(u) \/ Publish(u)
        \/ \E app \in Apps : OpenApp(u, app)
        \/ \E e \in ToSet(LegacyOrder) : Rename(u, e)
        \/ \E g \in DOMAIN base.shares : EndShare(u, g)
        \/ \E n \in DOMAIN base.notes : ReadNotification(u, n)

-----------------------------------------------------------------------------
(* Properties                                                                *)

\* Paths follow the folders, a drive has one top, and "apps" at the top is the
\* folder for apps: what every run verifies before it commits.
Verified(d) ==
    LET computed[e \in DOMAIN d.entries] ==
            LET entry == d.entries[e] IN
            IF entry.parent # Nowhere THEN Append(computed[entry.parent], entry.name)
            ELSE IF entry.system = "drive_root" THEN <<>> ELSE <<entry.name>>
    IN /\ \A e \in DOMAIN d.entries : d.entries[e].path = computed[e]
       /\ \A u \in d.drives : Cardinality(RootOf(d, u)) = 1
       /\ \A u \in d.drives : \A e \in DOMAIN d.entries :
            d.entries[e].parent = TheRoot(d, u) /\ d.entries[e].name = <<"apps">> /\ ~d.entries[e].trashed
            => d.entries[e].system = "apps_root"

\* Foreign keys and unique indexes, checked when the run ends: a row and what
\* it names are in one tenant, and its accounts take part in it; live siblings
\* differ in name, and a tenant has one active bucket.
ReferencesHold(d) ==
    LET joined(tenant, u) == <<tenant, u>> \in DOMAIN d.members
        beside(row) == row.entry \in DOMAIN d.entries /\ d.entries[row.entry].tenant = row.tenant
    IN /\ \A e \in DOMAIN d.entries : LET x == d.entries[e] IN
            /\ x.tenant \in d.drives \cup Organizations
            /\ joined(x.tenant, x.owner)
            /\ x.parent # Nowhere => d.entries[x.parent].tenant = x.tenant
            /\ x.config # "" => <<x.tenant, x.config>> \in DOMAIN d.configs
       /\ \A g \in DOMAIN d.shares : LET x == d.shares[g] IN
            beside(x) /\ joined(x.tenant, x.who) /\ joined(x.tenant, x.by)
       /\ \A g \in DOMAIN d.tagShares : LET x == d.tagShares[g] IN beside(x) /\ <<x.tenant, x.tag>> \in d.tags
       /\ \A n \in DOMAIN d.notes : joined(d.notes[n].tenant, d.notes[n].recipient)
       /\ \A u \in DOMAIN d.uploads : LET x == d.uploads[u] IN
            beside(x) /\ d.entries[x.parent].tenant = x.tenant
       /\ \A e, x \in DOMAIN d.entries : LET a == d.entries[e] b == d.entries[x] IN
            a.parent = b.parent /\ a.tenant = b.tenant /\ a.name = b.name /\ ~a.trashed /\ ~b.trashed => e = x
       /\ \A c, k \in DOMAIN d.configs : c[1] = k[1] /\ d.configs[c] = "active" /\ d.configs[k] = "active" => c = k

\* Until someone uses a drive the run touched, the ledger leads back to the
\* tables exactly as they would be without the run.
RunCanBeUndone ==
    applied.done /\ ~sealed /\ ~UsedSince(applied) =>
        LET undone == Undone(base, applied) IN undone.clear /\ undone.db = origin

\* What an account may do with an entry through shares, itself or above, and
\* as the one who made it or a folder above it.
Through(d, u, e) ==
    UNION {d.shares[g].rights : g \in {x \in DOMAIN d.shares : LET h == d.shares[x] IN
              /\ h.who = u /\ ~h.revoked /\ h.expires # "past"
              /\ h.entry = e \/ (h.inherits /\ h.entry \in Above(d)[e])}}
    \cup (IF d.entries[e].owner = u THEN {"read", "write"} ELSE {})
    \cup (IF \E x \in Above(d)[e] : Ordinary(d, x) /\ d.entries[x].owner = u THEN {"read"} ELSE {})

\* In an organization: also through tags and as a member of the space.
CouldReach(d, a, e) ==
    LET org == d.entries[e].tenant
        spaces == {x \in Above(d)[e] : ~Ordinary(d, x)}
        member == <<org, a>> \in DOMAIN d.members /\ d.members[<<org, a>>].active
        has(tag) == <<org, a, tag>> \in d.tagged
    IN Through(d, a, e)
       \cup UNION {d.tagShares[g].rights : g \in {x \in DOMAIN d.tagShares : LET h == d.tagShares[x] IN
              /\ member /\ has(h.tag) /\ ~h.revoked /\ h.expires # "past"
              /\ h.entry = e \/ (h.inherits /\ h.entry \in Above(d)[e])}}
       \cup (IF \E x \in spaces : LET p == d.entries[x] IN
                \/ p.system \in {"public_root", "app_public"} /\ member
                \/ p.system = "tag_root" /\ member /\ has(p.boundary[2])
                \/ p.system \in {"actor_root", "app_actor"} /\ p.owner = a
             THEN {"read", "write"} ELSE {})

\* Every linked member reaches what it reached before the run and nothing
\* else, the owner of the drive excepted, who reaches all of it.
ReachIsKept ==
    applied.done /\ (\A w \in duties : w[1] # "revoked") =>
        \A a \in DOMAIN applied.links : \A e \in {x \in LegacyEntries(origin) : Ordinary(origin, x)} :
            LET u == KeyOf(applied.links[a]) IN
            u # base.entries[e].tenant => Through(base, u, e) = CouldReach(origin, a, e)

\* An address from before leads to the entry wherever it is now, unless a
\* discarded entry had the same one, and that of a folder for a space or a
\* member to what its files are in now.
AddressesLead ==
    applied.done =>
        LET moved == {e \in LegacyEntries(origin) : Ordinary(origin, e)}
            lead(org, path, e) == Relocated(base, org, path) = <<base.entries[e].tenant, base.entries[e].path>>
            alone(e) == \A x \in moved : /\ origin.entries[x].path = origin.entries[e].path
                                         /\ origin.entries[x].tenant = origin.entries[e].tenant => x = e
        IN /\ \A e \in moved : alone(e) => lead(origin.entries[e].tenant, origin.entries[e].path, e)
           /\ \A a \in DOMAIN OldAddresses : OldAddresses[a] \in moved => lead(a[1], a[2], OldAddresses[a])
           /\ \A e \in moved : LET p == origin.entries[e].parent IN
                origin.entries[p].system # "" =>
                    lead(origin.entries[p].tenant, origin.entries[p].path, base.entries[e].parent)

\* No run takes back what a user did, before or after it, and no entry is lost.
WorkStays ==
    /\ \A w \in duties : CASE w[1] = "entry" -> w[2] \in DOMAIN base.entries
                         [] w[1] = "named" -> base.entries[w[2]].name = <<"renamed">>
                         [] w[1] = "revoked" -> base.shares[w[2]].revoked
                         [] w[1] = "read" -> base.notes[w[2]].read
    /\ \A e \in DOMAIN origin.entries :
        /\ e \in DOMAIN base.entries
        /\ base.entries[e].trashed = origin.entries[e].trashed /\ base.entries[e].file = origin.entries[e].file

\* The cutover: it can be undone until its drives are used and never after,
\* it keeps who reaches what and where addresses lead, and what it leaves
\* passes its own checks and every foreign key (link_identities/*.sql).
LinksHold ==
    /\ Verified(base) /\ ReferencesHold(base)
    /\ RunCanBeUndone /\ ReachIsKept /\ AddressesLead /\ WorkStays
===============================================================================
