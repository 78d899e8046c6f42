----------------------------- MODULE AccessRights -----------------------------
(***************************************************************************)
(* Who may see and change what in one drive.  The same rule exists several  *)
(* times: as domain policy, evaluated on one loaded entry, and as SQL, that *)
(* narrows listings, searches, the bin and recursive operations before any  *)
(* entry reaches policy.  The actions are the operations that shape a       *)
(* drive, each under the checks of the code; the properties compare the     *)
(* copies of the rule in every drive these can make.                        *)
(*                                                                          *)
(* The legacy system folders and grants to tags are left out: nothing       *)
(* creates them any more.                                                   *)
(***************************************************************************)
EXTENDS Naturals, FiniteSets

CONSTANTS
    People,       \* accounts
    Nobody,
    CustodianOf,  \* the custodian of each Silicon, Nobody for a Carbon
    Owners,       \* the accounts whose drive it may be
    DriveRoot, Items,  \* the drive's root, and what can be made below it
    MaxGrants     \* bound on shares at a time

ASSUME AccessAssumption ==
    /\ Nobody \notin People
    /\ CustodianOf \in [People -> People \cup {Nobody}]
    /\ \A a \in People : CustodianOf[a] # Nobody => CustodianOf[CustodianOf[a]] = Nobody
    /\ Owners \subseteq People
    /\ DriveRoot \notin Items

VARIABLES
    driveOwner,
    item,       \* the rows of briefcase.entries
    shares      \* permission_grants that are not revoked

accessVars == <<driveOwner, item, shares>>

Absent == [parent |-> DriveRoot, kind |-> "none", owner |-> Nobody, batch |-> DriveRoot]
Made == {i \in Items : item[i].kind # "none"}
Live == {i \in Made : item[i].batch = DriveRoot}
Folders == {i \in Made : item[i].kind = "folder"}
Accesses == {{"read"}, {"read", "write"}, {"read", "update"}}

AccessInit ==
    /\ driveOwner \in Owners
    /\ item = [i \in Items |-> Absent]
    /\ shares = {}

\* entry_closure: i and everything it sits in, the root included.
Enclosing[i \in Items \cup {DriveRoot}] ==
    {i} \cup (IF i = DriveRoot THEN {} ELSE Enclosing[item[i].parent])
Within(i) == {j \in Made : i \in Enclosing[j] /\ j # i}
Subtree(i) == {i} \cup Within(i)

-----------------------------------------------------------------------------
(* The caller of a request. *)

HasOwnerRights(c) == c = driveOwner \/ CustodianOf[driveOwner] = c

\* The caller and the Silicons it looks after.
Creators(c) == {c} \cup {s \in People : CustodianOf[s] = c}

OwnerOf(i) == IF i = DriveRoot THEN driveOwner ELSE item[i].owner
IsFolder(i) == i \in Folders \cup {DriveRoot}

OwnsContainingFolder(c, i) ==
    \E f \in Enclosing[i] \ {i, DriveRoot} : item[f].kind = "folder" /\ item[f].owner \in Creators(c)

RelevantGrants(c, i) ==
    {g \in shares : g.principal = c /\ (g.on = i \/ (g.on \in Enclosing[i] /\ g.inherits))}

-----------------------------------------------------------------------------
(* Domain policy. *)

AllRights == {"read", "create", "update", "content", "delete", "manage"}

FromGrant(g) ==
    {"read"} \cup (IF "write" \in g.access THEN {"create"} ELSE {})
             \cup (IF "update" \in g.access THEN {"update", "content"} ELSE {})

ForKind(i, rights) == rights \ (IF IsFolder(i) THEN {"content"} ELSE {"create"})

Capabilities(c, i) ==
    LET own == IF HasOwnerRights(c) \/ OwnerOf(i) \in Creators(c) THEN AllRights ELSE {}
        sees == IF OwnsContainingFolder(c, i) THEN {"read"} ELSE {}
        given == IF i = DriveRoot THEN {} ELSE UNION {FromGrant(g) : g \in RelevantGrants(c, i)}
    IN ForKind(i, own \cup sees \cup given)
        \ (IF i = DriveRoot THEN {"update", "content", "delete", "manage"} ELSE {})

Allows(c, i, right) == right \in Capabilities(c, i)

HasVisibleChild(c, i) ==
    /\ ~HasOwnerRights(c)
    /\ \E j \in Live : item[j].parent = i /\ (item[j].owner \in Creators(c) \/ RelevantGrants(c, j) # {})

HasVisibleDescendant(c, i) ==
    /\ ~HasOwnerRights(c)
    /\ \E j \in Within(i) \cap Live : item[j].owner \in Creators(c) \/ RelevantGrants(c, j) # {}

Visibility(c, i) ==
    IF Allows(c, i, "read") THEN "full"
    ELSE IF IsFolder(i) /\ (i = DriveRoot \/ i \in Live) /\ HasVisibleDescendant(c, i) THEN "traversal"
    ELSE "hidden"

-----------------------------------------------------------------------------
(* The same rule in SQL. *)

SearchFindsOwn(c, i) ==
    \/ HasOwnerRights(c)
    \/ item[i].owner \in Creators(c)
    \/ RelevantGrants(c, i) # {}

\* search: narrowed before its LIMIT.
SearchFinds(c, i) == SearchFindsOwn(c, i) \/ OwnsContainingFolder(c, i)

\* for:@c:..., evaluated from the accounts table.
AccessibleTo(a, i) ==
    \/ a = driveOwner
    \/ CustodianOf[driveOwner] = a
    \/ i # DriveRoot /\ (item[i].owner = a \/ CustodianOf[item[i].owner] = a)
    \/ RelevantGrants(a, i) # {}
    \/ \E f \in Enclosing[i] \ {i, DriveRoot} :
            /\ item[f].kind = "folder"
            /\ item[f].owner = a \/ CustodianOf[item[f].owner] = a

MoreThanRead(c, i) == \E g \in RelevantGrants(c, i) : g.access # {"read"}

\* list_bin_entries, and every row of lock_and_require_subtree_capability.
SqlMayChange(c, i) ==
    HasOwnerRights(c) \/ item[i].owner \in Creators(c) \/ MoreThanRead(c, i)

SubtreeAllowed(c, i) == \A j \in Subtree(i) : SqlMayChange(c, j)

BinRoots == {i \in Made \ Live : item[i].batch = i}

-----------------------------------------------------------------------------
(* Operations. *)

\* create_folder, and an upload of a new file.
Create(c, parent) ==
    /\ parent \in Live \cup {DriveRoot} /\ IsFolder(parent)
    /\ Allows(c, parent, "create")
    /\ \E i \in Items \ Made, kind \in {"file", "folder"} :
        item' = [item EXCEPT ![i] = [parent |-> parent, kind |-> kind, owner |-> c, batch |-> DriveRoot]]
    /\ UNCHANGED <<driveOwner, shares>>

GrantPermission(c, i) ==
    /\ i \in Live
    /\ Allows(c, i, "manage")
    /\ \E principal \in People, access \in Accesses, inherits \in BOOLEAN :
        LET kept == {g \in shares : ~(g.on = i /\ g.principal = principal)} IN
        /\ "write" \in access => IsFolder(i)
        /\ Cardinality(kept) < MaxGrants
        /\ shares' = kept \cup {[on |-> i, principal |-> principal,
                                access |-> access, inherits |-> inherits]}
    /\ UNCHANGED <<driveOwner, item>>

RevokePermission(c, g) ==
    /\ g.on \in Live
    /\ Allows(c, g.on, "manage")
    /\ shares' = shares \ {g}
    /\ UNCHANGED <<driveOwner, item>>

\* update_entry with a new parent.
Move(c, i) ==
    /\ i \in Live
    /\ Allows(c, i, "update")
    /\ IsFolder(i) => SubtreeAllowed(c, i)
    /\ \E parent \in ((Folders \cap Live) \cup {DriveRoot}) \ (Subtree(i) \cup {item[i].parent}) :
        /\ Allows(c, parent, "create")
        /\ item' = [item EXCEPT ![i].parent = parent]
    /\ UNCHANGED <<driveOwner, shares>>

\* soft_delete_entry: everything live below goes with it.
MayTrash(c, i) ==
    /\ i \in Live
    /\ Allows(c, i, "delete")
    /\ SubtreeAllowed(c, i)

Trash(c, i) ==
    /\ MayTrash(c, i)
    /\ item' = [j \in Items |-> IF j \in Subtree(i) \cap Live THEN [item[j] EXCEPT !.batch = i]
                                ELSE item[j]]
    /\ UNCHANGED <<driveOwner, shares>>

\* Back where it was, or at the top of the drive.
RestoreParent(c, i) ==
    LET p == item[i].parent IN
    IF p \in Live \cup {DriveRoot} /\ Allows(c, p, "create") THEN {p}
    ELSE IF Allows(c, DriveRoot, "create") THEN {DriveRoot} ELSE {}

Restore(c, i) ==
    /\ i \in BinRoots
    /\ Allows(c, i, "update")
    /\ SubtreeAllowed(c, i)
    /\ \E p \in RestoreParent(c, i) :
        item' = [j \in Items |->
            IF j = i THEN [item[j] EXCEPT !.batch = DriveRoot, !.parent = p]
            ELSE IF j \in Subtree(i) /\ item[j].batch = i THEN [item[j] EXCEPT !.batch = DriveRoot]
            ELSE item[j]]
    /\ UNCHANGED <<driveOwner, shares>>

AccessNext ==
    \E c \in People :
        \/ \E parent \in Items \cup {DriveRoot} : Create(c, parent)
        \/ \E i \in Items : GrantPermission(c, i) \/ Move(c, i) \/ Trash(c, i) \/ Restore(c, i)
        \/ \E g \in shares : RevokePermission(c, g)

AccessSpec == AccessInit /\ [][AccessNext]_accessVars

-----------------------------------------------------------------------------
(* Properties. *)

\* Types, and the rows that the schema allows.
AccessTypeOK ==
    /\ driveOwner \in Owners
    /\ \A i \in Made :
        /\ item[i].parent \in Folders \cup {DriveRoot}
        /\ item[i].owner \in People
        /\ item[i].batch \in Made \cup {DriveRoot}
        /\ DriveRoot \in Enclosing[i]
    /\ \A g \in shares : g.on \in Made /\ g.principal \in People /\ g.access \in Accesses
    /\ \A g, h \in shares : g.on = h.on /\ g.principal = h.principal => g = h

\* What SQL drops never reaches policy: every live entry an account may read is
\* a candidate of its search and matches `for:` that account, and nothing else
\* does; every batch root it may delete is a candidate of its bin.
PrefiltersAgree ==
    \A c \in People :
        /\ \A i \in Live :
            /\ Allows(c, i, "read") <=> SearchFinds(c, i)
            /\ Allows(c, i, "read") <=> AccessibleTo(c, i)
        /\ \A i \in BinRoots : Allows(c, i, "delete") => SqlMayChange(c, i)

\* Whatever an account may read it can reach: every folder on the way down from
\* the top of the drive is visible to it.
ReadableIsReachable ==
    \A c \in People, i \in Live :
        Allows(c, i, "read") => \A f \in Enclosing[i] : Visibility(c, f) # "hidden"

\* A folder shown only to be passed through leads to an entry that can be read.
TraversalLeadsSomewhere ==
    \A c \in People, f \in Live \cup {DriveRoot} :
        Visibility(c, f) = "traversal" => \E i \in Within(f) \cap Live : Allows(c, i, "read")

\* What may be opened can be found by walking down to it, and every folder
\* shown on the way leads to something that may be opened.
TreeIsNavigable == ReadableIsReachable /\ TraversalLeadsSomewhere

\* docs/api/reference.md: the creator, the drive's owner and the custodian of
\* either may move an entry to the bin; delete is never shared.  So whoever bins
\* a folder may delete each entry that goes with it.
TrashNeedsDelete ==
    \A c \in People, i \in Items :
        MayTrash(c, i) => \A j \in Subtree(i) \cap Live : Allows(c, j, "delete")
===============================================================================
