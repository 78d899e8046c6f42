------------------------------ MODULE EntryTree ------------------------------
(***************************************************************************)
(* The folder tree under concurrent transactions.  PostgreSQL runs them at  *)
(* READ COMMITTED: every statement sees the rows committed when it starts,  *)
(* takes row locks one at a time, and publishes its writes at commit.  The  *)
(* tree is stored three times: as parent_id, as the closure table from      *)
(* which permissions are inherited, and as the path column.  Triggers keep  *)
(* the three in step.                                                       *)
(*                                                                          *)
(* One action is one statement, or one row lock a statement waits for.  A   *)
(* deadlock, a refused capability or a lost connection is an abort.         *)
(* Files are folders in which nobody creates anything.                      *)
(***************************************************************************)
EXTENDS Integers, FiniteSets, Sequences

CONSTANTS
    Entries,     \* folders and files below the drive root
    Root,        \* the drive root, which is never locked for a deletion
    Initial,     \* Initial[e]: the folder e is in at the start, or NoEntry
    Clients,     \* database sessions
    Operations,  \* which of the operations below the sessions run
    MaxBatches,  \* bound on the deletions of a behaviour
    NoEntry

Nodes == Entries \cup {Root}
AllOperations == {"create", "move", "rename", "delete", "restore"}

ASSUME TreeAssumption ==
    /\ Root \notin Entries
    /\ NoEntry \notin Nodes
    /\ Initial \in [Entries -> Nodes \cup {NoEntry}]
    /\ Operations \subseteq AllOperations
    /\ MaxBatches \in Nat

\* Row locks by strength: two sessions hold locks on one row only when the sum
\* of their strengths is below five.
None == 0
KeyShare == 1
Share == 2
NoKeyUpdate == 3
Update == 4

VARIABLES
    state,      \* entries: "absent" (no row), "live" or "deleted"
    parent,     \* entries.parent_id
    title,      \* entries.name, as a number
    path,       \* entries.path: the titled entries from the drive root down
    closure,    \* entry_closure: pairs of an ancestor and a descendant
    batch,      \* entries.deletion_batch_id, 0 for NULL
    lastBatch,  \* deletion batch ids handed out so far
    held,       \* the strongest lock each session holds on each row
    tx          \* what each session is doing

tree == <<state, parent, title, path, closure, batch, lastBatch>>
vars == <<tree, held, tx>>

Links == Nodes \X Nodes
Above(e) == {a \in Nodes : <<a, e>> \in closure}
Below(e) == {d \in Entries : <<e, d>> \in closure}
IsLive(p) == p = Root \/ (p \in Entries /\ state[p] = "live")
PathOf(p) == IF p = Root THEN <<>> ELSE path[p]

\* op, entry e and folder to of the request; want: rows the running statement
\* still has to lock, in strength mode; rows: what it deletes or restores; below:
\* whose paths it rewrites; seen: what the capability check covered; cut and
\* graft: closure rows it replaces.
Idle == [op |-> "none", pc |-> "idle", e |-> NoEntry, to |-> NoEntry, want |-> {},
         mode |-> None, rows |-> {}, below |-> {}, seen |-> {}, cut |-> {}, graft |-> {}]

InitialPath[p \in Nodes] ==
    IF p = Root \/ Initial[p] = NoEntry THEN <<>>
    ELSE Append(InitialPath[Initial[p]], <<p, 0>>)

InitialEntries == {e \in Entries : Initial[e] # NoEntry}
InitialClosure ==
    LET folders(e) == {InitialPath[e][i][1] : i \in 1..Len(InitialPath[e])}
    IN  {<<Root, Root>>} \cup
            {l \in Nodes \X InitialEntries : l[1] = Root \/ l[1] \in folders(l[2])}

\* Folders form a tree: links lead from every folder to all that is below it,
\* and those above an entry are the entry itself and those above its folder.
IsTree(nodes, up, links) ==
    /\ links \subseteq nodes \X nodes
    /\ \A x \in nodes : <<Root, x>> \in links /\ <<x, x>> \in links
    /\ \A x, y \in nodes : <<x, y>> \in links /\ <<y, x>> \in links => x = y
    /\ \A x, y, z \in nodes : <<x, y>> \in links /\ <<y, z>> \in links => <<x, z>> \in links
    /\ \A x, y, z \in nodes :
         <<x, z>> \in links /\ <<y, z>> \in links => <<x, y>> \in links \/ <<y, x>> \in links
    /\ \A x \in nodes \ {Root} :
         /\ up[x] \in nodes /\ <<x, up[x]>> \notin links
         /\ \A a \in nodes : <<a, x>> \in links <=> a = x \/ <<a, up[x]>> \in links

\* The drive at the start is one that the operations can have built.
ASSUME InitialTree ==
    /\ IsTree({Root} \cup InitialEntries, Initial, InitialClosure)
    /\ \A e \in Entries :
         /\ InitialPath[e] \in Seq(Entries \X (0..1))
         /\ e \in InitialEntries =>
                InitialPath[e] = Append(IF Initial[e] = Root THEN <<>> ELSE InitialPath[Initial[e]], <<e, 0>>)

Init ==
    /\ state = [e \in Entries |-> IF e \in InitialEntries THEN "live" ELSE "absent"]
    /\ parent = [e \in Entries |-> IF e \in InitialEntries THEN Initial[e] ELSE Root]
    /\ title = [e \in Entries |-> 0]
    /\ path = [e \in Entries |-> InitialPath[e]]
    /\ closure = InitialClosure
    /\ batch = [e \in Entries |-> 0]
    /\ lastBatch = 0
    /\ held = [c \in Clients |-> [x \in Nodes |-> None]]
    /\ tx = [c \in Clients |-> Idle]

-----------------------------------------------------------------------------
(* Statements and row locks. *)

Compatible(c, x, mode) == \A d \in Clients \ {c} : held[d][x] + mode < 5
Stronger(m, n) == IF m > n THEN m ELSE n
Lock(c, x, mode) ==
    /\ Compatible(c, x, mode)
    /\ held' = [held EXCEPT ![c][x] = Stronger(@, mode)]

\* A lookup FOR UPDATE that opens the transaction.
Open(c, op, x, request) ==
    /\ tx[c] = Idle
    /\ op \in Operations
    /\ Lock(c, x, Update)
    /\ tx' = [tx EXCEPT ![c] = request]
    /\ UNCHANGED tree

At(c, op, pc) == tx[c].op = op /\ tx[c].pc = pc
Goto(c, pc) == tx' = [tx EXCEPT ![c].pc = pc]

\* The next row of a statement that locks rows, ancestors first.
LockRow(c, x) ==
    /\ x \in tx[c].want
    /\ tx[c].want \cap Above(x) \subseteq {x}
    /\ Lock(c, x, tx[c].mode)
    /\ tx' = [tx EXCEPT ![c].want = @ \ {x}]
    /\ UNCHANGED tree

\* lock_and_require_subtree_capability, first statement: the subtree as it is
\* when the statement starts.
LockTop(c) ==
    /\ tx[c].pc = "subtree"
    /\ Goto(c, "check")
    /\ UNCHANGED <<tree, held>>
LockSubtree(c) ==
    /\ tx[c].pc = "subtree"
    /\ tx' = [tx EXCEPT ![c].pc = "check", ![c].want = Below(tx[c].e), ![c].mode = Update]
    /\ UNCHANGED <<tree, held>>

\* Its second statement checks the capability on the subtree as it is now.
CheckSubtree(c) ==
    /\ tx[c].pc = "check"
    /\ tx[c].want = {}
    /\ tx' = [tx EXCEPT ![c].pc = "write", ![c].seen = Below(tx[c].e)]
    /\ UNCHANGED <<tree, held>>

Abort(c) ==
    /\ tx[c] # Idle
    /\ tx' = [tx EXCEPT ![c] = Idle]
    /\ held' = [held EXCEPT ![c] = [x \in Nodes |-> None]]
    /\ UNCHANGED tree

Finish(c) ==
    /\ tx[c].pc = "commit"
    /\ tx[c].want = {}
    /\ tx' = [tx EXCEPT ![c] = Idle]
    /\ held' = [held EXCEPT ![c] = [x \in Nodes |-> None]]

\* The unique index on the paths of what is not deleted: a statement that would
\* break it fails, and its transaction with it.
UniquePaths ==
    \A x, y \in Entries :
        state[x] = "live" /\ state[y] = "live" /\ path[x] = path[y] => x = y

-----------------------------------------------------------------------------
(* create_folder, and the first publication of a file. *)

OpenCreate(c, e, to) ==
    /\ state[e] = "absent"
    /\ \A d \in Clients : tx[d].e # e
    /\ IsLive(to)
    /\ Open(c, "create", to, [Idle EXCEPT !.op = "create", !.pc = "write", !.e = e, !.to = to])

\* The foreign keys of entry_closure lock every entry a new row names.
UncheckedRows(links) == {}
ReferencedRows(links) == {l[1] : l \in links} \cup {l[2] : l \in links}

Insert(c) ==
    LET t == tx[c]
        graft == (Above(t.to) \X {t.e}) \cup {<<t.e, t.e>>}
    IN  /\ At(c, "create", "write")
        /\ tx' = [tx EXCEPT ![c].pc = "commit", ![c].graft = graft, ![c].mode = KeyShare,
                            ![c].want = ReferencedRows(graft) \ {t.e}]
        /\ UNCHANGED <<tree, held>>

CommitCreate(c) ==
    LET t == tx[c] IN
    /\ t.op = "create"
    /\ Finish(c)
    /\ state' = [state EXCEPT ![t.e] = "live"]
    /\ parent' = [parent EXCEPT ![t.e] = t.to]
    /\ title' = [title EXCEPT ![t.e] = 0]
    /\ path' = [path EXCEPT ![t.e] = Append(PathOf(t.to), <<t.e, 0>>)]
    /\ closure' = closure \cup t.graft
    /\ UNCHANGED <<batch, lastBatch>>
    /\ UniquePaths'

-----------------------------------------------------------------------------
(* update_entry: a move, or a rename in place. *)

OpenMove(c, e, to) ==
    /\ state[e] = "live"
    /\ to \notin {e, parent[e]}
    /\ Open(c, "move", e, [Idle EXCEPT !.op = "move", !.pc = "target", !.e = e, !.to = to])

LockTarget(c) ==
    /\ At(c, "move", "target")
    /\ IsLive(tx[c].to)
    /\ Lock(c, tx[c].to, Update)
    /\ Goto(c, "subtree")
    /\ UNCHANGED tree

\* The update of parent_id: the trigger refuses a folder below the entry, and
\* the first statement of the closure trigger removes the old links.
Detach(c) ==
    LET t == tx[c] IN
    /\ At(c, "move", "write")
    /\ t.to \notin Below(t.e)
    /\ tx' = [tx EXCEPT ![c].pc = "graft",
                        ![c].cut = closure \cap ((Above(t.e) \ {t.e}) \X Below(t.e))]
    /\ UNCHANGED <<tree, held>>

\* Its second statement links the subtree to the new ancestors.
Attach(c) ==
    LET t == tx[c]
        graft == Above(t.to) \X Below(t.e)
    IN  /\ tx[c].pc = "graft"
        /\ tx' = [tx EXCEPT ![c].pc = "paths", ![c].graft = graft, ![c].mode = KeyShare,
                            ![c].want = ReferencedRows(graft)]
        /\ UNCHANGED <<tree, held>>

\* The new path of a row is derived from its parent's, share-locked.
OpenRename(c, e) ==
    /\ state[e] = "live"
    /\ Open(c, "rename", e, [Idle EXCEPT !.op = "rename", !.pc = "write", !.e = e])

DerivePath(c) ==
    /\ At(c, "rename", "write")
    /\ Lock(c, parent[tx[c].e], Share)
    /\ Goto(c, "paths")
    /\ UNCHANGED tree

\* The path trigger rewrites the prefix of the paths of the subtree.
Relocate(c) ==
    LET t == tx[c]
        rows == Below(t.e) \ {t.e}
    IN  /\ t.pc = "paths"
        /\ t.want = {}
        /\ tx' = [tx EXCEPT ![c].pc = "commit", ![c].below = rows,
                            ![c].want = rows, ![c].mode = NoKeyUpdate]
        /\ UNCHANGED <<tree, held>>

Suffix(s, n) == SubSeq(s, n + 1, Len(s))
Relocated(e, rows, new) ==
    [x \in Entries |-> IF x = e THEN new
                       ELSE IF x \in rows THEN new \o Suffix(path[x], Len(path[e]))
                       ELSE path[x]]

CommitMove(c) ==
    LET t == tx[c] IN
    /\ t.op = "move"
    /\ Finish(c)
    /\ parent' = [parent EXCEPT ![t.e] = t.to]
    /\ closure' = (closure \ t.cut) \cup t.graft
    /\ path' = Relocated(t.e, t.below, Append(PathOf(t.to), <<t.e, title[t.e]>>))
    /\ UNCHANGED <<state, title, batch, lastBatch>>
    /\ UniquePaths'

CommitRename(c) ==
    LET t == tx[c] IN
    /\ t.op = "rename"
    /\ Finish(c)
    /\ title' = [title EXCEPT ![t.e] = 1 - @]
    /\ path' = Relocated(t.e, t.below, Append(PathOf(parent[t.e]), <<t.e, 1 - title[t.e]>>))
    /\ UNCHANGED <<state, parent, closure, batch, lastBatch>>
    /\ UniquePaths'

-----------------------------------------------------------------------------
(* soft_delete_entry and restore_bin_entry. *)

OpenDelete(c, e) ==
    /\ state[e] = "live"
    /\ Open(c, "delete", e, [Idle EXCEPT !.op = "delete", !.pc = "subtree", !.e = e])

\* The update starts: the live subtree at that moment, and the row trigger's
\* key-share lock on the parent of its top row.
MarkDeleted(c) ==
    LET rows == {x \in Below(tx[c].e) : state[x] = "live"} IN
    /\ At(c, "delete", "write")
    /\ Lock(c, parent[tx[c].e], KeyShare)
    /\ tx' = [tx EXCEPT ![c].pc = "commit", ![c].rows = rows,
                        ![c].want = rows, ![c].mode = NoKeyUpdate]
    /\ UNCHANGED tree

CommitDelete(c) ==
    LET rows == {x \in tx[c].rows : state[x] = "live"} IN
    /\ tx[c].op = "delete"
    /\ lastBatch < MaxBatches
    /\ Finish(c)
    /\ state' = [x \in Entries |-> IF x \in rows THEN "deleted" ELSE state[x]]
    /\ batch' = [x \in Entries |-> IF x \in rows THEN lastBatch + 1 ELSE batch[x]]
    /\ lastBatch' = lastBatch + 1
    /\ UNCHANGED <<parent, title, path, closure>>

IsBinRoot(e) ==
    /\ state[e] = "deleted"
    /\ parent[e] \in Entries => batch[parent[e]] # batch[e]

OpenRestore(c, e) ==
    /\ IsBinRoot(e)
    /\ Open(c, "restore", e, [Idle EXCEPT !.op = "restore", !.pc = "subtree", !.e = e])

LockBatch(c) ==
    LET t == tx[c]
        rows == {x \in Below(t.e) : batch[x] = batch[t.e]}
    IN  /\ At(c, "restore", "write")
        /\ tx' = [tx EXCEPT ![c].pc = "target", ![c].rows = rows,
                            ![c].want = rows, ![c].mode = Update]
        /\ UNCHANGED <<tree, held>>

\* resolve_restore_parent: the original folder, locked for update, unless it
\* is deleted; then the drive root, share-locked.
RestoreTarget(c) ==
    LET t == tx[c]
        p == parent[t.e]
        kept == IsLive(p)
        to == IF kept THEN p ELSE Root
    IN  /\ At(c, "restore", "target")
        /\ t.want = {}
        /\ Lock(c, to, IF kept THEN Update ELSE Share)
        /\ tx' = [tx EXCEPT ![c].to = to,
                    ![c].pc = IF kept THEN "commit" ELSE "graft",
                    ![c].cut = IF kept THEN {}
                               ELSE closure \cap ((Above(t.e) \ {t.e}) \X Below(t.e))]
        /\ UNCHANGED tree

CommitRestore(c) ==
    LET t == tx[c] IN
    /\ t.op = "restore"
    /\ Finish(c)
    /\ state' = [x \in Entries |-> IF x \in t.rows THEN "live" ELSE state[x]]
    /\ batch' = [x \in Entries |-> IF x \in t.rows THEN 0 ELSE batch[x]]
    /\ parent' = [parent EXCEPT ![t.e] = t.to]
    /\ closure' = (closure \ t.cut) \cup t.graft
    /\ path' = IF t.to = parent[t.e] THEN path
               ELSE Relocated(t.e, t.below, Append(PathOf(t.to), <<t.e, title[t.e]>>))
    /\ UNCHANGED <<title, lastBatch>>
    /\ UniquePaths'

-----------------------------------------------------------------------------
Request(c) ==
    \/ \E e \in Entries, to \in Nodes : OpenCreate(c, e, to) \/ OpenMove(c, e, to)
    \/ \E e \in Entries : OpenRename(c, e) \/ OpenDelete(c, e) \/ OpenRestore(c, e)

Statement(c) ==
    \/ \E x \in Nodes : LockRow(c, x)
    \/ LockSubtree(c) \/ CheckSubtree(c)
    \/ Insert(c) \/ LockTarget(c) \/ Detach(c) \/ Attach(c)
    \/ DerivePath(c) \/ Relocate(c)
    \/ MarkDeleted(c) \/ LockBatch(c) \/ RestoreTarget(c)

Commit(c) ==
    \/ CommitCreate(c) \/ CommitMove(c) \/ CommitRename(c)
    \/ CommitDelete(c) \/ CommitRestore(c)

Next == \E c \in Clients : Request(c) \/ Statement(c) \/ Commit(c) \/ Abort(c)
Spec == Init /\ [][Next]_vars

-----------------------------------------------------------------------------
\* Types of the tables, the transactions and the locks they hold.
TypeOK ==
    /\ state \in [Entries -> {"absent", "live", "deleted"}]
    /\ parent \in [Entries -> Nodes]
    /\ title \in [Entries -> 0..1]
    /\ path \in [Entries -> Seq(Entries \X (0..1))]
    /\ closure \subseteq Links
    /\ batch \in [Entries -> 0..MaxBatches]
    /\ lastBatch \in 0..MaxBatches
    /\ held \in [Clients -> [Nodes -> 0..4]]
    /\ \A c \in Clients : tx[c].want \subseteq Nodes /\ tx[c].rows \subseteq Entries
    /\ \A e \in Entries : (state[e] = "deleted") <=> (batch[e] # 0)

\* "an active entry cannot be placed below a deleted folder": no interleaving
\* of creations, moves, deletions and restores leaves one there either.
NoLiveBelowDeleted ==
    \A e \in Entries : state[e] = "live" => IsLive(parent[e])

\* The closure table, from which permissions are inherited, is the reflexive
\* transitive closure of parent_id; and parent_id leads to the drive root.
ClosureMatchesParents ==
    \A e \in Entries : state[e] # "absent" =>
        /\ Above(e) = {e} \cup Above(parent[e])
        /\ Root \in Above(e)
        /\ parent[e] # e /\ (parent[e] \in Entries => e \notin Above(parent[e]))

\* A path is the parent's path and the entry's name.  A rename can break it:
\* the rows whose prefix it rewrites are those below the entry when the trigger's
\* statement starts, and a move may take one of them out while it waits.
PathsMatchParents ==
    \A e \in Entries : state[e] # "absent" =>
        path[e] = Append(PathOf(parent[e]), <<e, title[e]>>)

\* A rename ends whose rewritten rows are no longer all below the entry.
Overtaken(c) == tx[c].op = "rename" /\ tx'[c] = Idle /\ ~(tx[c].below \subseteq Below(tx[c].e))

\* That is the only way to break a path: what is created below an entry while it
\* is renamed or moved, moved into it, moved with it, or restored elsewhere,
\* keeps the path that its folders give it.
PathsBreakOnlyByMovesOut ==
    [][PathsMatchParents => PathsMatchParents' \/ \E c \in Clients : Overtaken(c)]_vars

\* A deletion deletes no entry its capability check did not cover.
DeletesOnlyChecked ==
    [][\A e \in Entries : state[e] = "live" /\ state'[e] = "deleted" =>
            \E c \in Clients : tx[c].op = "delete" /\ tx'[c] = Idle /\ e \in tx[c].seen]_vars
=============================================================================
