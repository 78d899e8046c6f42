---------------------------- MODULE EntryTree_proofs ----------------------------
(***************************************************************************)
(* Safety of the folder tree for any number of sessions and entries, and    *)
(* any mix of operations.  The closure table stays a tree and no live entry *)
(* comes to lie below a deleted one because of the row locks: the statement *)
(* that adds links takes a key-share lock on every entry they name, so who  *)
(* holds a row for update sees nothing new above or below it, and may lock  *)
(* the rest of the subtree one row at a time.                               *)
(***************************************************************************)
EXTENDS EntryTree, SequenceTheorems, WellFoundedInduction, TLAPS

-----------------------------------------------------------------------------
(* Numbers and sequences. *)

\* The least of some numbers.
LEMMA Least ==
    ASSUME NEW T, T \subseteq Nat, T # {}
    PROVE  \E n \in T : \A m \in T : n <= m
<1> DEFINE R == OpToRel(<, Nat)
<1>1. IsWellFoundedOn(R, Nat)
  BY NatLessThanWellFounded
<1>2. \A x, y \in Nat : x < y => <<x, y>> \in R
  BY DEF OpToRel
<1> HIDE DEF R
<1>3. PICK x \in T : \A y \in T : ~(<<y, x>> \in R)
  BY <1>1, WFMin
<1>4. \A y \in T : ~(y < x)
  BY <1>2, <1>3
<1> QED BY <1>4

\* What a suffix is.
LEMMA SuffixIs ==
    ASSUME NEW S, NEW s \in Seq(S), NEW n \in 0..Len(s)
    PROVE  /\ Suffix(s, n) \in Seq(S) /\ Len(Suffix(s, n)) = Len(s) - n
           /\ \A i \in 1..Len(s) - n : Suffix(s, n)[i] = s[n + i]
<1>1. Len(s) \in Nat /\ \A i \in n + 1..Len(s) : s[i] \in S
  OBVIOUS
<1>2. /\ SubSeq(s, n + 1, Len(s)) \in Seq(S)
      /\ Len(SubSeq(s, n + 1, Len(s))) = IF n + 1 <= Len(s) THEN Len(s) - (n + 1) + 1 ELSE 0
      /\ \A i \in 1..Len(s) - (n + 1) + 1 : SubSeq(s, n + 1, Len(s))[i] = s[n + 1 + i - 1]
  BY <1>1, SubSeqProperties
<1> DEFINE r == SubSeq(s, n + 1, Len(s))
<1>3. Len(r) = Len(s) - n
  BY <1>1, <1>2
<1>4. ASSUME NEW i \in 1..Len(s) - n PROVE r[i] = s[n + i]
  <2>1. i \in 1..Len(s) - (n + 1) + 1 /\ n + 1 + i - 1 = n + i
    BY <1>1
  <2> QED BY <1>2, <2>1
<1> QED BY <1>2, <1>3, <1>4 DEF Suffix

\* Appending to a path and replacing a prefix of it commute.
LEMMA AppendSpliced ==
    ASSUME NEW S, NEW new \in Seq(S), NEW s \in Seq(S), NEW m \in S, NEW n \in 0..Len(s)
    PROVE  new \o Suffix(Append(s, m), n) = Append(new \o Suffix(s, n), m)
<1> DEFINE a == Append(s, m)
           r == Suffix(s, n)
           q == Suffix(a, n)
           left == new \o q
           right == Append(new \o r, m)
<1>1. a \in Seq(S) /\ Len(a) = Len(s) + 1 /\ a[Len(s) + 1] = m /\ \A i \in 1..Len(s) : a[i] = s[i]
  BY AppendProperties
<1>2. Len(s) \in Nat /\ n \in 0..Len(a) /\ Len(new) \in Nat
  BY <1>1
<1>3. /\ r \in Seq(S) /\ Len(r) = Len(s) - n /\ \A i \in 1..Len(s) - n : r[i] = s[n + i]
      /\ q \in Seq(S) /\ Len(q) = Len(a) - n /\ \A i \in 1..Len(a) - n : q[i] = a[n + i]
  BY <1>1, <1>2, SuffixIs
<1> HIDE DEF a, r, q
<1>4. /\ left \in Seq(S) /\ Len(left) = Len(new) + Len(q)
      /\ \A i \in 1..Len(new) + Len(q) : left[i] = IF i <= Len(new) THEN new[i] ELSE q[i - Len(new)]
  BY <1>3, ConcatProperties
<1>5. /\ new \o r \in Seq(S) /\ Len(new \o r) = Len(new) + Len(r)
      /\ \A i \in 1..Len(new) + Len(r) :
           (new \o r)[i] = IF i <= Len(new) THEN new[i] ELSE r[i - Len(new)]
  BY <1>3, ConcatProperties
<1>6. /\ right \in Seq(S) /\ Len(right) = Len(new) + Len(r) + 1
      /\ \A i \in 1..Len(new) + Len(r) : right[i] = (new \o r)[i]
      /\ right[Len(new) + Len(r) + 1] = m
  BY <1>5, AppendProperties
<1>7. Len(left) = Len(right)
  BY <1>1, <1>2, <1>3, <1>4, <1>6
<1>8. ASSUME NEW i \in 1..Len(left) PROVE left[i] = right[i]
  <2>1. CASE i <= Len(new)
    <3>1. i \in 1..Len(new) + Len(r) /\ i \in 1..Len(new) + Len(q)
      BY <1>1, <1>2, <1>3, <1>4, <1>8, <2>1
    <3> QED BY <1>4, <1>5, <1>6, <2>1, <3>1
  <2>2. CASE i > Len(new) /\ i < Len(left)
    <3>1. /\ i \in 1..Len(new) + Len(r) /\ i \in 1..Len(new) + Len(q) /\ ~(i <= Len(new))
          /\ i - Len(new) \in 1..Len(s) - n /\ i - Len(new) \in 1..Len(a) - n
          /\ n + (i - Len(new)) \in 1..Len(s)
      BY <1>1, <1>2, <1>3, <1>4, <1>8, <2>2
    <3>2. left[i] = a[n + (i - Len(new))] /\ right[i] = s[n + (i - Len(new))]
      BY <1>3, <1>4, <1>5, <1>6, <3>1
    <3> QED BY <1>1, <3>1, <3>2
  <2>3. CASE i = Len(left)
    <3>1. /\ i = Len(new) + Len(r) + 1 /\ i \in 1..Len(new) + Len(q) /\ ~(i <= Len(new))
          /\ i - Len(new) \in 1..Len(a) - n /\ n + (i - Len(new)) = Len(s) + 1
      BY <1>1, <1>2, <1>3, <1>4, <1>8, <2>3
    <3>2. left[i] = a[n + (i - Len(new))]
      BY <1>3, <1>4, <3>1
    <3> QED BY <1>1, <1>6, <3>1, <3>2
  <2>4. i \in Int /\ i <= Len(left) /\ Len(left) \in Int /\ Len(new) \in Int
    BY <1>2, <1>4, <1>8, LenProperties
  <2>5. i <= Len(new) \/ (i > Len(new) /\ i < Len(left)) \/ i = Len(left)
    BY <2>4
  <2> QED BY <2>1, <2>2, <2>3, <2>5
<1>9. left = right
  <2> HIDE DEF left, right
  <2> QED BY <1>4, <1>6, <1>7, <1>8, SeqEqual
<1> QED BY <1>9 DEF a, r, q

USE TreeAssumption

-----------------------------------------------------------------------------
(* Trees. *)

\* A new leaf below a folder leaves a tree.
LEMMA Grown ==
    ASSUME NEW nodes, NEW up, NEW links, Root \in nodes, IsTree(nodes, up, links),
           NEW e, e \notin nodes, NEW to \in nodes,
           NEW up2, up2[e] = to, \A x \in nodes : up2[x] = up[x],
           NEW links2, links2 \subseteq (nodes \cup {e}) \X (nodes \cup {e}),
           \A a, b \in nodes : <<a, b>> \in links2 <=> <<a, b>> \in links,
           \A a \in nodes : <<a, e>> \in links2 <=> <<a, to>> \in links,
           \A b \in nodes : <<e, b>> \notin links2,
           <<e, e>> \in links2
    PROVE  IsTree(nodes \cup {e}, up2, links2)
<1> DEFINE all == nodes \cup {e}
<1>1. \A x \in all : <<Root, x>> \in links2 /\ <<x, x>> \in links2
  BY DEF IsTree
<1>2. \A x, y \in all : <<x, y>> \in links2 /\ <<y, x>> \in links2 => x = y
  BY DEF IsTree
<1>3. ASSUME NEW x \in all, NEW y \in all, NEW z \in all, <<x, y>> \in links2, <<y, z>> \in links2
      PROVE  <<x, z>> \in links2
  <2>1. CASE y = e
    BY <1>3, <2>1
  <2>2. CASE y # e
    <3>1. x \in nodes /\ y \in nodes /\ <<x, y>> \in links
      BY <1>3, <2>2
    <3>2. CASE z = e
      BY <1>3, <3>1, <3>2 DEF IsTree
    <3>3. CASE z # e
      BY <1>3, <3>1, <3>3 DEF IsTree
    <3> QED BY <3>2, <3>3
  <2> QED BY <2>1, <2>2
<1>4. \A x, y, z \in all :
        <<x, z>> \in links2 /\ <<y, z>> \in links2 => <<x, y>> \in links2 \/ <<y, x>> \in links2
  BY ZenonT(40) DEF IsTree
<1>5. \A x \in all \ {Root} :
        /\ up2[x] \in all /\ <<x, up2[x]>> \notin links2
        /\ \A a \in all : <<a, x>> \in links2 <=> a = x \/ <<a, up2[x]>> \in links2
  BY DEF IsTree
<1> QED BY <1>1, <1>2, <1>3, <1>4, <1>5 DEF IsTree

\* A subtree moved below a folder outside it: its entries keep the links among
\* themselves and lose those from above for the links of their new folder.
IsGraft(nodes, up, links, e, to, up2, links2) ==
    /\ Root \in nodes /\ e \in nodes \ {Root} /\ to \in nodes /\ <<e, to>> \notin links
    /\ up2[e] = to /\ \A x \in nodes \ {e} : up2[x] = up[x]
    /\ links2 \subseteq nodes \X nodes
    /\ \A a, b \in nodes : <<e, b>> \notin links => (<<a, b>> \in links2 <=> <<a, b>> \in links)
    /\ \A a, b \in nodes : <<e, b>> \in links =>
         (<<a, b>> \in links2 <=>
            \/ <<a, to>> \in links
            \/ <<a, b>> \in links /\ (a = e \/ <<a, e>> \notin links))

\* It leaves a tree too.
LEMMA Grafted ==
    ASSUME NEW nodes, NEW up, NEW links, NEW e, NEW to, NEW up2, NEW links2,
           IsTree(nodes, up, links), IsGraft(nodes, up, links, e, to, up2, links2)
    PROVE  IsTree(nodes, up2, links2)
<1> USE DEF IsGraft
<1> DEFINE under(x) == <<e, x>> \in links
<1>1. /\ \A x \in nodes : <<Root, x>> \in links /\ <<x, x>> \in links
      /\ \A x, y \in nodes : <<x, y>> \in links /\ <<y, x>> \in links => x = y
      /\ \A x, y, z \in nodes : <<x, y>> \in links /\ <<y, z>> \in links => <<x, z>> \in links
      /\ \A x, y, z \in nodes :
           <<x, z>> \in links /\ <<y, z>> \in links => <<x, y>> \in links \/ <<y, x>> \in links
      /\ \A x \in nodes \ {Root} :
           /\ up[x] \in nodes /\ <<x, up[x]>> \notin links
           /\ \A a \in nodes : <<a, x>> \in links <=> a = x \/ <<a, up[x]>> \in links
  BY DEF IsTree
<1>2. \A a, b \in nodes : ~under(b) => (<<a, b>> \in links2 <=> <<a, b>> \in links)
  OBVIOUS
<1>3. \A a, b \in nodes : under(b) =>
        (<<a, b>> \in links2 <=> <<a, to>> \in links \/ (<<a, b>> \in links /\ under(a)))
  <2> SUFFICES ASSUME NEW a \in nodes, NEW b \in nodes, under(b)
               PROVE  <<a, b>> \in links2 <=> <<a, to>> \in links \/ (<<a, b>> \in links /\ under(a))
    OBVIOUS
  <2>1. <<a, b>> \in links /\ ~under(a) => <<a, e>> \in links /\ a # e
    BY <1>1
  <2>2. under(a) /\ <<a, e>> \in links => a = e
    BY <1>1
  <2> QED BY <2>1, <2>2
<1>4. \A a \in nodes : <<a, to>> \in links => ~under(a)
  BY <1>1
<1>5. \A a, b \in nodes : <<a, b>> \in links /\ under(a) => under(b)
  BY <1>1
<1>6. ~under(to) /\ under(e)
  BY <1>1
<1> HIDE DEF under
<1>7. \A x \in nodes : <<Root, x>> \in links2 /\ <<x, x>> \in links2
  BY <1>1, <1>2, <1>3
<1>8. ASSUME NEW x \in nodes, NEW y \in nodes, <<x, y>> \in links2, <<y, x>> \in links2
      PROVE  x = y
  <2>1. under(x) => under(y)
    BY <1>2, <1>5, <1>8
  <2>2. under(y) => under(x)
    BY <1>2, <1>5, <1>8
  <2>3. <<x, y>> \in links /\ <<y, x>> \in links
    BY <1>2, <1>3, <1>4, <1>8, <2>1, <2>2
  <2> QED BY <1>1, <2>3
<1>9. ASSUME NEW x \in nodes, NEW y \in nodes, NEW z \in nodes,
             <<x, y>> \in links2, <<y, z>> \in links2
      PROVE  <<x, z>> \in links2
  <2>1. CASE ~under(z)
    <3>1. <<y, z>> \in links /\ ~under(y)
      BY <1>2, <1>5, <1>9, <2>1
    <3>2. <<x, y>> \in links
      BY <1>2, <1>9, <3>1
    <3> QED BY <1>1, <1>2, <2>1, <3>1, <3>2
  <2>2. CASE under(z) /\ <<y, to>> \in links
    <3>1. <<x, y>> \in links
      BY <1>2, <1>4, <1>9, <2>2
    <3>2. <<x, to>> \in links
      BY <1>1, <2>2, <3>1
    <3> QED BY <1>3, <2>2, <3>2
  <2>3. CASE under(z) /\ <<y, z>> \in links /\ under(y)
    <3>1. <<x, to>> \in links \/ (<<x, y>> \in links /\ under(x))
      BY <1>3, <1>9, <2>3
    <3>2. <<x, to>> \in links \/ (<<x, z>> \in links /\ under(x))
      BY <1>1, <2>3, <3>1
    <3> QED BY <1>3, <2>3, <3>2
  <2> QED BY <1>3, <1>9, <2>1, <2>2, <2>3
<1>10. ASSUME NEW x \in nodes, NEW y \in nodes, NEW z \in nodes,
              <<x, z>> \in links2, <<y, z>> \in links2
       PROVE  <<x, y>> \in links2 \/ <<y, x>> \in links2
  <2>1. CASE ~under(z)
    <3>1. /\ <<x, z>> \in links /\ <<y, z>> \in links
          /\ ~under(x) /\ ~under(y)
      BY <1>2, <1>5, <1>10, <2>1
    <3> QED BY <1>1, <1>2, <3>1
  <2>2. CASE under(z) /\ <<x, to>> \in links /\ <<y, to>> \in links
    <3>1. ~under(x) /\ ~under(y) /\ (<<x, y>> \in links \/ <<y, x>> \in links)
      BY <1>1, <1>4, <2>2
    <3> QED BY <1>2, <3>1
  <2>3. CASE under(z) /\ <<x, to>> \in links /\ under(y)
    BY <1>3, <2>3
  <2>4. CASE under(z) /\ under(x) /\ <<y, to>> \in links
    BY <1>3, <2>4
  <2>5. CASE under(z) /\ under(x) /\ under(y) /\ <<x, z>> \in links /\ <<y, z>> \in links
    <3>1. <<x, y>> \in links \/ <<y, x>> \in links
      BY <1>1, <2>5
    <3> QED BY <1>3, <2>5, <3>1
  <2> QED BY <1>3, <1>10, <2>1, <2>2, <2>3, <2>4, <2>5
<1>11. ASSUME NEW x \in nodes \ {Root}
       PROVE  /\ up2[x] \in nodes /\ <<x, up2[x]>> \notin links2
              /\ \A a \in nodes : <<a, x>> \in links2 <=> a = x \/ <<a, up2[x]>> \in links2
  <2>1. CASE x = e
    <3>1. \A a \in nodes : <<a, to>> \in links2 <=> <<a, to>> \in links
      BY <1>2, <1>6
    <3>2. \A a \in nodes : <<a, e>> \in links /\ under(a) <=> a = e
      BY <1>1 DEF under
    <3> QED BY <1>3, <1>6, <2>1, <3>1, <3>2
  <2>2. CASE x # e /\ ~under(x)
    <3>1. up2[x] = up[x] /\ up[x] \in nodes /\ ~under(up[x])
      BY <1>1, <2>2 DEF under
    <3> QED BY <1>1, <1>2, <2>2, <3>1
  <2>3. CASE x # e /\ under(x)
    <3>1. up2[x] = up[x] /\ up[x] \in nodes /\ under(up[x])
      BY <1>1, <2>3 DEF under
    <3>2. <<x, to>> \notin links
      BY <1>4, <2>3
    <3>3. <<x, up[x]>> \notin links2
      BY <1>1, <1>3, <3>1, <3>2
    <3>4. \A a \in nodes : <<a, x>> \in links <=> a = x \/ <<a, up[x]>> \in links
      BY <1>1
    <3>5. \A a \in nodes : <<a, up[x]>> \in links2
                              <=> <<a, to>> \in links \/ (<<a, up[x]>> \in links /\ under(a))
      BY <1>3, <3>1
    <3>6. \A a \in nodes : <<a, x>> \in links2
                              <=> <<a, to>> \in links \/ (<<a, x>> \in links /\ under(a))
      BY <1>3, <2>3
    <3> QED BY <2>3, <3>1, <3>3, <3>4, <3>5, <3>6
  <2> QED BY <2>1, <2>2, <2>3
<1> QED BY <1>7, <1>8, <1>9, <1>10, <1>11 DEF IsTree

-----------------------------------------------------------------------------
(* The invariant. *)

Present == {Root} \cup {e \in Entries : state[e] # "absent"}
Tree == IsTree(Present, parent, closure)

Labels == {"idle", "subtree", "check", "write", "target", "graft", "paths", "commit"}
Transactions ==
    [op : AllOperations \cup {"none"}, pc : Labels, e : Entries \cup {NoEntry},
     to : Nodes \cup {NoEntry}, want : SUBSET Nodes, mode : 0..4, rows : SUBSET Entries,
     below : SUBSET Entries, seen : SUBSET Entries, cut : SUBSET Links, graft : SUBSET Links]

Types == TypeOK /\ tx \in [Clients -> Transactions]

\* Strong locks exclude, and only rows that exist are locked.
Locks ==
    /\ \A c, d \in Clients, x \in Nodes : c # d => held[c][x] + held[d][x] < 5
    /\ \A c \in Clients, x \in Nodes : held[c][x] # None => x \in Present

\* A deletion batch has one top row.
Top(e) == parent[e] \in Entries => batch[parent[e]] # batch[e]
Batches ==
    /\ \A e \in Entries : batch[e] <= lastBatch
    /\ \A x, y \in Entries :
         state[x] = "deleted" /\ batch[x] = batch[y] /\ Top(x) /\ Top(y) => x = y

\* An entry is created by one session at a time.
Alone == \A c, d \in Clients : c # d /\ tx[c].op = "create" => tx[d].e # tx[c].e

\* What a transaction t that holds the locks h rests on.
Owned(h, X) == \A x \in X : h[x] = Update
Reached(t, h, X) == \A x \in X : x \in t.want \/ h[x] >= KeyShare

Started(t) ==
    /\ \/ t.op = "none" /\ t.pc = "idle" /\ t.e = NoEntry /\ t.want = {}
       \/ /\ t.e \in Entries
          /\ \/ t.op = "create" /\ t.pc \in {"write", "commit"}
             \/ t.op = "move" /\ t.pc \in Labels \ {"idle"}
             \/ t.op = "rename" /\ t.pc \in {"write", "paths", "commit"}
             \/ t.op = "delete" /\ t.pc \in {"subtree", "check", "write", "commit"}
             \/ t.op = "restore" /\ t.pc \in Labels \ {"idle"}
    /\ t.want \subseteq Present

Creating(t, h) ==
    t.op = "create" =>
        /\ state[t.e] = "absent"
        /\ IsLive(t.to) /\ t.to \in Nodes /\ h[t.to] = Update
        /\ t.pc = "commit" =>
             /\ t.graft = (Above(t.to) \X {t.e}) \cup {<<t.e, t.e>>}
             /\ t.mode = KeyShare
             /\ Reached(t, h, Above(t.to))

Working(t, h) ==
    /\ t.op \in {"move", "rename", "delete"} => h[t.e] = Update /\ state[t.e] = "live"
    /\ t.op = "restore" => h[t.e] = Update /\ state[t.e] = "deleted" /\ Top(t.e)

\* From the check on, the whole subtree is locked.
Covering(t, h) ==
    /\ t.op \in {"move", "delete", "restore"} /\ t.pc = "check" =>
         t.mode = Update /\ \A y \in Below(t.e) : y \in t.want \/ h[y] = Update
    /\ t.op \in {"move", "delete", "restore"} /\ t.pc \in {"write", "graft", "paths", "commit"} =>
         Owned(h, Below(t.e))
    /\ t.op = "restore" /\ t.pc = "target" => Owned(h, Below(t.e))

\* The folder an entry goes to stays.
Aiming(t, h) ==
    /\ t.op = "move" => t.to \in Nodes \ {t.e}
    /\ t.op = "move" /\ t.pc # "target" => IsLive(t.to) /\ h[t.to] = Update
    /\ t.op = "restore" /\ t.pc \in {"graft", "paths", "commit"} =>
         /\ t.to \in Nodes /\ IsLive(t.to)
         /\ t.to # Root => h[t.to] = Update
         /\ t.pc = "commit" \/ t.to # parent[t.e]
         /\ t.to # parent[t.e] => t.to = Root

\* The links to be removed and added are those of the tree at commit.
Moves(t) == t.op = "move" \/ (t.op = "restore" /\ t.to # parent[t.e])
Grafting(t, h) ==
    /\ Moves(t) /\ t.pc \in {"graft", "paths", "commit"} =>
         /\ <<t.e, t.to>> \notin closure
         /\ t.cut = (Above(t.e) \ {t.e}) \X Below(t.e)
         /\ t.pc # "graft" => t.graft = Above(t.to) \X Below(t.e)
         /\ t.pc = "paths" => t.mode = KeyShare /\ Reached(t, h, Above(t.to) \cup Below(t.e))
         /\ t.pc = "commit" => \A x \in Above(t.to) \cup Below(t.e) : h[x] >= KeyShare
    /\ t.op = "restore" /\ t.pc \in {"subtree", "check", "write", "target"} => t.graft = {}
    /\ t.op = "restore" /\ t.pc = "commit" /\ ~Moves(t) => t.cut = {} /\ t.graft = {}

\* A deletion takes every live entry below the entries it takes, all checked.
Deleting(t, h) ==
    t.op = "delete" =>
        /\ t.pc = "write" => Below(t.e) \subseteq t.seen
        /\ t.pc = "commit" =>
             /\ t.e \in t.rows /\ t.rows \subseteq t.seen /\ Owned(h, t.rows)
             /\ \A x \in t.rows : state[x] = "live" /\ (x # t.e => parent[x] \in t.rows)
             /\ \A y \in Entries : state[y] = "live" /\ parent[y] \in t.rows => y \in t.rows

\* A restore takes its batch.
Restoring(t) ==
    t.op = "restore" /\ t.pc \in {"target", "graft", "paths", "commit"} =>
        t.rows = {x \in Below(t.e) : batch[x] = batch[t.e]}

Fine(t, h) ==
    /\ Started(t) /\ Creating(t, h) /\ Working(t, h) /\ Covering(t, h)
    /\ Aiming(t, h) /\ Grafting(t, h) /\ Deleting(t, h) /\ Restoring(t)

Inductive ==
    /\ Types /\ Tree /\ NoLiveBelowDeleted /\ Locks /\ Batches /\ Alone
    /\ \A c \in Clients : Fine(tx[c], held[c])

USE DEF None, KeyShare, Share, NoKeyUpdate, Update

-----------------------------------------------------------------------------
(* Steps that leave the tables alone. *)

\* What the tree says of the present entries.
LEMMA TreeFacts ==
    ASSUME Types, Tree
    PROVE  /\ \A x, y : <<x, y>> \in closure => x \in Present /\ y \in Present
           /\ \A x \in Present : x \in Above(x) /\ Root \in Above(x)
           /\ \A x \in Present : <<x, Root>> \in closure => x = Root
           /\ \A x \in Present, y \in Present, z \in Present :
                <<x, y>> \in closure /\ <<y, z>> \in closure => <<x, z>> \in closure
           /\ \A x \in Present \ {Root} :
                /\ parent[x] \in Present /\ <<x, parent[x]>> \notin closure
                /\ \A a \in Nodes : a \in Above(x) <=> a = x \/ a \in Above(parent[x])
<1>1. closure \subseteq Present \X Present /\ Root \in Present /\ Present \subseteq Nodes
  BY DEF Tree, IsTree, Present, Nodes
<1>2. \A x, y : <<x, y>> \in closure => x \in Present /\ y \in Present
  BY <1>1
<1>3. \A x \in Present : <<x, x>> \in closure /\ <<Root, x>> \in closure
  BY DEF Tree, IsTree
<1>4. \A x \in Present : <<x, Root>> \in closure => x = Root
  BY <1>1, <1>3 DEF Tree, IsTree
<1>5. \A x \in Present, y \in Present, z \in Present :
        <<x, y>> \in closure /\ <<y, z>> \in closure => <<x, z>> \in closure
  BY DEF Tree, IsTree
<1>6. \A x \in Present \ {Root} :
        /\ parent[x] \in Present /\ <<x, parent[x]>> \notin closure
        /\ \A a \in Present : <<a, x>> \in closure <=> a = x \/ <<a, parent[x]>> \in closure
  BY DEF Tree, IsTree
<1> QED BY <1>1, <1>2, <1>3, <1>4, <1>5, <1>6 DEF Above

\* What taking a row lock does.
LEMMA LockEffect ==
    ASSUME held \in [Clients -> [Nodes -> 0..4]], Locks, NEW c \in Clients,
           NEW x \in Present, NEW mode \in 0..4, Lock(c, x, mode)
    PROVE  /\ held' \in [Clients -> [Nodes -> 0..4]]
           /\ \A d \in Clients \ {c} : held'[d] = held[d]
           /\ held'[c][x] >= mode /\ (mode = Update => held'[c][x] = Update)
           /\ \A y \in Nodes : held'[c][y] >= held[c][y] /\ (y # x => held'[c][y] = held[c][y])
           /\ \A d, b \in Clients, y \in Nodes : d # b => held'[d][y] + held'[b][y] < 5
           /\ \A d \in Clients, y \in Nodes : held'[d][y] # None => y \in Present
<1> DEFINE h == [held[c] EXCEPT ![x] = Stronger(@, mode)]
<1>1. held[c] \in [Nodes -> 0..4] /\ x \in Nodes
  BY DEF Present, Nodes
<1>2. held' = [held EXCEPT ![c] = h]
  BY <1>1 DEF Lock
<1>3. h \in [Nodes -> 0..4] /\ h[x] = Stronger(held[c][x], mode) /\ \A y \in Nodes \ {x} : h[y] = held[c][y]
  BY <1>1 DEF Stronger
<1>4. h[x] >= mode /\ h[x] >= held[c][x] /\ (h[x] = mode \/ h[x] = held[c][x])
  BY <1>1, <1>3 DEF Stronger
<1>5. \A d \in Clients \ {c} : held[d][x] + h[x] < 5
  <2> SUFFICES ASSUME NEW d \in Clients \ {c} PROVE held[d][x] + h[x] < 5
    OBVIOUS
  <2>1. held[d][x] + mode < 5
    BY DEF Lock, Compatible
  <2>2. held[d][x] + held[c][x] < 5
    BY <1>1 DEF Locks
  <2> QED BY <1>4, <2>1, <2>2
<1> HIDE DEF h
<1>6. held'[c] = h /\ \A d \in Clients \ {c} : held'[d] = held[d]
  BY <1>2
<1>7. held' \in [Clients -> [Nodes -> 0..4]]
  BY <1>2, <1>3
<1>8. held'[c][x] >= mode /\ (mode = Update => held'[c][x] = Update)
      /\ \A y \in Nodes : held'[c][y] >= held[c][y] /\ (y # x => held'[c][y] = held[c][y])
  BY <1>1, <1>3, <1>4, <1>6
<1>9. ASSUME NEW d \in Clients, NEW b \in Clients, NEW y \in Nodes, d # b
      PROVE  held'[d][y] + held'[b][y] < 5
  <2>1. held[d][y] + held[b][y] < 5 /\ held[d][y] \in Int /\ held[b][y] \in Int
    BY <1>9 DEF Locks
  <2>2. CASE y # x
    <3>1. held'[d][y] = held[d][y] /\ held'[b][y] = held[b][y]
      BY <1>6, <1>8, <2>2
    <3> QED BY <2>1, <3>1
  <2>3. CASE y = x /\ d = c
    BY <1>1, <1>3, <1>5, <1>6, <1>9, <2>3
  <2>4. CASE y = x /\ b = c
    BY <1>1, <1>3, <1>5, <1>6, <1>9, <2>4
  <2>5. CASE d # c /\ b # c
    BY <1>6, <2>1, <2>5
  <2> QED BY <2>2, <2>3, <2>4, <2>5
<1>10. \A d \in Clients, y \in Nodes : held'[d][y] # None => y \in Present
  BY <1>6, <1>8 DEF Locks
<1> QED BY <1>6, <1>7, <1>8, <1>9, <1>10

\* A transaction that is in order stays so while the tables do.
LEMMA SameTables ==
    ASSUME UNCHANGED <<state, parent, title, path, closure, batch, lastBatch>>,
           NEW c \in Clients, NEW t, NEW h, tx'[c] = t, held'[c] = h, Fine(t, h)
    PROVE  Fine(tx[c], held[c])'
<1>1. /\ Present' = Present
      /\ \A x : Above(x)' = Above(x) /\ Below(x)' = Below(x) /\ Top(x)' = Top(x)
      /\ \A x : IsLive(x)' = IsLive(x)
  BY DEF Present, Above, Below, Top, IsLive
<1>2. Started(tx[c])' /\ Working(tx[c], held[c])' /\ Covering(tx[c], held[c])'
  BY <1>1 DEF Fine, Started, Working, Covering, Owned
<1>3. Creating(tx[c], held[c])' /\ Aiming(tx[c], held[c])'
  BY <1>1 DEF Fine, Creating, Aiming, Reached
<1>4. Grafting(tx[c], held[c])'
  BY <1>1 DEF Fine, Grafting, Reached, Moves
<1>5. Deleting(tx[c], held[c])' /\ Restoring(tx[c])'
  BY <1>1 DEF Fine, Deleting, Restoring, Owned
<1> QED BY <1>2, <1>3, <1>4, <1>5 DEF Fine

\* A step of one session that leaves the tables alone keeps the invariant when
\* it leaves that session's own transaction in order.
LEMMA Local ==
    ASSUME Inductive, NEW c \in Clients, UNCHANGED tree,
           NEW t2 \in Transactions, tx' = [tx EXCEPT ![c] = t2],
           held' \in [Clients -> [Nodes -> 0..4]],
           \A d \in Clients \ {c} : held'[d] = held[d],
           \A d, b \in Clients, x \in Nodes : d # b => held'[d][x] + held'[b][x] < 5,
           \A d \in Clients, x \in Nodes : held'[d][x] # None => x \in Present,
           Fine(t2, held'[c]),
           t2.op = "create" =>
             (t2.e = tx[c].e /\ tx[c].op = "create") \/ \A d \in Clients : tx[d].e # t2.e,
           t2.op # "create" => t2.e \notin Entries \/ state[t2.e] # "absent"
    PROVE  Inductive'
<1>1. UNCHANGED <<state, parent, title, path, closure, batch, lastBatch>>
  BY DEF tree
<1>2. tx' \in [Clients -> Transactions] /\ tx'[c] = t2 /\ \A d \in Clients \ {c} : tx'[d] = tx[d]
  BY DEF Inductive, Types
<1>3. Types'
  <2>1. \A d \in Clients : tx'[d].want \subseteq Nodes /\ tx'[d].rows \subseteq Entries
    BY <1>2 DEF Transactions
  <2> QED BY <1>1, <1>2, <2>1 DEF Inductive, Types, TypeOK
<1>4. Present' = Present /\ Tree' /\ NoLiveBelowDeleted' /\ Batches'
  BY <1>1 DEF Inductive, Present, Tree, NoLiveBelowDeleted, IsLive, Batches, Top
<1>5. Locks'
  BY <1>4 DEF Locks
<1>6. Alone'
  <2>1. ASSUME NEW a \in Clients, NEW b \in Clients, a # b, tx'[a].op = "create"
        PROVE  tx'[b].e # tx'[a].e
    <3>1. CASE a = c
      BY <1>2, <2>1, <3>1 DEF Inductive, Alone
    <3>2. CASE a # c
      <4>1. tx'[a] = tx[a] /\ tx[a].e \in Entries /\ state[tx[a].e] = "absent"
        BY <1>2, <2>1, <3>2 DEF Inductive, Fine, Started, Creating
      <4> QED BY <1>2, <2>1, <4>1 DEF Inductive, Alone
    <3> QED BY <3>1, <3>2
  <2> QED BY <2>1 DEF Alone
<1>7. ASSUME NEW d \in Clients PROVE Fine(tx[d], held[d])'
  <2>1. CASE d = c
    BY <1>1, <1>2, <2>1, SameTables
  <2>2. CASE d # c
    <3>1. tx'[d] = tx[d] /\ held'[d] = held[d] /\ Fine(tx[d], held[d])
      BY <1>2, <2>2 DEF Inductive
    <3> QED BY <1>1, <3>1, SameTables
  <2> QED BY <2>1, <2>2
<1> QED BY <1>3, <1>4, <1>5, <1>6, <1>7 DEF Inductive

\* The same for a step that takes a row lock,
LEMMA LocalLock ==
    ASSUME Inductive, NEW c \in Clients, UNCHANGED tree,
           NEW t2 \in Transactions, tx' = [tx EXCEPT ![c] = t2],
           NEW x \in Present, NEW mode \in 0..4, Lock(c, x, mode),
           Fine(t2, held'[c]),
           t2.op = "create" =>
             (t2.e = tx[c].e /\ tx[c].op = "create") \/ \A d \in Clients : tx[d].e # t2.e,
           t2.op # "create" => t2.e \notin Entries \/ state[t2.e] # "absent"
    PROVE  Inductive'
<1>1. held \in [Clients -> [Nodes -> 0..4]] /\ Locks
  BY DEF Inductive, Types, TypeOK
<1> QED BY <1>1, LockEffect, Local

\* and for one that takes none.
LEMMA LocalQuiet ==
    ASSUME Inductive, NEW c \in Clients, UNCHANGED <<tree, held>>,
           NEW t2 \in Transactions, tx' = [tx EXCEPT ![c] = t2],
           Fine(t2, held[c]),
           t2.op = "create" => t2.e = tx[c].e /\ tx[c].op = "create",
           t2.op # "create" => t2.e \notin Entries \/ state[t2.e] # "absent"
    PROVE  Inductive'
<1>1. held \in [Clients -> [Nodes -> 0..4]] /\ Locks
  BY DEF Inductive, Types, TypeOK
<1> QED BY <1>1, Local DEF Locks

\* What an idle session is, as a transaction.
LEMMA IdleType == Idle \in Transactions /\ Idle.op = "none" /\ Idle.pc = "idle"
                  /\ Idle.e = NoEntry /\ Idle.want = {}
  BY DEF Idle, Transactions, Labels

\* A request is opened by the lock on its entry or folder.
LEMMA OpenHolds ==
    ASSUME Inductive, NEW c \in Clients, NEW e \in Entries, NEW op,
           NEW x \in Present, NEW t2 \in Transactions, Open(c, op, x, t2),
           t2.e = e, t2.want = {}, t2.graft = {},
           \/ /\ t2.op = "create" /\ t2.pc = "write" /\ x = t2.to /\ IsLive(t2.to)
              /\ state[e] = "absent" /\ \A d \in Clients : tx[d].e # e
           \/ x = e /\ state[e] = "live" /\ t2.op = "move" /\ t2.pc = "target" /\ t2.to \in Nodes \ {e}
           \/ x = e /\ state[e] = "live" /\ t2.op = "rename" /\ t2.pc = "write"
           \/ x = e /\ state[e] = "live" /\ t2.op = "delete" /\ t2.pc = "subtree"
           \/ x = e /\ state[e] = "deleted" /\ Top(e) /\ t2.op = "restore" /\ t2.pc = "subtree"
    PROVE  Inductive'
<1>1. held \in [Clients -> [Nodes -> 0..4]] /\ Locks
  BY DEF Inductive, Types, TypeOK
<1>2. Lock(c, x, Update) /\ tx' = [tx EXCEPT ![c] = t2] /\ UNCHANGED tree
  BY DEF Open
<1>3. held'[c][x] = Update
  BY <1>1, <1>2, LockEffect
<1>4. x \in Nodes
  BY DEF Present, Nodes
<1>5. Fine(t2, held'[c])
  BY <1>3, <1>4 DEF Fine, Started, Creating, Working, Covering, Aiming, Grafting, Moves, Deleting,
                    Restoring, Labels
<1>6. /\ t2.op = "create" => \A d \in Clients : tx[d].e # t2.e
      /\ t2.op # "create" => state[t2.e] # "absent"
  OBVIOUS
<1>7. Update \in 0..4 /\ tx[c].op = tx[c].op
  OBVIOUS
<1> HIDE DEF Update
<1> QED BY <1>2, <1>5, <1>6, <1>7, LocalLock

\* Every request opens so.
LEMMA RequestHolds ==
    ASSUME Inductive, NEW c \in Clients, Request(c)
    PROVE  Inductive'
<1>1. ASSUME NEW e \in Entries, NEW to \in Nodes, OpenCreate(c, e, to) PROVE Inductive'
  <2> DEFINE t2 == [Idle EXCEPT !.op = "create", !.pc = "write", !.e = e, !.to = to]
  <2>1. /\ t2.op = "create" /\ t2.pc = "write" /\ t2.e = e /\ t2.to = to /\ t2.want = {}
        /\ t2.graft = {}
    BY DEF Idle
  <2>2. t2 \in Transactions
    BY IdleType DEF Transactions, Labels, AllOperations
  <2>3. /\ state[e] = "absent" /\ IsLive(to) /\ \A d \in Clients : tx[d].e # e
        /\ Open(c, "create", to, t2)
    BY <1>1 DEF OpenCreate
  <2>4. to \in Present
    BY <2>3 DEF IsLive, Present
  <2> HIDE DEF t2
  <2> QED BY <2>1, <2>2, <2>3, <2>4, OpenHolds
<1>2. ASSUME NEW e \in Entries, NEW to \in Nodes, OpenMove(c, e, to) PROVE Inductive'
  <2> DEFINE t2 == [Idle EXCEPT !.op = "move", !.pc = "target", !.e = e, !.to = to]
  <2>1. /\ t2.op = "move" /\ t2.pc = "target" /\ t2.e = e /\ t2.to = to /\ t2.want = {}
        /\ t2.graft = {}
    BY DEF Idle
  <2>2. t2 \in Transactions
    BY IdleType DEF Transactions, Labels, AllOperations
  <2>3. state[e] = "live" /\ to # e /\ Open(c, "move", e, t2)
    BY <1>2 DEF OpenMove
  <2>4. e \in Present
    BY <2>3 DEF Present
  <2> HIDE DEF t2
  <2> QED BY <2>1, <2>2, <2>3, <2>4, OpenHolds
<1>3. ASSUME NEW e \in Entries, OpenRename(c, e) PROVE Inductive'
  <2> DEFINE t2 == [Idle EXCEPT !.op = "rename", !.pc = "write", !.e = e]
  <2>1. t2.op = "rename" /\ t2.pc = "write" /\ t2.e = e /\ t2.want = {} /\ t2.graft = {}
    BY DEF Idle
  <2>2. t2 \in Transactions
    BY IdleType DEF Transactions, Labels, AllOperations
  <2>3. state[e] = "live" /\ Open(c, "rename", e, t2)
    BY <1>3 DEF OpenRename
  <2>4. e \in Present
    BY <2>3 DEF Present
  <2> HIDE DEF t2
  <2> QED BY <2>1, <2>2, <2>3, <2>4, OpenHolds
<1>4. ASSUME NEW e \in Entries, OpenDelete(c, e) PROVE Inductive'
  <2> DEFINE t2 == [Idle EXCEPT !.op = "delete", !.pc = "subtree", !.e = e]
  <2>1. t2.op = "delete" /\ t2.pc = "subtree" /\ t2.e = e /\ t2.want = {} /\ t2.graft = {}
    BY DEF Idle
  <2>2. t2 \in Transactions
    BY IdleType DEF Transactions, Labels, AllOperations
  <2>3. state[e] = "live" /\ Open(c, "delete", e, t2)
    BY <1>4 DEF OpenDelete
  <2>4. e \in Present
    BY <2>3 DEF Present
  <2> HIDE DEF t2
  <2> QED BY <2>1, <2>2, <2>3, <2>4, OpenHolds
<1>5. ASSUME NEW e \in Entries, OpenRestore(c, e) PROVE Inductive'
  <2> DEFINE t2 == [Idle EXCEPT !.op = "restore", !.pc = "subtree", !.e = e]
  <2>1. t2.op = "restore" /\ t2.pc = "subtree" /\ t2.e = e /\ t2.want = {} /\ t2.graft = {}
    BY DEF Idle
  <2>2. t2 \in Transactions
    BY IdleType DEF Transactions, Labels, AllOperations
  <2>3. state[e] = "deleted" /\ Top(e) /\ Open(c, "restore", e, t2)
    BY <1>5 DEF OpenRestore, IsBinRoot, Top
  <2>4. e \in Present
    BY <2>3 DEF Present
  <2> HIDE DEF t2
  <2> QED BY <2>1, <2>2, <2>3, <2>4, OpenHolds
<1> QED BY <1>1, <1>2, <1>3, <1>4, <1>5 DEF Request

\* The next row of a statement.
LEMMA LockRowHolds ==
    ASSUME Inductive, NEW c \in Clients, NEW x \in Nodes, LockRow(c, x)
    PROVE  Inductive'
<1> DEFINE t == tx[c]
           t2 == [t EXCEPT !.want = @ \ {x}]
<1>1. /\ t \in Transactions /\ Fine(t, held[c]) /\ held \in [Clients -> [Nodes -> 0..4]] /\ Locks
      /\ x \in t.want /\ Lock(c, x, t.mode) /\ tx' = [tx EXCEPT ![c] = t2] /\ UNCHANGED tree
  BY DEF LockRow, Inductive, Types, TypeOK
<1> HIDE DEF t
<1>2. /\ t2.op = t.op /\ t2.pc = t.pc /\ t2.e = t.e /\ t2.to = t.to /\ t2.mode = t.mode
      /\ t2.want = t.want \ {x} /\ t2.rows = t.rows /\ t2.seen = t.seen
      /\ t2.cut = t.cut /\ t2.graft = t.graft /\ t2 \in Transactions
  BY <1>1 DEF Transactions
<1>3. x \in Present /\ t.mode \in 0..4 /\ t.op # "none"
  <2>1. t.want \subseteq Present
    BY <1>1 DEF Fine, Started
  <2>2. t.op # "none"
    BY <1>1 DEF Fine, Started
  <2> QED BY <1>1, <2>1, <2>2 DEF Transactions
<1> HIDE DEF t2
<1> DEFINE h2 == held'[c]
<1>4. /\ h2 \in [Nodes -> 0..4] /\ h2[x] >= t.mode /\ (t.mode = Update => h2[x] = Update)
      /\ \A y \in Nodes : h2[y] >= held[c][y] /\ (held[c][y] = Update => h2[y] = Update)
  <2>1. /\ held' \in [Clients -> [Nodes -> 0..4]]
        /\ h2[x] >= t.mode /\ (t.mode = Update => h2[x] = Update)
        /\ \A y \in Nodes : h2[y] >= held[c][y]
    BY <1>1, <1>3, LockEffect
  <2>2. held[c] \in [Nodes -> 0..4] /\ h2 \in [Nodes -> 0..4]
    BY <1>1, <2>1
  <2> QED BY <2>1, <2>2
<1> HIDE DEF h2
<1>5. Fine(t2, h2)
  <2>1. Started(t2) /\ Working(t2, h2)
    BY <1>1, <1>2, <1>4 DEF Fine, Started, Working, Nodes
  <2>2. Creating(t2, h2)
    BY <1>1, <1>2, <1>4 DEF Fine, Creating, Reached, Above
  <2>3. Covering(t2, h2)
    BY <1>1, <1>2, <1>4 DEF Fine, Covering, Owned, Below, Nodes
  <2>4. Aiming(t2, h2)
    BY <1>1, <1>2, <1>4 DEF Fine, Aiming
  <2>5. Grafting(t2, h2)
    <3>1. ASSUME NEW X, X \subseteq Nodes, Reached(t, held[c], X), t.mode = KeyShare
          PROVE  Reached(t2, h2, X)
      <4>1. ASSUME NEW y \in X PROVE y \in t2.want \/ h2[y] >= KeyShare
        <5>1. y \in t.want \/ held[c][y] >= KeyShare
          BY <3>1 DEF Reached
        <5>2. h2[y] >= held[c][y] /\ h2[y] \in 0..4 /\ held[c][y] \in 0..4
          BY <1>1, <1>4, <3>1
        <5> QED BY <1>2, <1>4, <3>1, <5>1, <5>2
      <4> QED BY <4>1 DEF Reached
    <3>2. \A y \in Nodes : held[c][y] >= KeyShare => h2[y] >= KeyShare
      BY <1>1, <1>4
    <3>3. Above(t.to) \subseteq Nodes /\ Below(t.e) \subseteq Nodes
      BY DEF Above, Below, Nodes
    <3>4. Grafting(t, held[c])
      BY <1>1 DEF Fine
    <3>5. t2.pc = "paths" /\ Moves(t2) => Reached(t2, h2, Above(t.to) \cup Below(t.e))
      BY <1>2, <3>1, <3>3, <3>4 DEF Grafting, Moves
    <3> QED BY <1>2, <3>2, <3>3, <3>4, <3>5 DEF Grafting, Moves
  <2>6. Deleting(t2, h2) /\ Restoring(t2)
    BY <1>1, <1>2, <1>4 DEF Fine, Deleting, Restoring, Owned, Transactions, Nodes
  <2> QED BY <2>1, <2>2, <2>3, <2>4, <2>5, <2>6 DEF Fine
<1>6. /\ t2.op = "create" => t2.e = t.e /\ t.op = "create"
      /\ t2.op # "create" => state[t2.e] # "absent"
  BY <1>1, <1>2, <1>3 DEF Fine, Started, Working
<1> QED BY <1>1, <1>2, <1>3, <1>5, <1>6, LocalLock DEF t, h2

\* What the invariant says of the transaction that makes a step.
LEMMA Mine ==
    ASSUME Inductive, NEW c \in Clients
    PROVE  /\ tx[c] \in Transactions /\ Fine(tx[c], held[c])
           /\ held[c] \in [Nodes -> 0..4]
           /\ \A e : Above(e) \subseteq Present /\ Below(e) \subseteq Present /\ Above(e) \subseteq Nodes
           /\ Present \subseteq Nodes
<1>1. tx[c] \in Transactions /\ Fine(tx[c], held[c]) /\ held[c] \in [Nodes -> 0..4]
  BY DEF Inductive, Types, TypeOK
<1>2. closure \subseteq Present \X Present
  BY DEF Inductive, Tree, IsTree
<1> QED BY <1>1, <1>2 DEF Above, Below, Present, Nodes

\* The subtree is listed and, once its rows are locked, checked.
LEMMA SubtreeHolds ==
    ASSUME Inductive, NEW c \in Clients, LockSubtree(c) \/ CheckSubtree(c)
    PROVE  Inductive'
<1> DEFINE t == tx[c]
<1>1. /\ t \in Transactions /\ Fine(t, held[c]) /\ held[c] \in [Nodes -> 0..4]
      /\ Below(t.e) \subseteq Present /\ Below(t.e) \subseteq Nodes
  BY Mine DEF Below, Nodes
<1>2. CASE LockSubtree(c)
  <2> DEFINE t2 == [t EXCEPT !.pc = "check", !.want = Below(t.e), !.mode = Update]
  <2>1. t.pc = "subtree" /\ tx' = [tx EXCEPT ![c] = t2] /\ UNCHANGED <<tree, held>>
    BY <1>2 DEF LockSubtree
  <2> HIDE DEF t
  <2>2. /\ t2.op = t.op /\ t2.pc = "check" /\ t2.e = t.e /\ t2.to = t.to /\ t2.mode = Update
        /\ t2.want = Below(t.e) /\ t2.graft = t.graft
    BY <1>1 DEF Transactions
  <2>3. t2 \in Transactions
    <3>1. Below(t.e) \in SUBSET Nodes /\ Update \in 0..4 /\ "check" \in Labels
      BY <1>1 DEF Labels
    <3> HIDE DEF Update
    <3> QED BY <1>1, <3>1 DEF Transactions
  <2> HIDE DEF t2
  <2>4. t.op \in {"move", "delete", "restore"} /\ t.e \in Entries /\ state[t.e] # "absent"
    BY <1>1, <2>1 DEF Fine, Started, Working
  <2>5. Fine(t2, held[c])
    BY <1>1, <2>1, <2>2, <2>4
       DEF Fine, Started, Creating, Working, Covering, Aiming, Grafting, Moves, Deleting,
           Restoring, Labels
  <2> QED BY <2>1, <2>2, <2>3, <2>4, <2>5, LocalQuiet DEF t
<1>3. CASE CheckSubtree(c)
  <2> DEFINE t2 == [t EXCEPT !.pc = "write", !.seen = Below(t.e)]
  <2>1. t.pc = "check" /\ t.want = {} /\ tx' = [tx EXCEPT ![c] = t2] /\ UNCHANGED <<tree, held>>
    BY <1>3 DEF CheckSubtree
  <2> HIDE DEF t
  <2>2. /\ t2.op = t.op /\ t2.pc = "write" /\ t2.e = t.e /\ t2.to = t.to /\ t2.mode = t.mode
        /\ t2.want = t.want /\ t2.seen = Below(t.e) /\ t2.graft = t.graft
    BY <1>1 DEF Transactions
  <2>3. t2 \in Transactions
    BY <1>1 DEF Transactions, Labels, Below
  <2> HIDE DEF t2
  <2>4. t.op \in {"move", "delete", "restore"} /\ t.e \in Entries /\ state[t.e] # "absent"
    BY <1>1, <2>1 DEF Fine, Started, Working
  <2>5. Fine(t2, held[c])
    BY <1>1, <2>1, <2>2, <2>4
       DEF Fine, Started, Creating, Working, Covering, Aiming, Grafting, Moves, Deleting,
           Restoring, Labels, Owned
  <2> QED BY <2>1, <2>2, <2>3, <2>4, <2>5, LocalQuiet DEF t
<1> QED BY <1>2, <1>3

\* A creation derives the links of its entry and locks what they name.
LEMMA InsertHolds ==
    ASSUME Inductive, NEW c \in Clients, Insert(c)
    PROVE  Inductive'
<1> DEFINE t == tx[c]
           graft == (Above(t.to) \X {t.e}) \cup {<<t.e, t.e>>}
           want == ReferencedRows(graft) \ {t.e}
           t2 == [t EXCEPT !.pc = "commit", !.graft = graft, !.mode = KeyShare, !.want = want]
<1>1. /\ t \in Transactions /\ Fine(t, held[c]) /\ held[c] \in [Nodes -> 0..4]
      /\ Above(t.to) \subseteq Present /\ Above(t.to) \subseteq Nodes
  BY Mine
<1>2. /\ t.op = "create" /\ t.pc = "write"
      /\ tx' = [tx EXCEPT ![c] = t2] /\ UNCHANGED <<tree, held>>
  BY DEF Insert, At
<1> HIDE DEF t
<1>3. t.e \in Entries /\ state[t.e] = "absent" /\ t.e \notin Present
  BY <1>1, <1>2 DEF Fine, Started, Creating, Present
<1>4. want = Above(t.to)
  <2>1. ASSUME NEW a \in Above(t.to) PROVE a \in want
    <3>1. a # t.e /\ <<a, t.e>> \in graft /\ <<a, t.e>>[1] = a
      BY <1>1, <1>3
    <3> HIDE DEF graft
    <3> QED BY <3>1 DEF ReferencedRows
  <2>2. want \subseteq Above(t.to)
    BY <1>1, <1>3 DEF ReferencedRows
  <2> QED BY <2>1, <2>2
<1>5. graft \in SUBSET Links
  BY <1>1, <1>3 DEF Links, Nodes
<1> HIDE DEF want, graft
<1>6. /\ t2.op = t.op /\ t2.pc = "commit" /\ t2.e = t.e /\ t2.to = t.to /\ t2.mode = KeyShare
      /\ t2.want = want /\ t2.graft = graft
  BY <1>1 DEF Transactions
<1>7. t2 \in Transactions
  <2>1. want \in SUBSET Nodes /\ KeyShare \in 0..4 /\ "commit" \in Labels
    BY <1>1, <1>4 DEF Labels
  <2> HIDE DEF KeyShare
  <2> QED BY <1>1, <1>5, <2>1 DEF Transactions
<1> HIDE DEF t2
<1>8. Fine(t2, held[c])
  BY <1>1, <1>2, <1>3, <1>4, <1>6
     DEF Fine, Started, Creating, Working, Covering, Aiming, Grafting, Moves, Deleting,
         Restoring, Reached, graft
<1> QED BY <1>2, <1>6, <1>7, <1>8, LocalQuiet DEF t

\* A move locks the folder it goes to; a rename share-locks the folder it is in.
LEMMA TargetHolds ==
    ASSUME Inductive, NEW c \in Clients, LockTarget(c) \/ DerivePath(c)
    PROVE  Inductive'
<1> DEFINE t == tx[c]
<1>1. /\ t \in Transactions /\ Fine(t, held[c]) /\ held \in [Clients -> [Nodes -> 0..4]] /\ Locks
      /\ Present \subseteq Nodes
  BY Mine DEF Inductive, Types, TypeOK
<1>2. CASE LockTarget(c)
  <2> DEFINE t2 == [t EXCEPT !.pc = "subtree"]
             h2 == held'[c]
  <2>1. /\ t.op = "move" /\ t.pc = "target" /\ IsLive(t.to) /\ Lock(c, t.to, Update)
        /\ tx' = [tx EXCEPT ![c] = t2] /\ UNCHANGED tree
    BY <1>2 DEF LockTarget, Goto, At
  <2> HIDE DEF t
  <2>2. t.to \in Present
    BY <2>1 DEF IsLive, Present
  <2>3. /\ t2.op = t.op /\ t2.pc = "subtree" /\ t2.e = t.e /\ t2.to = t.to /\ t2.want = t.want
        /\ t2 \in Transactions
    BY <1>1 DEF Transactions, Labels
  <2> HIDE DEF t2
  <2>4. Update \in 0..4
    OBVIOUS
  <2>5. h2 \in [Nodes -> 0..4] /\ h2[t.to] = Update
        /\ \A y \in Nodes : h2[y] >= held[c][y] /\ held[c][y] \in 0..4
    BY <1>1, <2>1, <2>2, <2>4, LockEffect
  <2> HIDE DEF h2
  <2>6. t.e \in Entries /\ state[t.e] = "live" /\ held[c][t.e] = Update /\ t.e \in Nodes
    BY <1>1, <2>1 DEF Fine, Started, Working, Nodes
  <2>7. h2[t.e] = Update
    BY <2>5, <2>6
  <2>8. Fine(t2, h2)
    BY <1>1, <2>1, <2>2, <2>3, <2>5, <2>6, <2>7
       DEF Fine, Started, Creating, Working, Covering, Aiming, Grafting, Moves, Deleting,
           Restoring, Labels
  <2> QED BY <1>1, <2>1, <2>2, <2>3, <2>4, <2>6, <2>8, LocalLock DEF t, h2
<1>3. CASE DerivePath(c)
  <2> DEFINE t2 == [t EXCEPT !.pc = "paths"]
             h2 == held'[c]
  <2>1. /\ t.op = "rename" /\ t.pc = "write" /\ Lock(c, parent[t.e], Share)
        /\ tx' = [tx EXCEPT ![c] = t2] /\ UNCHANGED tree
    BY <1>3 DEF DerivePath, Goto, At
  <2> HIDE DEF t
  <2>2. t.e \in Entries /\ state[t.e] = "live" /\ held[c][t.e] = Update /\ t.e \in Nodes
    BY <1>1, <2>1 DEF Fine, Started, Working, Nodes
  <2>3. parent[t.e] \in Present
    <3>1. t.e \in Present \ {Root}
      BY <2>2 DEF Present
    <3> QED BY <3>1, TreeFacts DEF Inductive
  <2>4. /\ t2.op = t.op /\ t2.pc = "paths" /\ t2.e = t.e /\ t2.to = t.to /\ t2.want = t.want
        /\ t2 \in Transactions
    BY <1>1 DEF Transactions, Labels
  <2> HIDE DEF t2
  <2>5. Share \in 0..4
    OBVIOUS
  <2>6. h2 \in [Nodes -> 0..4] /\ \A y \in Nodes : h2[y] >= held[c][y] /\ held[c][y] \in 0..4
    BY <1>1, <2>1, <2>3, <2>5, LockEffect
  <2> HIDE DEF h2
  <2>7. h2[t.e] = Update
    BY <2>2, <2>6
  <2>8. Fine(t2, h2)
    BY <1>1, <2>1, <2>2, <2>4, <2>7
       DEF Fine, Started, Creating, Working, Covering, Aiming, Grafting, Moves, Deleting, Restoring
  <2> QED BY <1>1, <2>1, <2>2, <2>3, <2>4, <2>5, <2>8, LocalLock DEF t, h2
<1> QED BY <1>2, <1>3

\* Above an entry everything is above what is below it.
LEMMA Across ==
    ASSUME Types, Tree, NEW e \in Entries
    PROVE  closure \cap ((Above(e) \ {e}) \X Below(e)) = (Above(e) \ {e}) \X Below(e)
<1>1. ASSUME NEW a \in Above(e), NEW d \in Below(e) PROVE <<a, d>> \in closure
  <2>1. <<a, e>> \in closure /\ <<e, d>> \in closure
    BY DEF Above, Below
  <2> QED BY <2>1, TreeFacts
<1> QED BY <1>1

\* A move removes the links of its subtree to the old ancestors.
LEMMA DetachHolds ==
    ASSUME Inductive, NEW c \in Clients, Detach(c)
    PROVE  Inductive'
<1> DEFINE t == tx[c]
           cut == closure \cap ((Above(t.e) \ {t.e}) \X Below(t.e))
           t2 == [t EXCEPT !.pc = "graft", !.cut = cut]
<1>1. /\ t \in Transactions /\ Fine(t, held[c]) /\ held[c] \in [Nodes -> 0..4]
      /\ closure \subseteq Links
  BY Mine DEF Inductive, Types, TypeOK
<1>2. /\ t.op = "move" /\ t.pc = "write" /\ t.to \notin Below(t.e)
      /\ tx' = [tx EXCEPT ![c] = t2] /\ UNCHANGED <<tree, held>>
  BY DEF Detach, At
<1> HIDE DEF t
<1>3. t.e \in Entries /\ state[t.e] # "absent" /\ t.e \in Present /\ t.to \in Nodes
  BY <1>1, <1>2 DEF Fine, Started, Working, Aiming, Present
<1>4. cut = (Above(t.e) \ {t.e}) \X Below(t.e) /\ cut \in SUBSET Links
  BY <1>1, <1>3, Across DEF Inductive
<1>5. <<t.e, t.to>> \notin closure
  <2>1. CASE t.to = Root
    BY <1>3, <2>1, TreeFacts DEF Inductive
  <2>2. CASE t.to # Root
    BY <1>2, <1>3, <2>2 DEF Below, Nodes
  <2> QED BY <2>1, <2>2
<1> HIDE DEF cut
<1>6. /\ t2.op = t.op /\ t2.pc = "graft" /\ t2.e = t.e /\ t2.to = t.to
      /\ t2.want = t.want /\ t2.cut = cut
  BY <1>1 DEF Transactions
<1>7. t2 \in Transactions
  BY <1>1, <1>4 DEF Transactions, Labels
<1> HIDE DEF t2
<1>8. Fine(t2, held[c])
  BY <1>1, <1>2, <1>3, <1>4, <1>5, <1>6
     DEF Fine, Started, Creating, Working, Covering, Aiming, Grafting, Moves, Deleting,
         Restoring, Labels
<1> QED BY <1>2, <1>3, <1>6, <1>7, <1>8, LocalQuiet DEF t

\* What a graft links.
LEMMA Linked ==
    ASSUME NEW X, NEW Y, NEW x \in X, NEW y \in Y
    PROVE  ReferencedRows(X \X Y) = X \cup Y
<1>1. ASSUME NEW a \in X PROVE a \in ReferencedRows(X \X Y)
  <2>1. <<a, y>> \in X \X Y /\ <<a, y>>[1] = a
    OBVIOUS
  <2> QED BY <2>1 DEF ReferencedRows
<1>2. ASSUME NEW b \in Y PROVE b \in ReferencedRows(X \X Y)
  <2>1. <<x, b>> \in X \X Y /\ <<x, b>>[2] = b
    OBVIOUS
  <2> QED BY <2>1 DEF ReferencedRows
<1>3. ReferencedRows(X \X Y) \subseteq X \cup Y
  BY DEF ReferencedRows
<1> QED BY <1>1, <1>2, <1>3

\* Its second statement links the subtree to the new ones.
LEMMA AttachHolds ==
    ASSUME Inductive, NEW c \in Clients, Attach(c)
    PROVE  Inductive'
<1> DEFINE t == tx[c]
           graft == Above(t.to) \X Below(t.e)
           want == ReferencedRows(graft)
           t2 == [t EXCEPT !.pc = "paths", !.graft = graft, !.mode = KeyShare, !.want = want]
<1>1. /\ t \in Transactions /\ Fine(t, held[c]) /\ held[c] \in [Nodes -> 0..4]
      /\ Above(t.to) \subseteq Present /\ Below(t.e) \subseteq Present /\ Present \subseteq Nodes
  BY Mine
<1>2. /\ t.pc = "graft" /\ tx' = [tx EXCEPT ![c] = t2] /\ UNCHANGED <<tree, held>>
  BY DEF Attach
<1> HIDE DEF t
<1>3. /\ t.op \in {"move", "restore"} /\ t.e \in Entries /\ state[t.e] # "absent"
      /\ t.e \in Present /\ IsLive(t.to)
  BY <1>1, <1>2 DEF Fine, Started, Working, Aiming, Present
<1>4. Root \in Above(t.to) /\ t.e \in Below(t.e)
  <2>1. t.to \in Present
    BY <1>3 DEF IsLive, Present
  <2> QED BY <1>3, <2>1, TreeFacts DEF Inductive, Above, Below
<1>5. want = Above(t.to) \cup Below(t.e)
  BY <1>4, Linked
<1>6. graft \in SUBSET Links
  BY <1>1 DEF Links
<1>7. want \in SUBSET Nodes
  BY <1>1, <1>5
<1> HIDE DEF want, graft
<1>8. /\ t2.op = t.op /\ t2.pc = "paths" /\ t2.e = t.e /\ t2.to = t.to /\ t2.mode = KeyShare
      /\ t2.want = want /\ t2.cut = t.cut /\ t2.graft = graft /\ t2.rows = t.rows
  BY <1>1 DEF Transactions
<1>9. t2 \in Transactions
  <2>1. KeyShare \in 0..4 /\ "paths" \in Labels
    BY DEF Labels
  <2> HIDE DEF KeyShare
  <2> QED BY <1>1, <1>6, <1>7, <2>1 DEF Transactions
<1> HIDE DEF t2
<1>10. Fine(t2, held[c])
  BY <1>1, <1>2, <1>3, <1>5, <1>8
     DEF Fine, Started, Creating, Working, Covering, Aiming, Grafting, Moves, Deleting,
         Restoring, Labels, Reached, graft
<1> QED BY <1>2, <1>3, <1>8, <1>9, <1>10, LocalQuiet DEF t

\* The path trigger lists the rows whose paths it rewrites.
LEMMA RelocateHolds ==
    ASSUME Inductive, NEW c \in Clients, Relocate(c)
    PROVE  Inductive'
<1> DEFINE t == tx[c]
           rows == Below(t.e) \ {t.e}
           t2 == [t EXCEPT !.pc = "commit", !.below = rows, !.want = rows, !.mode = NoKeyUpdate]
<1>1. /\ t \in Transactions /\ Fine(t, held[c]) /\ held[c] \in [Nodes -> 0..4]
      /\ Above(t.to) \subseteq Present /\ Below(t.e) \subseteq Present /\ Present \subseteq Nodes
  BY Mine
<1>2. /\ t.pc = "paths" /\ t.want = {} /\ tx' = [tx EXCEPT ![c] = t2] /\ UNCHANGED <<tree, held>>
  BY DEF Relocate
<1> HIDE DEF t
<1>3. /\ t.op \in {"move", "rename", "restore"} /\ t.e \in Entries /\ state[t.e] # "absent"
  BY <1>1, <1>2 DEF Fine, Started, Working
<1>4. rows \in SUBSET Entries /\ rows \in SUBSET Nodes /\ rows \subseteq Present
  BY <1>1 DEF Below, Nodes
<1> HIDE DEF rows
<1>5. /\ t2.op = t.op /\ t2.pc = "commit" /\ t2.e = t.e /\ t2.to = t.to
      /\ t2.want = rows /\ t2.cut = t.cut /\ t2.graft = t.graft /\ t2.rows = t.rows
  BY <1>1 DEF Transactions
<1>6. t2 \in Transactions
  <2>1. NoKeyUpdate \in 0..4 /\ "commit" \in Labels
    BY DEF Labels
  <2> HIDE DEF NoKeyUpdate
  <2> QED BY <1>1, <1>4, <2>1 DEF Transactions
<1> HIDE DEF t2
<1>7. Fine(t2, held[c])
  BY <1>1, <1>2, <1>3, <1>4, <1>5
     DEF Fine, Started, Creating, Working, Covering, Aiming, Grafting, Moves, Deleting,
         Restoring, Labels, Reached
<1> QED BY <1>2, <1>3, <1>5, <1>6, <1>7, LocalQuiet DEF t

\* What lies below an entry is closed under folders and their contents.
LEMMA SubtreeClosed ==
    ASSUME Types, Tree, NEW e \in Entries, e \in Present
    PROVE  /\ e \in Below(e)
           /\ \A x \in Below(e) \ {e} : parent[x] \in Below(e)
           /\ \A y \in Entries : y \in Present /\ parent[y] \in Below(e) => y \in Below(e)
<1>1. e \in Below(e)
  BY TreeFacts DEF Below, Above
<1>2. ASSUME NEW x \in Below(e) \ {e} PROVE parent[x] \in Below(e)
  <2>1. <<e, x>> \in closure /\ x \in Present \ {Root} /\ e \in Nodes
    BY TreeFacts DEF Below, Nodes
  <2>2. <<e, parent[x]>> \in closure
    BY <2>1, TreeFacts DEF Above
  <2>3. parent[x] # Root /\ parent[x] \in Present
    BY <2>2, TreeFacts
  <2> QED BY <2>2, <2>3 DEF Below, Present
<1>3. ASSUME NEW y \in Entries, y \in Present, parent[y] \in Below(e) PROVE y \in Below(e)
  <2>1. <<e, parent[y]>> \in closure /\ y \in Present \ {Root} /\ e \in Nodes
    BY <1>3 DEF Below, Nodes
  <2> QED BY <2>1, TreeFacts DEF Above, Below
<1> QED BY <1>1, <1>2, <1>3

\* A deletion lists the live entries of its subtree, all of them locked.
LEMMA MarkDeletedHolds ==
    ASSUME Inductive, NEW c \in Clients, MarkDeleted(c)
    PROVE  Inductive'
<1> DEFINE t == tx[c]
           rows == {x \in Below(t.e) : state[x] = "live"}
           t2 == [t EXCEPT !.pc = "commit", !.rows = rows, !.want = rows, !.mode = NoKeyUpdate]
           h2 == held'[c]
<1>1. /\ t \in Transactions /\ Fine(t, held[c]) /\ held \in [Clients -> [Nodes -> 0..4]] /\ Locks
      /\ Below(t.e) \subseteq Present /\ Present \subseteq Nodes /\ Types /\ Tree
  BY Mine DEF Inductive, Types, TypeOK
<1>2. /\ t.op = "delete" /\ t.pc = "write" /\ Lock(c, parent[t.e], KeyShare)
      /\ tx' = [tx EXCEPT ![c] = t2] /\ UNCHANGED tree
  BY DEF MarkDeleted, At
<1> HIDE DEF t
<1>3. /\ t.e \in Entries /\ state[t.e] = "live" /\ t.e \in Present /\ t.e \in Nodes
      /\ Owned(held[c], Below(t.e)) /\ Below(t.e) \subseteq t.seen /\ held[c][t.e] = Update
  BY <1>1, <1>2 DEF Fine, Started, Working, Covering, Deleting, Present, Nodes
<1>4. parent[t.e] \in Present
  BY <1>1, <1>3, TreeFacts DEF Present
<1>5. /\ t.e \in rows /\ rows \subseteq t.seen
      /\ \A x \in rows : state[x] = "live" /\ (x # t.e => parent[x] \in rows)
      /\ \A y \in Entries : state[y] = "live" /\ parent[y] \in rows => y \in rows
  <2>1. \A x \in rows : x # t.e => parent[x] \in rows
    <3> SUFFICES ASSUME NEW x \in rows, x # t.e PROVE parent[x] \in rows
      OBVIOUS
    <3>1. parent[x] \in Below(t.e) /\ parent[x] \in Entries /\ x \in Entries
      BY <1>1, <1>3, SubtreeClosed DEF Below
    <3>2. IsLive(parent[x])
      BY <3>1 DEF Inductive, NoLiveBelowDeleted
    <3> QED BY <3>1, <3>2 DEF IsLive
  <2>2. \A y \in Entries : state[y] = "live" /\ parent[y] \in rows => y \in rows
    BY <1>1, <1>3, SubtreeClosed DEF Present
  <2>3. t.e \in rows
    BY <1>1, <1>3, SubtreeClosed
  <2> QED BY <1>3, <2>1, <2>2, <2>3
<1>6. rows \in SUBSET Entries /\ rows \in SUBSET Nodes /\ rows \subseteq Below(t.e)
  BY <1>1 DEF Below, Nodes
<1> HIDE DEF rows
<1>7. /\ t2.op = t.op /\ t2.pc = "commit" /\ t2.e = t.e /\ t2.to = t.to
      /\ t2.want = rows /\ t2.rows = rows /\ t2.seen = t.seen
  BY <1>1 DEF Transactions
<1>8. t2 \in Transactions
  <2>1. NoKeyUpdate \in 0..4 /\ "commit" \in Labels
    BY DEF Labels
  <2> HIDE DEF NoKeyUpdate
  <2> QED BY <1>1, <1>6, <2>1 DEF Transactions
<1> HIDE DEF t2
<1>9. KeyShare \in 0..4
  OBVIOUS
<1>10. h2 \in [Nodes -> 0..4] /\ \A y \in Nodes : held[c][y] = Update => h2[y] = Update
  <2>1. held' \in [Clients -> [Nodes -> 0..4]] /\ \A y \in Nodes : h2[y] >= held[c][y]
    BY <1>1, <1>2, <1>4, <1>9, LockEffect
  <2>2. h2 \in [Nodes -> 0..4]
    BY <2>1
  <2> QED BY <2>1, <2>2
<1> HIDE DEF h2
<1>11. Owned(h2, Below(t.e)) /\ Owned(h2, rows) /\ h2[t.e] = Update
  BY <1>1, <1>3, <1>6, <1>10 DEF Owned
<1>12. Fine(t2, h2)
  BY <1>1, <1>2, <1>3, <1>5, <1>6, <1>7, <1>11
     DEF Fine, Started, Creating, Working, Covering, Aiming, Grafting, Moves, Deleting, Restoring
<1> QED BY <1>1, <1>2, <1>3, <1>4, <1>7, <1>8, <1>9, <1>12, LocalLock DEF t, h2

\* A restore lists its batch, and takes the lock of the folder it goes to.
LEMMA RestoreStepHolds ==
    ASSUME Inductive, NEW c \in Clients, LockBatch(c) \/ RestoreTarget(c)
    PROVE  Inductive'
<1> DEFINE t == tx[c]
<1>1. /\ t \in Transactions /\ Fine(t, held[c]) /\ held \in [Clients -> [Nodes -> 0..4]] /\ Locks
      /\ Below(t.e) \subseteq Present /\ Present \subseteq Nodes /\ Types /\ Tree
      /\ closure \subseteq Links /\ held[c] \in [Nodes -> 0..4]
  BY Mine DEF Inductive, Types, TypeOK
<1>2. CASE LockBatch(c)
  <2> DEFINE rows == {x \in Below(t.e) : batch[x] = batch[t.e]}
             t2 == [t EXCEPT !.pc = "target", !.rows = rows, !.want = rows, !.mode = Update]
  <2>1. /\ t.op = "restore" /\ t.pc = "write"
        /\ tx' = [tx EXCEPT ![c] = t2] /\ UNCHANGED <<tree, held>>
    BY <1>2 DEF LockBatch, At
  <2> HIDE DEF t
  <2>2. /\ t.e \in Entries /\ state[t.e] = "deleted" /\ held[c][t.e] = Update
        /\ Owned(held[c], Below(t.e)) /\ t.graft = {}
    BY <1>1, <2>1 DEF Fine, Started, Working, Covering, Grafting
  <2>3. rows \in SUBSET Entries /\ rows \in SUBSET Nodes /\ rows \subseteq Present
    BY <1>1 DEF Below, Nodes
  <2> HIDE DEF rows
  <2>4. /\ t2.op = t.op /\ t2.pc = "target" /\ t2.e = t.e /\ t2.to = t.to
        /\ t2.want = rows /\ t2.rows = rows /\ t2.graft = t.graft
    BY <1>1 DEF Transactions
  <2>5. t2 \in Transactions
    <3>1. Update \in 0..4 /\ "target" \in Labels
      BY DEF Labels
    <3> HIDE DEF Update
    <3> QED BY <1>1, <2>3, <3>1 DEF Transactions
  <2> HIDE DEF t2
  <2>6. Fine(t2, held[c])
    BY <1>1, <2>1, <2>2, <2>3, <2>4
       DEF Fine, Started, Creating, Working, Covering, Aiming, Grafting, Moves, Deleting,
           Restoring, Labels, rows
  <2> QED BY <2>1, <2>2, <2>4, <2>5, <2>6, LocalQuiet DEF t
<1>3. CASE RestoreTarget(c)
  <2> DEFINE p == parent[t.e]
             kept == IsLive(p)
             to == IF kept THEN p ELSE Root
             cut == IF kept THEN {} ELSE closure \cap ((Above(t.e) \ {t.e}) \X Below(t.e))
             label == IF kept THEN "commit" ELSE "graft"
             mode == IF kept THEN Update ELSE Share
             t2 == [t EXCEPT !.to = to, !.pc = label, !.cut = cut]
             h2 == held'[c]
  <2>1. /\ t.op = "restore" /\ t.pc = "target" /\ t.want = {} /\ Lock(c, to, mode)
        /\ tx' = [tx EXCEPT ![c] = t2] /\ UNCHANGED tree
    BY <1>3 DEF RestoreTarget, At
  <2> HIDE DEF t
  <2>2. /\ t.e \in Entries /\ state[t.e] = "deleted" /\ held[c][t.e] = Update /\ Top(t.e)
        /\ Owned(held[c], Below(t.e)) /\ t.graft = {} /\ t.e \in Present /\ t.e \in Nodes
        /\ t.rows = {x \in Below(t.e) : batch[x] = batch[t.e]}
    BY <1>1, <2>1
       DEF Fine, Started, Working, Covering, Grafting, Restoring, Present, Nodes
  <2>3. p \in Present /\ p \in Nodes
    <3>1. t.e \in Present \ {Root}
      BY <2>2
    <3> QED BY <1>1, <3>1, TreeFacts
  <2>4. /\ IsLive(to) /\ to \in Present /\ to \in Nodes
        /\ kept => to = p /\ mode = Update
        /\ ~kept => to = Root /\ p # Root
        /\ mode \in 0..4
    BY <2>3 DEF IsLive, Present, Nodes
  <2>5. /\ cut \in SUBSET Links
        /\ kept => cut = {} /\ label = "commit"
        /\ ~kept => cut = (Above(t.e) \ {t.e}) \X Below(t.e) /\ label = "graft"
    BY <1>1, <2>2, Across
  <2>6. <<t.e, Root>> \notin closure
    BY <1>1, <2>2, TreeFacts
  <2>7. label \in Labels
    BY DEF Labels
  <2> HIDE DEF kept, to, cut, label, mode
  <2>8. /\ t2.op = t.op /\ t2.pc = label /\ t2.e = t.e /\ t2.to = to
        /\ t2.want = t.want /\ t2.rows = t.rows /\ t2.graft = t.graft /\ t2.cut = cut
    BY <1>1 DEF Transactions
  <2>9. t2 \in Transactions
    BY <1>1, <2>4, <2>5, <2>7 DEF Transactions
  <2> HIDE DEF t2
  <2>10. /\ h2 \in [Nodes -> 0..4] /\ \A y \in Nodes : held[c][y] = Update => h2[y] = Update
         /\ mode = Update => h2[to] = Update
    <3>1. /\ held' \in [Clients -> [Nodes -> 0..4]] /\ \A y \in Nodes : h2[y] >= held[c][y]
          /\ mode = Update => h2[to] = Update
      BY <1>1, <2>1, <2>4, LockEffect
    <3>2. h2 \in [Nodes -> 0..4]
      BY <3>1
    <3> QED BY <1>1, <3>1, <3>2
  <2> HIDE DEF h2
  <2>11. Owned(h2, Below(t.e)) /\ h2[t.e] = Update
    BY <1>1, <2>2, <2>10 DEF Owned
  <2>12. Fine(t2, h2)
    <3>1. Started(t2) /\ Creating(t2, h2) /\ Working(t2, h2) /\ Deleting(t2, h2)
      BY <1>1, <2>1, <2>2, <2>5, <2>8, <2>11 DEF Started, Creating, Working, Deleting, Labels
    <3>2. Covering(t2, h2) /\ Restoring(t2)
      BY <2>1, <2>2, <2>5, <2>8, <2>11 DEF Covering, Restoring
    <3>3. Aiming(t2, h2) /\ Grafting(t2, h2)
      BY <2>1, <2>2, <2>4, <2>5, <2>6, <2>8, <2>10 DEF Aiming, Grafting, Moves
    <3> QED BY <3>1, <3>2, <3>3 DEF Fine
  <2> QED BY <1>1, <2>1, <2>2, <2>4, <2>8, <2>9, <2>12, LocalLock DEF t, h2
<1> QED BY <1>2, <1>3

\* A transaction is rolled back.
LEMMA AbortHolds ==
    ASSUME Inductive, NEW c \in Clients, Abort(c)
    PROVE  Inductive'
<1> DEFINE none == [x \in Nodes |-> None]
<1>1. /\ tx' = [tx EXCEPT ![c] = Idle] /\ held' = [held EXCEPT ![c] = none] /\ UNCHANGED tree
      /\ held \in [Clients -> [Nodes -> 0..4]] /\ Locks
  BY DEF Abort, Inductive, Types, TypeOK
<1>2. none \in [Nodes -> 0..4] /\ \A x \in Nodes : none[x] = 0
  OBVIOUS
<1> HIDE DEF none
<1>3. /\ held' \in [Clients -> [Nodes -> 0..4]] /\ held'[c] = none
      /\ \A d \in Clients \ {c} : held'[d] = held[d]
  BY <1>1, <1>2
<1>4. \A d, b \in Clients, x \in Nodes : d # b => held'[d][x] + held'[b][x] < 5
  <2> SUFFICES ASSUME NEW d \in Clients, NEW b \in Clients, NEW x \in Nodes, d # b
               PROVE  held'[d][x] + held'[b][x] < 5
    OBVIOUS
  <2>1. held[d][x] + held[b][x] < 5 /\ held[d][x] \in 0..4 /\ held[b][x] \in 0..4
    BY <1>1 DEF Locks
  <2> QED BY <1>2, <1>3, <2>1
<1>5. \A d \in Clients, x \in Nodes : held'[d][x] # None => x \in Present
  BY <1>1, <1>2, <1>3 DEF Locks
<1>6. Fine(Idle, held'[c])
  BY IdleType
     DEF Fine, Started, Creating, Working, Covering, Aiming, Grafting, Moves, Deleting, Restoring
<1>7. Idle.op # "create" /\ Idle.e \notin Entries
  BY IdleType DEF Nodes
<1> QED BY <1>1, <1>3, <1>4, <1>5, <1>6, <1>7, IdleType, Local

-----------------------------------------------------------------------------
(* Commits. *)

\* What a commit is to a session that holds the locks h: rows it holds for update
\* stay as they are, with all above them, and nothing new comes to lie below them.
Calm(h) ==
    /\ Present \subseteq Present'
    /\ \A x \in Entries : h[x] = Update =>
         state'[x] = state[x] /\ parent'[x] = parent[x] /\ batch'[x] = batch[x]
    /\ \A x \in Nodes : h[x] = Update =>
         /\ Above(x)' = Above(x)
         /\ Below(x)' \subseteq Below(x)
         /\ \A y \in Below(x) : y \notin Below(x)' => h[y] # Update
    /\ \A y \in Entries : state'[y] = "live" /\ parent'[y] \in Entries /\ h[parent'[y]] = Update =>
         state[y] = "live" /\ parent[y] = parent'[y]
    /\ \A x \in Entries : batch'[x] \in {batch[x], 0, lastBatch + 1}

\* Then its transaction stays in order.
LEMMA CalmFine ==
    ASSUME Inductive, Tree', Types', NEW d \in Clients, UNCHANGED <<tx[d], held[d]>>, Calm(held[d]),
           tx[d].op = "create" => state'[tx[d].e] = "absent"
    PROVE  Fine(tx[d], held[d])'
<1> DEFINE t == tx[d]
           h == held[d]
<1>1. /\ t \in Transactions /\ Fine(t, h) /\ h \in [Nodes -> 0..4]
      /\ \A x \in Entries : (state[x] = "deleted" <=> batch[x] # 0) /\ batch[x] \in Nat
      /\ \A x \in Entries : batch[x] <= lastBatch
      /\ lastBatch \in Nat
  BY Mine DEF Inductive, Types, TypeOK, Batches
<1>2. tx'[d] = t /\ held'[d] = h
  OBVIOUS
<1>3. /\ Present \subseteq Present'
      /\ \A x \in Entries : h[x] = Update =>
           state'[x] = state[x] /\ parent'[x] = parent[x] /\ batch'[x] = batch[x]
      /\ \A x \in Nodes : h[x] = Update =>
           /\ Above(x)' = Above(x)
           /\ Below(x)' \subseteq Below(x)
           /\ \A y \in Below(x) : y \notin Below(x)' => h[y] # Update
      /\ \A y \in Entries : state'[y] = "live" /\ parent'[y] \in Entries /\ h[parent'[y]] = Update =>
           state[y] = "live" /\ parent[y] = parent'[y]
      /\ \A x \in Entries : batch'[x] \in {batch[x], 0, lastBatch + 1}
  BY DEF Calm
<1>4. Above(Root)' = Above(Root)
  <2>1. Root \in Present /\ Root \in Present'
    BY DEF Present
  <2>2. Above(Root) = {Root}
    BY <2>1, TreeFacts DEF Inductive, Above
  <2>3. /\ closure' \subseteq Present' \X Present' /\ <<Root, Root>> \in closure'
        /\ \A x \in Present' : <<Root, x>> \in closure'
        /\ \A x, y \in Present' : <<x, y>> \in closure' /\ <<y, x>> \in closure' => x = y
    BY <2>1 DEF Tree, IsTree
  <2>4. \A x \in Nodes : <<x, Root>> \in closure' <=> x = Root
    BY <2>1, <2>3 DEF Nodes
  <2> QED BY <2>2, <2>4 DEF Above, Nodes
<1>5. \A p \in Nodes : IsLive(p) /\ (h[p] = Update \/ p = Root) => IsLive(p)' /\ Above(p)' = Above(p)
  BY <1>3, <1>4 DEF IsLive
<1> HIDE DEF t, h
<1>6. Started(t)'
  BY <1>1, <1>2, <1>3 DEF Fine, Started, t
<1>7. Creating(t, h)'
  <2>1. CASE t.op # "create"
    BY <1>2, <2>1 DEF Creating, t
  <2>2. CASE t.op = "create"
    <3>1. /\ IsLive(t.to) /\ t.to \in Nodes /\ h[t.to] = Update
          /\ t.pc = "commit" =>
             /\ t.graft = (Above(t.to) \X {t.e}) \cup {<<t.e, t.e>>}
             /\ t.mode = KeyShare
             /\ Reached(t, h, Above(t.to))
      BY <1>1, <2>2 DEF Fine, Creating
    <3>2. IsLive(t.to)' /\ Above(t.to)' = Above(t.to)
      BY <1>2, <1>5, <3>1 DEF t
    <3> QED BY <1>2, <2>2, <3>1, <3>2 DEF Creating, Reached, t, h
  <2> QED BY <2>1, <2>2
<1>8. Working(t, h)'
  <2>1. CASE t.op = "restore"
    <3>1. /\ h[t.e] = Update /\ state[t.e] = "deleted" /\ Top(t.e) /\ t.e \in Entries
      BY <1>1, <2>1 DEF Fine, Started, Working
    <3>2. state'[t.e] = "deleted" /\ parent'[t.e] = parent[t.e] /\ batch'[t.e] = batch[t.e]
      BY <1>3, <3>1
    <3>3. parent[t.e] \in Entries => batch'[parent[t.e]] # batch[t.e]
      BY <1>1, <1>3, <3>1 DEF Top
    <3> QED BY <1>2, <2>1, <3>1, <3>2, <3>3 DEF Working, Top, t, h
  <2>2. CASE t.op # "restore"
    BY <1>1, <1>2, <1>3, <2>2 DEF Fine, Started, Working, t, h
  <2> QED BY <2>1, <2>2
<1>9. t.op \in {"move", "rename", "delete", "restore"} =>
        /\ t.e \in Entries /\ t.e \in Nodes /\ h[t.e] = Update
        /\ Above(t.e)' = Above(t.e) /\ Below(t.e)' \subseteq Below(t.e)
        /\ Owned(h, Below(t.e)) => Below(t.e)' = Below(t.e)
        /\ parent'[t.e] = parent[t.e] /\ batch'[t.e] = batch[t.e]
  <2> SUFFICES ASSUME t.op \in {"move", "rename", "delete", "restore"}
               PROVE  /\ t.e \in Entries /\ t.e \in Nodes /\ h[t.e] = Update
                      /\ Above(t.e)' = Above(t.e) /\ Below(t.e)' \subseteq Below(t.e)
                      /\ Owned(h, Below(t.e)) => Below(t.e)' = Below(t.e)
                      /\ parent'[t.e] = parent[t.e] /\ batch'[t.e] = batch[t.e]
    OBVIOUS
  <2>1. t.e \in Entries /\ t.e \in Nodes /\ h[t.e] = Update
    BY <1>1 DEF Fine, Started, Working, Nodes
  <2>2. t'.e = t.e
    BY <1>2 DEF t
  <2> QED BY SMTT(20), <1>3, <2>1, <2>2 DEF Owned
<1>10. Covering(t, h)'
  BY <1>1, <1>2, <1>9 DEF Fine, Covering, Owned, t, h
<1>11. Aiming(t, h)'
  BY <1>1, <1>2, <1>5, <1>9 DEF Fine, Aiming, t, h
<1>12. Grafting(t, h)'
  <2>1. CASE ~(t.op \in {"move", "restore"} /\ t.pc \in {"graft", "paths", "commit"})
    BY <1>1, <1>2, <2>1 DEF Fine, Grafting, Moves, t, h
  <2>2. CASE t.op \in {"move", "restore"} /\ t.pc \in {"graft", "paths", "commit"}
    <3>1. Owned(h, Below(t.e)) /\ t.to \in Nodes /\ IsLive(t.to)
          /\ (Moves(t) => h[t.to] = Update \/ t.to = Root) /\ Grafting(t, h)
      BY <1>1, <2>2 DEF Fine, Covering, Aiming, Moves
    <3>2. Moves(t)' = Moves(t) /\ Below(t.e)' = Below(t.e) /\ Above(t.e)' = Above(t.e)
      BY <1>2, <1>9, <2>2, <3>1 DEF Moves, t
    <3>3. Moves(t) => Above(t.to)' = Above(t.to)
      BY <1>2, <1>5, <3>1 DEF t
    <3>4. Moves(t) => <<t.e, t.to>> \notin closure'
      <4>1. Moves(t) => t.e \notin Above(t.to)
        BY <2>2, <3>1 DEF Grafting, Above
      <4>2. Moves(t) => t.e \notin Above(t.to)'
        BY <3>3, <4>1
      <4> QED BY <1>2, <1>9, <2>2, <4>2 DEF Above, t
    <3> QED BY <1>2, <2>2, <3>1, <3>2, <3>3, <3>4 DEF Grafting, Reached, t, h
  <2> QED BY <2>1, <2>2
<1>13. Deleting(t, h)'
  <2>1. CASE t.op # "delete"
    BY <1>2, <2>1 DEF Deleting, t
  <2>2. CASE t.op = "delete"
    <3>1. Deleting(t, h) /\ t.rows \subseteq Entries
      BY <1>1 DEF Fine, Transactions
    <3>2. t.pc = "commit" =>
            /\ \A x \in t.rows : state'[x] = "live" /\ (x # t.e => parent'[x] \in t.rows)
            /\ \A y \in Entries : state'[y] = "live" /\ parent'[y] \in t.rows => y \in t.rows
      BY <1>3, <2>2, <3>1 DEF Deleting, Owned
    <3>3. t.pc = "write" => Below(t.e)' \subseteq t.seen
      BY <1>9, <2>2, <3>1 DEF Deleting
    <3> QED BY <1>2, <2>2, <3>1, <3>2, <3>3 DEF Deleting, Owned, t, h
  <2> QED BY <2>1, <2>2
<1>14. Restoring(t)'
  <2>1. CASE ~(t.op = "restore" /\ t.pc \in {"target", "graft", "paths", "commit"})
    BY <1>2, <2>1 DEF Restoring, t
  <2>2. CASE t.op = "restore" /\ t.pc \in {"target", "graft", "paths", "commit"}
    <3>1. Owned(h, Below(t.e)) /\ t.rows = {x \in Below(t.e) : batch[x] = batch[t.e]}
      BY <1>1, <2>2 DEF Fine, Covering, Restoring
    <3>2. Below(t.e)' = Below(t.e) /\ \A x \in Below(t.e) : batch'[x] = batch[x]
      BY <1>3, <1>9, <2>2, <3>1 DEF Owned, Below
    <3> QED BY <1>2, <1>9, <2>2, <3>1, <3>2 DEF Restoring, t
  <2> QED BY <2>1, <2>2
<1> QED BY <1>2, <1>6, <1>7, <1>8, <1>10, <1>11, <1>12, <1>13, <1>14 DEF Fine, t, h

Paths == Seq(Entries \X (0..1))

\* Types of the tables.
Typed ==
    /\ state \in [Entries -> {"absent", "live", "deleted"}]
    /\ parent \in [Entries -> Nodes]
    /\ title \in [Entries -> 0..1]
    /\ path \in [Entries -> Paths]
    /\ batch \in [Entries -> 0..MaxBatches]
    /\ lastBatch \in 0..MaxBatches
    /\ \A e \in Entries : (state[e] = "deleted") <=> (batch[e] # 0)

\* A commit that keeps the tree and is calm to every other session keeps the invariant.
LEMMA CommitHolds ==
    ASSUME Inductive, NEW c \in Clients, Finish(c),
           Typed', Tree', NoLiveBelowDeleted', Batches', Present \subseteq Present',
           \A d \in Clients \ {c} : Calm(held[d]),
           \A d \in Clients \ {c} : tx[d].op = "create" => state'[tx[d].e] = "absent"
    PROVE  Inductive'
<1> DEFINE none == [x \in Nodes |-> None]
<1>1. /\ tx' = [tx EXCEPT ![c] = Idle] /\ held' = [held EXCEPT ![c] = none]
      /\ held \in [Clients -> [Nodes -> 0..4]] /\ Locks /\ tx \in [Clients -> Transactions]
  BY DEF Finish, Inductive, Types, TypeOK
<1>2. none \in [Nodes -> 0..4] /\ \A x \in Nodes : none[x] = 0
  OBVIOUS
<1> HIDE DEF none
<1>3. /\ held' \in [Clients -> [Nodes -> 0..4]] /\ held'[c] = none
      /\ \A d \in Clients \ {c} : held'[d] = held[d]
  BY <1>1, <1>2
<1>4. /\ tx' \in [Clients -> Transactions] /\ tx'[c] = Idle
      /\ \A d \in Clients \ {c} : tx'[d] = tx[d]
  BY <1>1, IdleType
<1>5. Types'
  <2>1. \A d \in Clients : tx'[d].want \subseteq Nodes /\ tx'[d].rows \subseteq Entries
    BY <1>4 DEF Transactions
  <2>2. closure' \subseteq Links
    BY DEF Tree, IsTree, Present, Links, Nodes
  <2> QED BY <1>3, <1>4, <2>1, <2>2 DEF Typed, Paths, Types, TypeOK
<1>6. Locks'
  <2>1. ASSUME NEW d \in Clients, NEW b \in Clients, NEW x \in Nodes, d # b
        PROVE  held'[d][x] + held'[b][x] < 5
    <3>1. held[d][x] + held[b][x] < 5 /\ held[d][x] \in 0..4 /\ held[b][x] \in 0..4
      BY <1>1, <2>1 DEF Locks
    <3> QED BY <1>2, <1>3, <2>1, <3>1
  <2>2. \A d \in Clients, x \in Nodes : held'[d][x] # None => x \in Present'
    BY <1>1, <1>2, <1>3 DEF Locks
  <2> QED BY <2>1, <2>2 DEF Locks
<1>7. Alone'
  <2>1. ASSUME NEW a \in Clients, NEW b \in Clients, a # b, tx'[a].op = "create"
        PROVE  tx'[b].e # tx'[a].e
    <3>1. a # c /\ tx'[a] = tx[a] /\ tx[a].e \in Entries
      BY <1>4, <2>1, IdleType DEF Inductive, Fine, Started
    <3>2. CASE b = c
      BY <1>4, <3>1, <3>2, IdleType DEF Nodes
    <3>3. CASE b # c
      BY <1>4, <2>1, <3>1, <3>3 DEF Inductive, Alone
    <3> QED BY <3>2, <3>3
  <2> QED BY <2>1 DEF Alone
<1>8. ASSUME NEW d \in Clients PROVE Fine(tx[d], held[d])'
  <2>1. CASE d = c
    BY <1>4, <2>1, IdleType
       DEF Fine, Started, Creating, Working, Covering, Aiming, Grafting, Moves, Deleting, Restoring
  <2>2. CASE d # c
    <3>1. UNCHANGED <<tx[d], held[d]>>
      BY <1>3, <1>4, <2>2
    <3> QED BY <1>5, <2>2, <3>1, CalmFine
  <2> QED BY <2>1, <2>2
<1> QED BY <1>5, <1>6, <1>7, <1>8 DEF Inductive

\* A row one session holds for update no other session holds at all.
LEMMA Exclusive ==
    ASSUME Inductive, NEW c \in Clients, NEW d \in Clients \ {c}, NEW x \in Nodes,
           held[d][x] = Update
    PROVE  x \in Present /\ ~(held[c][x] >= KeyShare)
<1>1. held[c][x] + held[d][x] < 5 /\ held[c][x] \in 0..4 /\ (held[d][x] # None => x \in Present)
  BY DEF Inductive, Types, TypeOK, Locks
<1> QED BY <1>1

\* A rename leaves the tree as it is.
LEMMA CommitRenameHolds ==
    ASSUME Inductive, NEW c \in Clients, CommitRename(c), Typed'
    PROVE  Inductive' /\ \A d \in Clients \ {c} : Calm(held[d])
<1>1. UNCHANGED <<state, parent, closure, batch, lastBatch>> /\ Finish(c)
  BY DEF CommitRename
<1>2. Present' = Present /\ Tree' /\ NoLiveBelowDeleted' /\ Batches'
  BY <1>1 DEF Inductive, Present, Tree, NoLiveBelowDeleted, IsLive, Batches, Top
<1>3. ASSUME NEW d \in Clients \ {c} PROVE Calm(held[d])
  BY <1>1, <1>2 DEF Calm, Above, Below
<1>4. \A d \in Clients \ {c} : tx[d].op = "create" => state'[tx[d].e] = "absent"
  BY <1>1 DEF Inductive, Fine, Creating
<1> QED BY <1>1, <1>2, <1>3, <1>4, CommitHolds

\* A deletion takes a part of the subtree that is closed under live contents.
LEMMA CommitDeleteHolds ==
    ASSUME Inductive, NEW c \in Clients, CommitDelete(c), Typed'
    PROVE  Inductive' /\ \A d \in Clients \ {c} : Calm(held[d])
<1> DEFINE t == tx[c]
           rows == {x \in t.rows : state[x] = "live"}
<1>1. /\ t.op = "delete" /\ Finish(c) /\ t.pc = "commit"
      /\ state' = [x \in Entries |-> IF x \in rows THEN "deleted" ELSE state[x]]
      /\ batch' = [x \in Entries |-> IF x \in rows THEN lastBatch + 1 ELSE batch[x]]
      /\ lastBatch' = lastBatch + 1
      /\ UNCHANGED <<parent, closure>>
  BY DEF CommitDelete, Finish
<1>2. /\ t \in Transactions /\ Fine(t, held[c]) /\ held[c] \in [Nodes -> 0..4]
      /\ parent \in [Entries -> Nodes] /\ batch \in [Entries -> 0..MaxBatches] /\ lastBatch \in Nat
      /\ \A x \in Entries : (state[x] = "deleted") <=> (batch[x] # 0)
      /\ \A x \in Entries : batch[x] <= lastBatch
  BY Mine DEF Inductive, Types, TypeOK, Batches
<1> HIDE DEF t
<1>3. /\ rows = t.rows /\ t.e \in rows /\ t.e \in Entries /\ rows \subseteq Entries /\ Owned(held[c], rows)
      /\ \A x \in rows : state[x] = "live" /\ (x # t.e => parent[x] \in rows)
      /\ \A y \in Entries : state[y] = "live" /\ parent[y] \in rows => y \in rows
  <2>1. Deleting(t, held[c]) /\ t.e \in Entries
    BY <1>1, <1>2 DEF Fine, Started
  <2>2. rows = t.rows
    BY <1>1, <2>1 DEF Deleting
  <2> HIDE DEF rows
  <2> QED BY <1>1, <1>2, <2>1, <2>2 DEF Deleting, Transactions
<1> HIDE DEF rows
<1>4. Present' = Present /\ Tree'
  <2>1. Present' = Present
    BY <1>1, <1>3 DEF Present
  <2> QED BY <1>1, <2>1 DEF Inductive, Tree
<1>5. NoLiveBelowDeleted'
  <2> SUFFICES ASSUME NEW y \in Entries, state'[y] = "live" PROVE IsLive(parent[y])'
    BY DEF NoLiveBelowDeleted
  <2>1. state[y] = "live" /\ y \notin rows
    BY <1>1
  <2>2. IsLive(parent[y]) /\ parent[y] \notin rows
    BY <1>3, <2>1 DEF Inductive, NoLiveBelowDeleted
  <2> QED BY <1>1, <2>2 DEF IsLive
<1>6. Batches'
  <2>1. \A x \in Entries : batch'[x] <= lastBatch'
    BY <1>1, <1>2
  <2>2. ASSUME NEW x \in Entries, NEW y \in Entries, state'[x] = "deleted", batch'[x] = batch'[y],
               Top(x)', Top(y)'
        PROVE  x = y
    <3>1. CASE x \in rows
      <4>1. y \in rows
        <5>1. batch'[y] = lastBatch + 1 /\ batch[y] <= lastBatch /\ batch[y] \in Nat
          BY <1>1, <1>2, <2>2, <3>1
        <5> QED BY <1>1, <1>2, <5>1
      <4>2. \A z \in rows : Top(z)' => z = t.e
        BY <1>1, <1>3 DEF Top
      <4> QED BY <2>2, <3>1, <4>1, <4>2
    <3>2. CASE x \notin rows
      <4>1. state[x] = "deleted" /\ batch'[x] = batch[x] /\ batch[x] # 0 /\ batch[x] <= lastBatch
            /\ batch[x] \in Nat
        BY <1>1, <1>2, <2>2, <3>2
      <4>2. y \notin rows
        BY <1>1, <1>2, <2>2, <4>1
      <4>3. batch[y] = batch[x]
        BY <1>1, <2>2, <4>1, <4>2
      <4>4. \A z \in rows : batch[z] = 0
        BY <1>2, <1>3
      <4>5. Top(x) /\ Top(y)
        BY <1>1, <2>2, <4>1, <4>3, <4>4, <3>2, <4>2 DEF Top
      <4> QED BY <4>1, <4>3, <4>5 DEF Inductive, Batches
    <3> QED BY <3>1, <3>2
  <2> QED BY <2>1, <2>2 DEF Batches
<1>7. ASSUME NEW d \in Clients \ {c} PROVE Calm(held[d])
  <2>1. \A x \in Entries : held[d][x] = Update => x \notin rows
    <3> SUFFICES ASSUME NEW x \in Entries, held[d][x] = Update, x \in rows PROVE FALSE
      OBVIOUS
    <3>1. held[c][x] >= KeyShare /\ x \in Nodes
      BY <1>3 DEF Owned, Nodes
    <3> QED BY <3>1, Exclusive
  <2>2. \A x : Above(x)' = Above(x) /\ Below(x)' = Below(x)
    BY <1>1 DEF Above, Below
  <2> QED BY <1>1, <1>4, <2>1, <2>2 DEF Calm
<1>8. \A d \in Clients \ {c} : tx[d].op = "create" => state'[tx[d].e] = "absent"
  <2> SUFFICES ASSUME NEW d \in Clients \ {c}, tx[d].op = "create" PROVE state'[tx[d].e] = "absent"
    OBVIOUS
  <2>1. tx[d].e \in Entries /\ state[tx[d].e] = "absent"
    BY DEF Inductive, Fine, Started, Creating
  <2> QED BY <1>1, <1>3, <2>1
<1> QED BY <1>1, <1>4, <1>5, <1>6, <1>7, <1>8, CommitHolds

\* A creation adds a leaf below a folder its session holds for update, with
\* links from rows that nobody else holds for update.
LEMMA CommitCreateHolds ==
    ASSUME Inductive, NEW c \in Clients, CommitCreate(c), Typed'
    PROVE  Inductive' /\ \A d \in Clients \ {c} : Calm(held[d])
<1> DEFINE t == tx[c]
<1>1. /\ t.op = "create" /\ Finish(c) /\ t.pc = "commit" /\ t.want = {}
      /\ state' = [state EXCEPT ![t.e] = "live"]
      /\ parent' = [parent EXCEPT ![t.e] = t.to]
      /\ closure' = closure \cup t.graft
      /\ UNCHANGED <<batch, lastBatch>>
  BY DEF CommitCreate, Finish
<1>2. /\ t \in Transactions /\ Fine(t, held[c]) /\ held[c] \in [Nodes -> 0..4] /\ Types /\ Tree
      /\ parent \in [Entries -> Nodes] /\ state \in [Entries -> {"absent", "live", "deleted"}]
      /\ \A x \in Entries : (state[x] = "deleted") <=> (batch[x] # 0)
      /\ Present \subseteq Nodes /\ closure \subseteq Present \X Present
  BY Mine DEF Inductive, Types, TypeOK, Tree, IsTree
<1>3. \A d \in Clients \ {c} : tx[d].e # t.e
  BY <1>1 DEF Inductive, Alone
<1> HIDE DEF t
<1>4. /\ t.e \in Entries /\ state[t.e] = "absent" /\ t.e \notin Present /\ t.e # Root
      /\ IsLive(t.to) /\ t.to \in Nodes /\ held[c][t.to] = Update /\ t.to \in Present
      /\ t.graft = (Above(t.to) \X {t.e}) \cup {<<t.e, t.e>>}
      /\ \A a \in Above(t.to) : held[c][a] >= KeyShare
  BY <1>1, <1>2 DEF Fine, Started, Creating, Reached, Present, IsLive
<1>5. /\ state'[t.e] = "live" /\ \A x \in Entries \ {t.e} : state'[x] = state[x]
      /\ parent'[t.e] = t.to /\ \A x \in Entries \ {t.e} : parent'[x] = parent[x]
  BY <1>1, <1>2, <1>4
<1>6. Present' = Present \cup {t.e}
  BY <1>4, <1>5 DEF Present
<1>7. /\ \A a, b \in Present : <<a, b>> \in closure' <=> <<a, b>> \in closure
      /\ \A a \in Present : <<a, t.e>> \in closure' <=> <<a, t.to>> \in closure
      /\ \A b \in Present : <<t.e, b>> \notin closure'
      /\ <<t.e, t.e>> \in closure'
      /\ closure' \subseteq (Present \cup {t.e}) \X (Present \cup {t.e})
  BY <1>1, <1>2, <1>4 DEF Above
<1>8. Tree'
  <2>1. IsTree(Present \cup {t.e}, parent', closure')
    <3>1. Root \in Present /\ IsTree(Present, parent, closure)
      BY <1>2 DEF Present, Tree
    <3>2. \A x \in Present : parent'[x] = parent[x]
      <4>1. parent' = [parent EXCEPT ![t.e] = t.to]
        BY <1>1
      <4> QED BY <1>2, <1>4, <4>1
    <3> QED BY <1>4, <1>5, <1>7, <3>1, <3>2, Grown
  <2> QED BY <1>6, <2>1 DEF Tree
<1>9. NoLiveBelowDeleted'
  <2> SUFFICES ASSUME NEW y \in Entries, state'[y] = "live" PROVE IsLive(parent[y])'
    BY DEF NoLiveBelowDeleted
  <2>1. IsLive(parent'[y])
    BY <1>4, <1>5 DEF Inductive, NoLiveBelowDeleted
  <2> QED BY <1>5, <2>1 DEF IsLive
<1>10. Batches'
  <2>1. \A x \in Entries : batch[x] <= lastBatch
    BY DEF Inductive, Batches
  <2>2. ASSUME NEW x \in Entries, NEW y \in Entries, state'[x] = "deleted", batch[x] = batch[y],
               Top(x)', Top(y)'
        PROVE  x = y
    <3>1. x # t.e /\ y # t.e /\ state[x] = "deleted"
      BY <1>2, <1>4, <1>5, <2>2
    <3>2. Top(x) /\ Top(y)
      BY <1>1, <1>5, <2>2, <3>1 DEF Top
    <3> QED BY <2>2, <3>1, <3>2 DEF Inductive, Batches
  <2> QED BY <1>1, <2>1, <2>2 DEF Batches
<1>11. ASSUME NEW d \in Clients \ {c} PROVE Calm(held[d])
  <2>1. ASSUME NEW x \in Nodes, held[d][x] = Update
        PROVE  x \in Present /\ x # t.e /\ x # t.to /\ x \notin Above(t.to)
    <3>1. x \in Present /\ ~(held[c][x] >= KeyShare)
      BY <2>1, Exclusive
    <3> QED BY <1>4, <3>1
  <2>2. ASSUME NEW x \in Nodes, held[d][x] = Update
        PROVE  Above(x)' = Above(x) /\ Below(x)' = Below(x)
    <3>1. \A a : <<a, x>> \in closure' <=> <<a, x>> \in closure
      BY <1>1, <1>4, <2>1, <2>2
    <3>2. \A b : <<x, b>> \in closure' <=> <<x, b>> \in closure
      BY <1>1, <1>4, <2>1, <2>2
    <3> QED BY <3>1, <3>2 DEF Above, Below
  <2>3. Entries \subseteq Nodes
    BY DEF Nodes
  <2> QED BY <1>1, <1>4, <1>5, <1>6, <2>1, <2>2, <2>3 DEF Calm
<1>12. \A d \in Clients \ {c} : tx[d].op = "create" => state'[tx[d].e] = "absent"
  <2> SUFFICES ASSUME NEW d \in Clients \ {c}, tx[d].op = "create" PROVE state'[tx[d].e] = "absent"
    OBVIOUS
  <2>1. tx[d].e \in Entries /\ state[tx[d].e] = "absent"
    BY DEF Inductive, Fine, Started, Creating
  <2> QED BY <1>3, <1>5, <2>1
<1> QED BY <1>1, <1>6, <1>8, <1>9, <1>10, <1>11, <1>12, CommitHolds

\* The subtree of an entry is linked to a folder outside it.  Every row a link
\* names is locked, so other sessions' rows see nothing new above or below them.
LEMMA Regrafted ==
    ASSUME Inductive, NEW c \in Clients, Moves(tx[c]), tx[c].op \in {"move", "restore"},
           tx[c].pc = "commit", Present' = Present,
           parent' = [parent EXCEPT ![tx[c].e] = tx[c].to],
           closure' = (closure \ tx[c].cut) \cup tx[c].graft
    PROVE  /\ Tree'
           /\ \A d \in Clients \ {c}, x \in Nodes : held[d][x] = Update =>
                /\ Above(x)' = Above(x)
                /\ Below(x)' \subseteq Below(x)
                /\ \A y \in Below(x) : y \notin Below(x)' => held[d][y] # Update
<1> DEFINE t == tx[c]
           e == t.e
           to == t.to
<1>1. /\ t \in Transactions /\ Fine(t, held[c]) /\ held[c] \in [Nodes -> 0..4] /\ Types /\ Tree
      /\ parent \in [Entries -> Nodes] /\ Present \subseteq Nodes
      /\ closure \subseteq Present \X Present
  BY Mine DEF Inductive, Types, TypeOK, Tree, IsTree
<1>2. /\ Moves(t) /\ t.op \in {"move", "restore"} /\ t.pc = "commit"
      /\ parent' = [parent EXCEPT ![e] = to] /\ closure' = (closure \ t.cut) \cup t.graft
  OBVIOUS
<1> HIDE DEF t
<1>3. /\ e \in Entries /\ e \in Present /\ e # Root /\ to \in Present
      /\ <<e, to>> \notin closure
      /\ t.cut = (Above(e) \ {e}) \X Below(e) /\ t.graft = Above(to) \X Below(e)
      /\ \A x \in Above(to) \cup Below(e) : held[c][x] >= KeyShare
  BY <1>1, <1>2 DEF Fine, Started, Working, Aiming, Grafting, Present, IsLive
<1> HIDE DEF e, to
<1>4. \A a, b : <<a, b>> \in closure' <=>
        \/ <<a, b>> \in closure /\ ~(a \in Above(e) /\ a # e /\ b \in Below(e))
        \/ a \in Above(to) /\ b \in Below(e)
  BY <1>2, <1>3 DEF e, to
<1>5. /\ \A a \in Present : a \in Above(e) <=> <<a, e>> \in closure
      /\ \A a \in Present : a \in Above(to) <=> <<a, to>> \in closure
      /\ Above(to) \subseteq Present /\ Below(e) \subseteq Present
  BY <1>1 DEF Above, Below
<1>6. \A b \in Present : b \in Below(e) <=> <<e, b>> \in closure
  <2>1. ASSUME NEW b \in Present, <<e, b>> \in closure PROVE b \in Below(e)
    <3>1. b # Root
      BY <1>1, <1>3, <2>1, TreeFacts
    <3> QED BY <2>1, <3>1 DEF Below, Present
  <2> QED BY <2>1 DEF Below
<1>7. Tree'
  <2>1. Root \in Present /\ IsTree(Present, parent, closure)
    BY <1>1 DEF Present, Tree
  <2>2. closure' \subseteq Present \X Present
    BY <1>1, <1>2, <1>3, <1>5 DEF e, to
  <2>3. parent'[e] = to /\ \A x \in Present \ {e} : parent'[x] = parent[x]
    BY <1>1, <1>2, <1>3
  <2>4. \A a, b \in Present : <<e, b>> \notin closure => (<<a, b>> \in closure' <=> <<a, b>> \in closure)
    BY <1>4, <1>5, <1>6
  <2>5. \A a, b \in Present : <<e, b>> \in closure =>
          (<<a, b>> \in closure' <=>
             \/ <<a, to>> \in closure
             \/ <<a, b>> \in closure /\ (a = e \/ <<a, e>> \notin closure))
    BY <1>4, <1>5, <1>6
  <2>6. e \in Present \ {Root} /\ to \in Present /\ <<e, to>> \notin closure
    BY <1>3
  <2>7. IsGraft(Present, parent, closure, e, to, parent', closure')
    BY <2>1, <2>2, <2>3, <2>4, <2>5, <2>6 DEF IsGraft
  <2>8. IsTree(Present, parent', closure')
    BY <2>1, <2>7, Grafted
  <2> QED BY <2>8 DEF Tree
<1>8. ASSUME NEW d \in Clients \ {c}, NEW x \in Nodes, held[d][x] = Update
      PROVE  /\ Above(x)' = Above(x)
             /\ Below(x)' \subseteq Below(x)
             /\ \A y \in Below(x) : y \notin Below(x)' => held[d][y] # Update
  <2>1. x \notin Below(e) /\ x \notin Above(to)
    BY <1>3, <1>8, Exclusive
  <2>2. \A a : <<a, x>> \in closure' <=> <<a, x>> \in closure
    BY <1>4, <2>1
  <2>3. \A b : <<x, b>> \in closure' => <<x, b>> \in closure
    BY <1>4, <2>1
  <2>4. \A b : <<x, b>> \in closure /\ b \notin Below(e) => <<x, b>> \in closure'
    BY <1>4
  <2>5. \A y \in Below(e) : held[d][y] # Update
    <3> SUFFICES ASSUME NEW y \in Below(e), held[d][y] = Update PROVE FALSE
      OBVIOUS
    <3>1. y \in Nodes /\ held[c][y] >= KeyShare
      BY <1>1, <1>3, <1>5
    <3> QED BY <3>1, Exclusive
  <2>6. Above(x)' = Above(x) /\ Below(x)' \subseteq Below(x)
    BY <2>2, <2>3 DEF Above, Below
  <2>7. \A y \in Below(x) : y \notin Below(x)' => y \in Below(e)
    BY <2>4 DEF Below
  <2> QED BY <2>5, <2>6, <2>7
<1> QED BY <1>7, <1>8

\* A move keeps the tree.
LEMMA CommitMoveHolds ==
    ASSUME Inductive, NEW c \in Clients, CommitMove(c), Typed'
    PROVE  Inductive' /\ \A d \in Clients \ {c} : Calm(held[d])
<1> DEFINE t == tx[c]
<1>1. /\ t.op = "move" /\ Finish(c) /\ t.pc = "commit" /\ Moves(t)
      /\ parent' = [parent EXCEPT ![t.e] = t.to]
      /\ closure' = (closure \ t.cut) \cup t.graft
      /\ UNCHANGED <<state, batch, lastBatch>>
  BY DEF CommitMove, Finish, Moves
<1>2. /\ t \in Transactions /\ Fine(t, held[c]) /\ held[c] \in [Nodes -> 0..4] /\ Types
      /\ parent \in [Entries -> Nodes]
      /\ \A x \in Entries : (state[x] = "deleted") <=> (batch[x] # 0)
  BY Mine DEF Inductive, Types, TypeOK
<1>3. Present' = Present
  BY <1>1 DEF Present
<1>4. /\ Tree'
      /\ \A d \in Clients \ {c}, x \in Nodes : held[d][x] = Update =>
           /\ Above(x)' = Above(x)
           /\ Below(x)' \subseteq Below(x)
           /\ \A y \in Below(x) : y \notin Below(x)' => held[d][y] # Update
  BY <1>1, <1>3, Regrafted
<1> HIDE DEF t
<1>5. /\ t.e \in Entries /\ t.e \in Nodes /\ state[t.e] = "live" /\ held[c][t.e] = Update
      /\ t.to \in Nodes /\ IsLive(t.to) /\ held[c][t.to] = Update
  BY <1>1, <1>2 DEF Fine, Started, Working, Aiming, Nodes
<1>6. parent'[t.e] = t.to /\ \A x \in Entries \ {t.e} : parent'[x] = parent[x]
  BY <1>1, <1>2, <1>5
<1>7. NoLiveBelowDeleted'
  <2> SUFFICES ASSUME NEW y \in Entries, state'[y] = "live" PROVE IsLive(parent[y])'
    BY DEF NoLiveBelowDeleted
  <2>1. IsLive(parent'[y])
    BY <1>1, <1>5, <1>6 DEF Inductive, NoLiveBelowDeleted
  <2> QED BY <1>1, <2>1 DEF IsLive
<1>8. Batches'
  <2>1. \A x \in Entries : batch[x] <= lastBatch
    BY DEF Inductive, Batches
  <2>2. ASSUME NEW x \in Entries, NEW y \in Entries, state[x] = "deleted", batch[x] = batch[y],
               Top(x)', Top(y)'
        PROVE  x = y
    <3>1. x # t.e /\ y # t.e
      BY <1>2, <1>5, <2>2
    <3>2. Top(x) /\ Top(y)
      BY <1>1, <1>6, <2>2, <3>1 DEF Top
    <3> QED BY <2>2, <3>2 DEF Inductive, Batches
  <2> QED BY <1>1, <2>1, <2>2 DEF Batches
<1>9. ASSUME NEW d \in Clients \ {c} PROVE Calm(held[d])
  <2>1. held[d][t.e] # Update /\ held[d][t.to] # Update
    BY <1>5, Exclusive
  <2> QED BY <1>1, <1>3, <1>4, <1>6, <2>1 DEF Calm
<1>10. \A d \in Clients \ {c} : tx[d].op = "create" => state'[tx[d].e] = "absent"
  BY <1>1 DEF Inductive, Fine, Creating
<1> QED BY <1>1, <1>3, <1>4, <1>7, <1>8, <1>9, <1>10, CommitHolds

\* A restore brings back the whole batch, which hangs together below its top,
\* to a folder that is live.
LEMMA CommitRestoreHolds ==
    ASSUME Inductive, NEW c \in Clients, CommitRestore(c), Typed'
    PROVE  Inductive' /\ \A d \in Clients \ {c} : Calm(held[d])
<1> DEFINE t == tx[c]
<1>1. /\ t.op = "restore" /\ Finish(c) /\ t.pc = "commit"
      /\ state' = [x \in Entries |-> IF x \in t.rows THEN "live" ELSE state[x]]
      /\ batch' = [x \in Entries |-> IF x \in t.rows THEN 0 ELSE batch[x]]
      /\ parent' = [parent EXCEPT ![t.e] = t.to]
      /\ closure' = (closure \ t.cut) \cup t.graft
      /\ UNCHANGED lastBatch
  BY DEF CommitRestore, Finish
<1>2. /\ t \in Transactions /\ Fine(t, held[c]) /\ held[c] \in [Nodes -> 0..4] /\ Types /\ Tree
      /\ parent \in [Entries -> Nodes]
      /\ \A x \in Entries : (state[x] = "deleted") <=> (batch[x] # 0)
      /\ lastBatch \in Nat /\ \A x \in Entries : batch[x] \in Nat /\ batch[x] <= lastBatch
  BY Mine DEF Inductive, Types, TypeOK, Batches
<1> HIDE DEF t
<1>3. /\ t.e \in Entries /\ t.e \in Nodes /\ t.e \in Present /\ state[t.e] = "deleted"
      /\ Top(t.e) /\ held[c][t.e] = Update /\ Owned(held[c], Below(t.e))
      /\ t.to \in Nodes /\ IsLive(t.to) /\ (t.to # Root => held[c][t.to] = Update)
      /\ t.rows = {x \in Below(t.e) : batch[x] = batch[t.e]}
      /\ ~Moves(t) => t.cut = {} /\ t.graft = {}
  BY <1>1, <1>2 DEF Fine, Started, Working, Covering, Aiming, Grafting, Restoring, Present, Nodes
<1>4. parent'[t.e] = t.to /\ \A x \in Entries \ {t.e} : parent'[x] = parent[x]
  BY <1>1, <1>2, <1>3
<1>5. /\ t.e \in t.rows /\ t.rows \subseteq Entries /\ Owned(held[c], t.rows)
      /\ \A x \in t.rows : state[x] = "deleted"
      /\ \A x \in t.rows \ {t.e} : parent[x] \in t.rows
      /\ \A y \in Entries : batch[y] = batch[t.e] /\ parent[y] \in t.rows => y \in t.rows
  <2>1. /\ t.e \in Below(t.e)
        /\ \A x \in Below(t.e) \ {t.e} : parent[x] \in Below(t.e)
        /\ \A y \in Entries : y \in Present /\ parent[y] \in Below(t.e) => y \in Below(t.e)
    BY <1>2, <1>3, SubtreeClosed
  <2>2. \A x \in t.rows : x \in Entries /\ state[x] = "deleted"
    BY <1>2, <1>3 DEF Below
  <2>3. ASSUME NEW x \in t.rows, x # t.e PROVE parent[x] \in t.rows
    <3>1. ~Top(x)
      BY <1>3, <2>2, <2>3 DEF Inductive, Batches
    <3>2. batch[parent[x]] = batch[t.e]
      BY <1>3, <3>1 DEF Top
    <3> QED BY <1>3, <2>1, <2>3, <3>2
  <2>4. ASSUME NEW y \in Entries, batch[y] = batch[t.e], parent[y] \in t.rows PROVE y \in t.rows
    <3>1. y \in Present
      BY <1>2, <1>3, <2>4 DEF Present
    <3> QED BY <1>3, <2>1, <2>4, <3>1
  <2> QED BY <1>3, <2>1, <2>2, <2>3, <2>4 DEF Owned
<1>6. Present' = Present
  BY <1>1, <1>5 DEF Present
<1>7. /\ Tree'
      /\ \A d \in Clients \ {c}, x \in Nodes : held[d][x] = Update =>
           /\ Above(x)' = Above(x)
           /\ Below(x)' \subseteq Below(x)
           /\ \A y \in Below(x) : y \notin Below(x)' => held[d][y] # Update
  <2>1. CASE Moves(t)
    BY <1>1, <1>6, <2>1, Regrafted DEF t
  <2>2. CASE ~Moves(t)
    <3>1. closure' = closure /\ parent' = parent
      BY <1>1, <1>2, <1>3, <2>2 DEF Moves
    <3>2. \A x : Above(x)' = Above(x) /\ Below(x)' = Below(x)
      BY <3>1 DEF Above, Below
    <3> QED BY <1>2, <1>6, <3>1, <3>2 DEF Tree
  <2> QED BY <2>1, <2>2
<1>8. NoLiveBelowDeleted'
  <2> SUFFICES ASSUME NEW y \in Entries, state'[y] = "live" PROVE IsLive(parent[y])'
    BY DEF NoLiveBelowDeleted
  <2>1. IsLive(parent'[y]) \/ parent'[y] \in t.rows
    <3>1. CASE y = t.e
      BY <1>3, <1>4, <3>1
    <3>2. CASE y \in t.rows /\ y # t.e
      BY <1>4, <1>5, <3>2
    <3>3. CASE y \notin t.rows
      BY <1>1, <1>4, <1>5, <3>3 DEF Inductive, NoLiveBelowDeleted
    <3> QED BY <3>1, <3>2, <3>3
  <2> QED BY <1>1, <1>5, <2>1 DEF IsLive
<1>9. Batches'
  <2>1. \A x \in Entries : batch'[x] <= lastBatch'
    BY <1>1, <1>2
  <2>2. ASSUME NEW x \in Entries, state'[x] = "deleted", Top(x)'
        PROVE  x \notin t.rows /\ state[x] = "deleted" /\ batch'[x] = batch[x] /\ Top(x)
    <3>1. x \notin t.rows /\ state[x] = "deleted" /\ batch'[x] = batch[x] /\ x # t.e
      BY <1>1, <1>5, <2>2
    <3>2. parent'[x] = parent[x]
      BY <1>4, <3>1
    <3>3. ASSUME parent[x] \in t.rows PROVE batch[parent[x]] # batch[x]
      BY <1>3, <1>5, <3>1, <3>3
    <3>4. ASSUME parent[x] \in Entries, parent[x] \notin t.rows PROVE batch[parent[x]] # batch[x]
      BY <1>1, <2>2, <3>1, <3>2, <3>4 DEF Top
    <3> QED BY <3>1, <3>3, <3>4 DEF Top
  <2>3. ASSUME NEW x \in Entries, NEW y \in Entries, state'[x] = "deleted", batch'[x] = batch'[y],
               Top(x)', Top(y)'
        PROVE  x = y
    <3>1. x \notin t.rows /\ state[x] = "deleted" /\ batch'[x] = batch[x] /\ Top(x)
      BY <2>2, <2>3
    <3>2. y \notin t.rows
      BY <1>1, <1>2, <2>3, <3>1
    <3>3. state'[y] = "deleted"
      BY <1>1, <1>2, <2>3, <3>1, <3>2
    <3>4. batch'[y] = batch[y] /\ Top(y)
      BY <2>2, <2>3, <3>3
    <3> QED BY <2>3, <3>1, <3>4 DEF Inductive, Batches
  <2> QED BY <2>1, <2>3 DEF Batches
<1>10. ASSUME NEW d \in Clients \ {c} PROVE Calm(held[d])
  <2>1. \A x \in Entries : held[d][x] = Update => x \notin t.rows /\ x # t.to
    <3> SUFFICES ASSUME NEW x \in Entries, held[d][x] = Update PROVE x \notin t.rows /\ x # t.to
      OBVIOUS
    <3>1. ~(held[c][x] >= KeyShare) /\ x \in Nodes /\ x # Root
      BY Exclusive DEF Nodes
    <3> QED BY <1>3, <1>5, <3>1 DEF Owned
  <2>2. \A x \in Entries : batch'[x] \in {batch[x], 0, lastBatch + 1}
    BY <1>1
  <2>3. \A x \in Entries : held[d][x] = Update =>
          state'[x] = state[x] /\ parent'[x] = parent[x] /\ batch'[x] = batch[x]
    BY <1>1, <1>4, <1>5, <2>1
  <2>4. \A y \in Entries : state'[y] = "live" /\ parent'[y] \in Entries /\ held[d][parent'[y]] = Update =>
          state[y] = "live" /\ parent[y] = parent'[y]
    BY <1>1, <1>4, <1>5, <2>1
  <2> QED BY <1>6, <1>7, <2>2, <2>3, <2>4 DEF Calm
<1>11. \A d \in Clients \ {c} : tx[d].op = "create" => state'[tx[d].e] = "absent"
  <2> SUFFICES ASSUME NEW d \in Clients \ {c}, tx[d].op = "create" PROVE state'[tx[d].e] = "absent"
    OBVIOUS
  <2>1. tx[d].e \in Entries /\ state[tx[d].e] = "absent"
    BY DEF Inductive, Fine, Started, Creating
  <2> QED BY <1>1, <1>5, <2>1
<1> QED BY <1>1, <1>6, <1>7, <1>8, <1>9, <1>10, <1>11, CommitHolds

-----------------------------------------------------------------------------
(* Paths. *)

\* A path whose prefix is replaced is a path.
LEMMA Spliced ==
    ASSUME NEW new \in Paths, NEW old \in Paths, NEW n \in Nat
    PROVE  new \o Suffix(old, n) \in Paths
<1> DEFINE rest == Suffix(old, n)
<1>1. rest \in Paths
  <2>1. Len(old) \in Nat /\ \A i \in n + 1..Len(old) : old[i] \in Entries \X (0..1)
    BY DEF Paths
  <2> QED BY <2>1, SubSeqProperties DEF Suffix, Paths
<1> HIDE DEF rest
<1> QED BY <1>1, ConcatProperties DEF Paths, rest

\* The trigger writes paths.
LEMMA RelocatedTyped ==
    ASSUME Types, NEW e \in Entries, NEW p \in Nodes, NEW n \in 0..1, NEW rows
    PROVE  Relocated(e, rows, Append(PathOf(p), <<e, n>>)) \in [Entries -> Paths]
<1> DEFINE new == Append(PathOf(p), <<e, n>>)
<1>1. \A x \in Entries : path[x] \in Paths
  BY DEF Types, TypeOK, Paths
<1>2. PathOf(p) \in Paths
  BY <1>1 DEF PathOf, Nodes, Paths
<1>3. new \in Paths
  BY <1>2 DEF Paths
<1> HIDE DEF new
<1>4. \A x \in Entries : new \o Suffix(path[x], Len(path[e])) \in Paths
  <2>1. Len(path[e]) \in Nat
    BY <1>1 DEF Paths
  <2> QED BY <1>1, <1>3, <2>1, Spliced
<1> HIDE DEF Paths
<1>5. Relocated(e, rows, new) \in [Entries -> Paths]
  BY <1>1, <1>3, <1>4 DEF Relocated
<1> QED BY <1>5 DEF new

\* Commits keep the types of the tables.
LEMMA TypedHolds ==
    ASSUME Inductive, NEW c \in Clients, Commit(c)
    PROVE  Typed'
<1> DEFINE t == tx[c]
<1>1. /\ t \in Transactions /\ Fine(t, held[c]) /\ Typed /\ Types
      /\ path \in [Entries -> Paths]
  BY Mine DEF Inductive, Types, TypeOK, Typed, Paths
<1>2. ASSUME t.op # "none" PROVE t.e \in Entries
  BY <1>1, <1>2 DEF Fine, Started
<1>3. CASE CommitCreate(c)
  <2>1. /\ t.op = "create" /\ t.pc = "commit"
        /\ state' = [state EXCEPT ![t.e] = "live"]
        /\ parent' = [parent EXCEPT ![t.e] = t.to]
        /\ title' = [title EXCEPT ![t.e] = 0]
        /\ path' = [path EXCEPT ![t.e] = Append(PathOf(t.to), <<t.e, 0>>)]
        /\ UNCHANGED <<batch, lastBatch>>
    BY <1>3 DEF CommitCreate, Finish
  <2> HIDE DEF t
  <2>2. t.e \in Entries /\ t.to \in Nodes /\ state[t.e] = "absent"
    BY <1>1, <1>2, <2>1 DEF Fine, Creating
  <2>3. path' \in [Entries -> Paths]
    <3>1. PathOf(t.to) \in Paths
      BY <1>1, <2>2 DEF PathOf, Nodes, Paths
    <3>2. Append(PathOf(t.to), <<t.e, 0>>) \in Paths
      BY <2>2, <3>1 DEF Paths
    <3> HIDE DEF Paths
    <3> QED BY <1>1, <2>1, <2>2, <3>2
  <2>4. \A x \in Entries : (state'[x] = "deleted") <=> (batch'[x] # 0)
    BY <1>1, <2>1, <2>2 DEF Typed
  <2>5. state' \in [Entries -> {"absent", "live", "deleted"}] /\ parent' \in [Entries -> Nodes]
        /\ title' \in [Entries -> 0..1]
    BY <1>1, <2>1, <2>2 DEF Typed
  <2> QED BY <1>1, <2>1, <2>3, <2>4, <2>5 DEF Typed
<1>4. CASE CommitMove(c) \/ CommitRename(c)
  <2>1. ASSUME CommitMove(c) PROVE Typed'
    <3>1. /\ t.op = "move"
          /\ parent' = [parent EXCEPT ![t.e] = t.to]
          /\ path' = Relocated(t.e, t.below, Append(PathOf(t.to), <<t.e, title[t.e]>>))
          /\ UNCHANGED <<state, title, batch, lastBatch>>
      BY <2>1 DEF CommitMove
    <3> HIDE DEF t
    <3>2. t.e \in Entries /\ t.to \in Nodes
      BY <1>1, <1>2, <3>1 DEF Fine, Aiming
    <3>3. title[t.e] \in 0..1
      BY <1>1, <3>2 DEF Typed
    <3>4. path' \in [Entries -> Paths]
      BY <1>1, <3>1, <3>2, <3>3, RelocatedTyped
    <3>5. parent' \in [Entries -> Nodes]
      BY <1>1, <3>1, <3>2 DEF Typed
    <3> QED BY <1>1, <3>1, <3>4, <3>5 DEF Typed
  <2>2. ASSUME CommitRename(c) PROVE Typed'
    <3>1. /\ t.op = "rename"
          /\ title' = [title EXCEPT ![t.e] = 1 - @]
          /\ path' = Relocated(t.e, t.below, Append(PathOf(parent[t.e]), <<t.e, 1 - title[t.e]>>))
          /\ UNCHANGED <<state, parent, batch, lastBatch>>
      BY <2>2 DEF CommitRename
    <3> HIDE DEF t
    <3>2. t.e \in Entries /\ parent[t.e] \in Nodes /\ title[t.e] \in 0..1
      BY <1>1, <1>2, <3>1 DEF Typed
    <3>3. 1 - title[t.e] \in 0..1
      BY <3>2
    <3>4. path' \in [Entries -> Paths]
      BY <1>1, <3>1, <3>2, <3>3, RelocatedTyped
    <3>5. title' \in [Entries -> 0..1]
      BY <1>1, <3>1, <3>3 DEF Typed
    <3> QED BY <1>1, <3>1, <3>4, <3>5 DEF Typed
  <2> QED BY <1>4, <2>1, <2>2
<1>5. CASE CommitDelete(c)
  <2> DEFINE rows == {x \in t.rows : state[x] = "live"}
  <2>1. /\ lastBatch < MaxBatches
        /\ state' = [x \in Entries |-> IF x \in rows THEN "deleted" ELSE state[x]]
        /\ batch' = [x \in Entries |-> IF x \in rows THEN lastBatch + 1 ELSE batch[x]]
        /\ lastBatch' = lastBatch + 1
        /\ UNCHANGED <<parent, title, path>>
    BY <1>5 DEF CommitDelete
  <2> HIDE DEF t, rows
  <2> QED BY <1>1, <2>1 DEF Typed
<1>6. CASE CommitRestore(c)
  <2>1. /\ t.op = "restore" /\ t.pc = "commit"
        /\ state' = [x \in Entries |-> IF x \in t.rows THEN "live" ELSE state[x]]
        /\ batch' = [x \in Entries |-> IF x \in t.rows THEN 0 ELSE batch[x]]
        /\ parent' = [parent EXCEPT ![t.e] = t.to]
        /\ path' = IF t.to = parent[t.e] THEN path
                   ELSE Relocated(t.e, t.below, Append(PathOf(t.to), <<t.e, title[t.e]>>))
        /\ UNCHANGED <<title, lastBatch>>
    BY <1>6 DEF CommitRestore, Finish
  <2> HIDE DEF t
  <2>2. t.e \in Entries /\ t.to \in Nodes
    BY <1>1, <1>2, <2>1 DEF Fine, Aiming
  <2>3. title[t.e] \in 0..1
    BY <1>1, <2>2 DEF Typed
  <2>4. path' \in [Entries -> Paths]
    <3>1. Relocated(t.e, t.below, Append(PathOf(t.to), <<t.e, title[t.e]>>)) \in [Entries -> Paths]
      BY <1>1, <2>2, <2>3, RelocatedTyped
    <3> QED BY <1>1, <2>1, <3>1
  <2>5. parent' \in [Entries -> Nodes]
    BY <1>1, <2>1, <2>2 DEF Typed
  <2>6. /\ state' \in [Entries -> {"absent", "live", "deleted"}] /\ batch' \in [Entries -> 0..MaxBatches]
        /\ \A x \in Entries : (state'[x] = "deleted") <=> (batch'[x] # 0)
    BY <1>1, <2>1 DEF Typed
  <2> QED BY <1>1, <2>1, <2>4, <2>5, <2>6 DEF Typed
<1> QED BY <1>3, <1>4, <1>5, <1>6 DEF Commit

-----------------------------------------------------------------------------
(* The theorems. *)

\* The drive at the start is in order.
LEMMA InitInductive == Init => Inductive
<1> SUFFICES ASSUME Init PROVE Inductive
  OBVIOUS
<1>1. /\ state = [e \in Entries |-> IF e \in InitialEntries THEN "live" ELSE "absent"]
      /\ parent = [e \in Entries |-> IF e \in InitialEntries THEN Initial[e] ELSE Root]
      /\ title = [e \in Entries |-> 0] /\ path = [e \in Entries |-> InitialPath[e]]
      /\ closure = InitialClosure /\ batch = [e \in Entries |-> 0] /\ lastBatch = 0
      /\ held = [c \in Clients |-> [x \in Nodes |-> None]] /\ tx = [c \in Clients |-> Idle]
  BY DEF Init
<1>2. InitialEntries \subseteq Entries /\ \A e \in InitialEntries : Initial[e] \in Nodes
  BY DEF InitialEntries
<1>3. Present = {Root} \cup InitialEntries
  BY <1>1, <1>2 DEF Present
<1>4. Tree
  <2>1. IsTree(Present, Initial, InitialClosure)
    BY <1>3, InitialTree
  <2>2. \A x \in Present \ {Root} : parent[x] = Initial[x]
    BY <1>1, <1>2, <1>3
  <2>3. \A x \in Present \ {Root} :
          /\ parent[x] \in Present /\ <<x, parent[x]>> \notin InitialClosure
          /\ \A a \in Present : <<a, x>> \in InitialClosure <=> a = x \/ <<a, parent[x]>> \in InitialClosure
    BY <2>1, <2>2 DEF IsTree
  <2>4. IsTree(Present, parent, InitialClosure)
    BY <2>1, <2>3 DEF IsTree
  <2> QED BY <1>1, <2>4 DEF Tree
<1>5. Types
  <2>1. closure \subseteq Links
    BY <1>2, <1>3, <1>4 DEF Tree, IsTree, Links, Nodes
  <2>2. path \in [Entries -> Seq(Entries \X (0..1))]
    BY <1>1, InitialTree
  <2>3. tx \in [Clients -> Transactions] /\ \A c \in Clients : tx[c].want = {} /\ tx[c].rows = {}
    BY <1>1, IdleType DEF Idle
  <2>4. held \in [Clients -> [Nodes -> 0..4]]
    BY <1>1
  <2> QED BY <1>1, <1>2, <2>1, <2>2, <2>3, <2>4 DEF Types, TypeOK, Nodes
<1>6. NoLiveBelowDeleted
  <2> SUFFICES ASSUME NEW e \in Entries, state[e] = "live" PROVE IsLive(parent[e])
    BY DEF NoLiveBelowDeleted
  <2>1. e \in Present \ {Root} /\ e \in InitialEntries
    BY <1>1, <1>3
  <2>2. parent[e] \in Present
    BY <1>4, <1>5, <2>1, TreeFacts
  <2> QED BY <1>1, <1>2, <1>3, <2>2 DEF IsLive
<1>7. Locks /\ Batches /\ Alone
  BY <1>1, IdleType DEF Locks, Batches, Alone
<1>8. ASSUME NEW c \in Clients PROVE Fine(tx[c], held[c])
  <2>1. tx[c] = Idle
    BY <1>1
  <2> QED BY <2>1, IdleType
     DEF Fine, Started, Creating, Working, Covering, Aiming, Grafting, Moves, Deleting, Restoring
<1> QED BY <1>4, <1>5, <1>6, <1>7, <1>8 DEF Inductive

\* Every step keeps it in order.
LEMMA NextInductive == Inductive /\ [Next]_vars => Inductive'
<1> SUFFICES ASSUME Inductive, [Next]_vars PROVE Inductive'
  OBVIOUS
<1>1. ASSUME NEW c \in Clients, Request(c) PROVE Inductive'
  BY <1>1, RequestHolds
<1>2. ASSUME NEW c \in Clients, Statement(c) PROVE Inductive'
  BY <1>2, LockRowHolds, SubtreeHolds, InsertHolds, TargetHolds, DetachHolds, AttachHolds,
     RelocateHolds, MarkDeletedHolds, RestoreStepHolds DEF Statement
<1>3. ASSUME NEW c \in Clients, Commit(c) PROVE Inductive'
  <2>1. Typed'
    BY <1>3, TypedHolds
  <2> QED BY <1>3, <2>1, CommitCreateHolds, CommitMoveHolds, CommitRenameHolds, CommitDeleteHolds,
             CommitRestoreHolds DEF Commit
<1>4. ASSUME NEW c \in Clients, Abort(c) PROVE Inductive'
  BY <1>4, AbortHolds
<1>5. CASE UNCHANGED vars
  <2>1. UNCHANGED <<state, parent, title, path, closure, batch, lastBatch, held, tx>>
    BY <1>5 DEF vars, tree
  <2>2. Types' /\ Tree' /\ NoLiveBelowDeleted' /\ Locks' /\ Batches' /\ Alone'
    BY <2>1 DEF Inductive, Types, TypeOK, Tree, Present, NoLiveBelowDeleted, IsLive, Locks,
                Batches, Top, Alone
  <2>3. ASSUME NEW c \in Clients PROVE Fine(tx[c], held[c])'
    BY <2>1, SameTables DEF Inductive
  <2> QED BY <2>2, <2>3 DEF Inductive
<1> QED BY <1>1, <1>2, <1>3, <1>4, <1>5 DEF Next

\* In any mix of operations by any number of sessions the tables stay in step and
\* every transaction rests on rows it has locked.
THEOREM InductiveHolds == Spec => []Inductive
BY InitInductive, NextInductive, PTL DEF Spec

\* Types of the tables, the transactions and the locks they hold.
THEOREM TypeCorrect == Spec => []TypeOK
<1>1. Inductive => TypeOK
  BY DEF Inductive, Types
<1> QED BY <1>1, InductiveHolds, PTL

\* No live entry comes to lie in a deleted folder.
THEOREM NeverLiveBelowDeleted == Spec => []NoLiveBelowDeleted
<1>1. Inductive => NoLiveBelowDeleted
  BY DEF Inductive
<1> QED BY <1>1, InductiveHolds, PTL

\* The closure table is the reflexive transitive closure of parent_id, which
\* leads every entry to the drive root.
THEOREM ClosureAlwaysMatches == Spec => []ClosureMatchesParents
<1>1. Inductive => ClosureMatchesParents
  <2> SUFFICES ASSUME Inductive, NEW e \in Entries, state[e] # "absent"
               PROVE  /\ Above(e) = {e} \cup Above(parent[e])
                      /\ Root \in Above(e)
                      /\ parent[e] # e /\ (parent[e] \in Entries => e \notin Above(parent[e]))
    BY DEF ClosureMatchesParents
  <2>1. Types /\ Tree /\ e \in Present \ {Root} /\ e \in Nodes
    BY DEF Inductive, Present, Nodes
  <2>2. /\ \A a \in Nodes : a \in Above(e) <=> a = e \/ a \in Above(parent[e])
        /\ <<e, parent[e]>> \notin closure /\ e \in Above(e) /\ Root \in Above(e)
    BY <2>1, TreeFacts
  <2>3. Above(e) \subseteq Nodes /\ Above(parent[e]) \subseteq Nodes
    BY DEF Above
  <2> QED BY <2>1, <2>2, <2>3 DEF Above
<1> QED BY <1>1, InductiveHolds, PTL

\* A deletion deletes nothing that its capability check did not cover.
THEOREM DeletesAlwaysChecked == Spec => DeletesOnlyChecked
<1> DEFINE Checked == \A e \in Entries : state[e] = "live" /\ state'[e] = "deleted" =>
                        \E c \in Clients : tx[c].op = "delete" /\ tx'[c] = Idle /\ e \in tx[c].seen
<1>1. Inductive /\ [Next]_vars => [Checked]_vars
  <2> SUFFICES ASSUME Inductive, Next, NEW e \in Entries, state[e] = "live", state'[e] = "deleted"
               PROVE  \E c \in Clients : tx[c].op = "delete" /\ tx'[c] = Idle /\ e \in tx[c].seen
    OBVIOUS
  <2>1. PICK c \in Clients : Request(c) \/ Statement(c) \/ Commit(c) \/ Abort(c)
    BY DEF Next
  <2>2. state \in [Entries -> {"absent", "live", "deleted"}] /\ tx \in [Clients -> Transactions]
    BY DEF Inductive, Types, TypeOK
  <2>3. CommitDelete(c)
    <3>1. ~UNCHANGED tree
      BY DEF tree
    <3>2. ~Request(c)
      BY <3>1 DEF Request, OpenCreate, OpenMove, OpenRename, OpenDelete, OpenRestore, Open
    <3>3. ~Statement(c)
      BY <3>1 DEF Statement, LockRow, LockSubtree, CheckSubtree, Insert, LockTarget, Detach, Attach,
                  DerivePath, Relocate, MarkDeleted, LockBatch, RestoreTarget
    <3>4. ~Abort(c)
      BY <3>1 DEF Abort
    <3>5. ~CommitCreate(c) /\ ~CommitMove(c) /\ ~CommitRename(c) /\ ~CommitRestore(c)
      BY <2>2 DEF CommitCreate, CommitMove, CommitRename, CommitRestore
    <3> QED BY <2>1, <3>2, <3>3, <3>4, <3>5 DEF Commit
  <2>4. tx[c].op = "delete" /\ tx'[c] = Idle /\ tx[c].pc = "commit" /\ e \in tx[c].rows
    BY <2>2, <2>3 DEF CommitDelete, Finish
  <2>5. tx[c].rows \subseteq tx[c].seen
    BY <2>4 DEF Inductive, Fine, Deleting
  <2> QED BY <2>4, <2>5
<1> QED BY <1>1, InductiveHolds, PTL DEF Spec, DeletesOnlyChecked

-----------------------------------------------------------------------------
(* The path column.                                                         *)

\* What a suffix of a path is.
LEMMA SuffixPath ==
    ASSUME NEW s \in Paths, NEW n \in 0..Len(s)
    PROVE  Suffix(s, n) \in Paths /\ Len(Suffix(s, n)) = Len(s) - n
BY SuffixIs DEF Paths

\* Paths join to a path.
LEMMA JoinPath ==
    ASSUME NEW s \in Paths, NEW r \in Paths
    PROVE  s \o r \in Paths /\ Len(s \o r) = Len(s) + Len(r)
BY ConcatProperties DEF Paths

\* A path and one more entry is a path.
LEMMA AppendPath ==
    ASSUME NEW s \in Paths, NEW m \in Entries \X (0..1)
    PROVE  Append(s, m) \in Paths /\ Len(Append(s, m)) = Len(s) + 1 /\ Len(s) \in Nat
BY AppendProperties, LenProperties DEF Paths

\* Replacing the prefix of a path leaves its last entry.
LEMMA AppendSplicedPath ==
    ASSUME NEW new \in Paths, NEW s \in Paths, NEW m \in Entries \X (0..1), NEW n \in 0..Len(s)
    PROVE  new \o Suffix(Append(s, m), n) = Append(new \o Suffix(s, n), m)
<1> DEFINE S == Entries \X (0..1)
<1>1. new \in Seq(S) /\ s \in Seq(S) /\ m \in S /\ n \in 0..Len(s)
  BY DEF Paths
<1> HIDE DEF S
<1> QED BY <1>1, AppendSpliced

\* Types of the paths of the present entries.
LEMMA PathTypes ==
    ASSUME Types
    PROVE  \A x \in Nodes : PathOf(x) \in Paths /\ Len(PathOf(x)) \in Nat
<1>1. \A x \in Entries : path[x] \in Paths
  BY DEF Types, TypeOK, Paths
<1>2. \A x \in Nodes : PathOf(x) \in Paths
  BY <1>1 DEF PathOf, Nodes, Paths
<1> QED BY <1>2 DEF Paths

\* The path the parents give an entry is that of its folder and one more step.
Straight(e) == path[e] = Append(PathOf(parent[e]), <<e, title[e]>>)

\* Paths get longer on the way down.
LEMMA PathsDeepen ==
    ASSUME Types, Tree, PathsMatchParents, NEW l \in closure
    PROVE  Len(PathOf(l[1])) <= Len(PathOf(l[2]))
<1> DEFINE Wrong == {k \in closure : Len(PathOf(k[1])) > Len(PathOf(k[2]))}
           T == {Len(PathOf(k[2])) : k \in Wrong}
<1>1. closure \subseteq Present \X Present /\ Present \subseteq Nodes
  BY DEF Tree, IsTree, Present, Nodes
<1>2. T \subseteq Nat
  BY <1>1, PathTypes
<1>3. ASSUME Wrong # {} PROVE FALSE
  <2>1. T # {}
    <3>1. PICK k \in Wrong : TRUE
      BY <1>3
    <3>2. Len(PathOf(k[2])) \in T
      BY <3>1
    <3> QED BY <3>2
  <2>2. PICK n \in T : \A m \in T : n <= m
    BY <1>2, <2>1, Least
  <2>3. PICK k \in Wrong : n = Len(PathOf(k[2]))
    BY <2>2
  <2> DEFINE a == k[1]
             b == k[2]
             p == parent[b]
  <2>4. a \in Present /\ b \in Present /\ <<a, b>> \in closure /\ k = <<a, b>> /\ a # b
        /\ Len(PathOf(a)) > Len(PathOf(b)) /\ n = Len(PathOf(b))
    <3>1. k \in closure /\ k \in Present \X Present
      BY <1>1
    <3>2. a \in Nodes /\ b \in Nodes /\ Len(PathOf(a)) \in Nat /\ Len(PathOf(b)) \in Nat
      BY <1>1, <3>1, PathTypes
    <3> QED BY <2>3, <3>1, <3>2
  <2>5. b # Root /\ b \in Entries /\ state[b] # "absent" /\ a \in Nodes
    BY <1>1, <2>4, TreeFacts DEF Present
  <2>6. p \in Present /\ <<a, p>> \in closure
    BY <1>1, <2>4, <2>5, TreeFacts DEF Above
  <2>7. PathOf(b) = Append(PathOf(p), <<b, title[b]>>) /\ PathOf(p) \in Paths
        /\ <<b, title[b]>> \in Entries \X (0..1)
    <3>1. title[b] \in 0..1 /\ p \in Nodes
      BY <1>1, <2>5, <2>6 DEF Types, TypeOK
    <3> QED BY <2>5, <3>1, PathTypes DEF PathsMatchParents, PathOf
  <2>8. Len(PathOf(b)) = Len(PathOf(p)) + 1 /\ Len(PathOf(p)) \in Nat
    BY <2>7, AppendProperties DEF Paths
  <2>9. <<a, p>> \in Wrong
    <3>1. Len(PathOf(a)) \in Nat
      BY <1>1, <2>4, PathTypes
    <3> QED BY <2>4, <2>6, <2>8, <3>1
  <2>10. Len(PathOf(p)) \in T
    BY <2>9
  <2> QED BY <2>2, <2>4, <2>8, <2>10
<1>4. Len(PathOf(l[1])) \in Nat /\ Len(PathOf(l[2])) \in Nat
  BY <1>1, PathTypes
<1>5. ~(Len(PathOf(l[1])) > Len(PathOf(l[2])))
  BY <1>3
<1> QED BY <1>4, <1>5

\* Where a subtree is relocated whole, all its paths continue the new one.
LEMMA RelocatedStraight ==
    ASSUME Types, Tree, PathsMatchParents, NEW e \in Entries, e \in Present,
           NEW to \in Present, to \notin Below(e), NEW name \in 0..1,
           NEW rows, Below(e) \ {e} \subseteq rows, rows \subseteq Below(e),
           path' = Relocated(e, rows, Append(PathOf(to), <<e, name>>)),
           parent'[e] = to, title'[e] = name,
           \A x \in Entries \ {e} : parent'[x] = parent[x] /\ title'[x] = title[x],
           \A x \in Entries : state'[x] # "absent" => state[x] # "absent"
    PROVE  PathsMatchParents'
<1> DEFINE n == Len(path[e])
           new == Append(PathOf(to), <<e, name>>)
<1>1. /\ \A x \in Nodes : PathOf(x) \in Paths /\ Len(PathOf(x)) \in Nat
      /\ \A x \in Entries : path[x] \in Paths /\ Len(path[x]) \in Nat /\ path[x] = PathOf(x)
      /\ to \in Nodes /\ to # e /\ e # Root /\ e \in Below(e)
  <2>1. \A x \in Nodes : PathOf(x) \in Paths /\ Len(PathOf(x)) \in Nat
    BY PathTypes
  <2>2. \A x \in Entries : path[x] = PathOf(x) /\ x \in Nodes
    BY DEF PathOf, Nodes
  <2>3. to \in Nodes /\ e \in Below(e)
    BY SubtreeClosed DEF Present, Nodes
  <2> QED BY <2>1, <2>2, <2>3
<1>2. new \in Paths /\ n \in Nat
  <2>1. <<e, name>> \in Entries \X (0..1)
    OBVIOUS
  <2> QED BY <1>1, <2>1, AppendPath
<1>3. /\ path'[e] = new
      /\ \A x \in Entries : x \in Below(e) /\ x # e => path'[x] = new \o Suffix(path[x], n)
      /\ \A x \in Entries : x \notin Below(e) => path'[x] = path[x]
  <2> HIDE DEF new, n
  <2>1. path' = Relocated(e, rows, new)
    BY DEF new
  <2> QED BY <1>1, <2>1 DEF Relocated, n
<1>4. \A x \in Below(e) : x \in Entries /\ n \in 0..Len(path[x])
  <2> SUFFICES ASSUME NEW x \in Below(e) PROVE x \in Entries /\ n \in 0..Len(path[x])
    OBVIOUS
  <2>1. x \in Entries /\ <<e, x>> \in closure
    BY DEF Below
  <2>2. Len(PathOf(<<e, x>>[1])) <= Len(PathOf(<<e, x>>[2]))
    BY <2>1, PathsDeepen
  <2> QED BY <1>1, <2>1, <2>2
<1> HIDE DEF new, n
<1>5. new \o Suffix(path[e], n) = new
  <2>1. Suffix(path[e], n) \in Paths /\ Len(Suffix(path[e], n)) = 0
    <3>1. path[e] \in Paths /\ n = Len(path[e]) /\ n \in 0..Len(path[e]) /\ Len(path[e]) - n = 0
      BY <1>1 DEF n
    <3> QED BY <3>1, SuffixPath
  <2>2. Suffix(path[e], n) = <<>>
    BY <2>1 DEF Paths
  <2> QED BY <1>2, <2>2, ConcatEmptySeq DEF Paths
<1>6. \A x \in Below(e) : path'[x] = new \o Suffix(path[x], n)
  BY <1>1, <1>3, <1>4, <1>5
<1> SUFFICES ASSUME NEW y \in Entries, state'[y] # "absent" PROVE Straight(y)'
  BY DEF PathsMatchParents, Straight, PathOf
<1>7. y \in Present \ {Root} /\ path[y] = Append(PathOf(parent[y]), <<y, title[y]>>)
      /\ parent[y] \in Nodes /\ title[y] \in 0..1
  BY DEF Types, TypeOK, PathsMatchParents, Present
<1>8. /\ y \in Below(e) /\ y # e => parent[y] \in Below(e)
      /\ y \notin Below(e) => parent[y] \notin Below(e)
  BY <1>7, SubtreeClosed
<1>9. CASE y = e
  <2>1. PathOf(to)' = PathOf(to)
    BY <1>1, <1>3 DEF PathOf, Nodes
  <2> QED BY <1>3, <1>9, <2>1 DEF Straight, new, PathOf
<1>10. CASE y \in Below(e) /\ y # e
  <2> DEFINE p == parent[y]
             m == <<y, title[y]>>
  <2>1. p \in Below(e) /\ p \in Entries /\ p # Root /\ path[p] \in Paths /\ n \in 0..Len(path[p])
    BY <1>1, <1>4, <1>8, <1>10
  <2>2. m \in Entries \X (0..1)
    BY <1>7
  <2>3. path[y] = Append(path[p], m)
    BY <1>7, <2>1 DEF PathOf
  <2>4. parent'[y] = p /\ m = <<y, title'[y]>>
    BY <1>10
  <2> HIDE DEF m
  <2>5. new \o Suffix(Append(path[p], m), n) = Append(new \o Suffix(path[p], n), m)
    BY SMTT(20), <1>2, <2>1, <2>2, AppendSplicedPath
  <2>6. path'[y] = Append(path'[p], m)
    BY <1>6, <1>10, <2>1, <2>3, <2>5
  <2> HIDE DEF p
  <2> QED BY <2>1, <2>4, <2>6 DEF Straight, PathOf
<1>11. CASE y \notin Below(e)
  <2>1. y # e /\ parent'[y] = parent[y] /\ title'[y] = title[y]
    BY <1>1, <1>11
  <2>2. PathOf(parent[y]) = IF parent[y] = Root THEN <<>> ELSE path'[parent[y]]
    BY <1>3, <1>7, <1>8, <1>11 DEF PathOf, Nodes
  <2>3. path'[y] = path[y]
    BY <1>3, <1>11
  <2> QED BY <1>7, <2>1, <2>2, <2>3 DEF Straight, PathOf
<1> QED BY <1>9, <1>10, <1>11

\* A new entry continues the path of its folder.
LEMMA CreateStraight ==
    ASSUME Inductive, PathsMatchParents, NEW c \in Clients, CommitCreate(c)
    PROVE  PathsMatchParents'
<1> SUFFICES ASSUME NEW e, NEW to, e = tx[c].e, to = tx[c].to
             PROVE  PathsMatchParents'
  OBVIOUS
<1> DEFINE t == tx[c]
           new == Append(PathOf(to), <<e, 0>>)
<1>1. /\ t.op = "create" /\ t.pc = "commit" /\ e = t.e /\ to = t.to
      /\ state' = [state EXCEPT ![e] = "live"] /\ parent' = [parent EXCEPT ![e] = to]
      /\ title' = [title EXCEPT ![e] = 0] /\ path' = [path EXCEPT ![e] = new]
  BY DEF CommitCreate, Finish
<1>2. Types /\ Tree /\ Fine(t, held[c])
      /\ state \in [Entries -> {"absent", "live", "deleted"}] /\ parent \in [Entries -> Nodes]
      /\ title \in [Entries -> 0..1]
  BY Mine DEF Inductive, Types, TypeOK
<1> HIDE DEF t
<1>3. e \in Entries /\ e \notin Present /\ to \in Nodes /\ e # to /\ e # Root
  BY <1>1, <1>2 DEF Fine, Started, Creating, Present, IsLive
<1>4. /\ \A x \in Entries \ {e} : /\ state'[x] = state[x] /\ parent'[x] = parent[x]
                                  /\ title'[x] = title[x]
      /\ parent'[e] = to /\ title'[e] = 0
  BY <1>1, <1>2, <1>3
<1>5. path'[e] = new /\ \A x \in Entries \ {e} : path'[x] = path[x]
  <2> HIDE DEF new
  <2>1. path' = [path EXCEPT ![e] = new] /\ DOMAIN path = Entries
    BY <1>1, <1>2 DEF Types, TypeOK
  <2> QED BY <1>3, <2>1
<1>6. \A x \in Nodes : x # e => PathOf(x) = IF x = Root THEN <<>> ELSE path'[x]
  BY <1>5 DEF PathOf, Nodes
<1> HIDE DEF new
<1> SUFFICES ASSUME NEW y \in Entries, state'[y] # "absent" PROVE Straight(y)'
  BY DEF PathsMatchParents, Straight, PathOf
<1>7. CASE y = e
  <2>1. path'[y] = Append(PathOf(to), <<y, title'[y]>>) /\ parent'[y] = to
    BY <1>4, <1>5, <1>7 DEF new
  <2>2. PathOf(to) = IF to = Root THEN <<>> ELSE path'[to]
    BY <1>3, <1>6
  <2> QED BY <2>1, <2>2 DEF Straight, PathOf
<1>8. CASE y # e
  <2>1. y \in Present \ {Root} /\ path[y] = Append(PathOf(parent[y]), <<y, title[y]>>)
    BY <1>4, <1>8 DEF PathsMatchParents, Present
  <2>2. parent[y] \in Nodes /\ parent[y] # e
    <3>1. parent[y] \in Present
      BY <1>2, <2>1, TreeFacts
    <3> QED BY <1>2, <1>3, <3>1
  <2> QED BY <1>4, <1>5, <1>6, <1>8, <2>1, <2>2 DEF Straight, PathOf
<1> QED BY <1>7, <1>8

\* What the path trigger has listed: all that lies below a renamed entry, which others
\* may still move out; and of an entry that moves, whose subtree is locked, exactly
\* what lies below it.
Listing(t) ==
    t.pc = "commit" =>
        /\ t.op = "rename" => Below(t.e) \ {t.e} \subseteq t.below
        /\ t.op \in {"move", "restore"} /\ Moves(t) => t.below = Below(t.e) \ {t.e}
Listed == \A c \in Clients : Listing(tx[c])

\* A step of a session that leaves the tables alone leaves the lists right.
LEMMA ListingLocal ==
    ASSUME Inductive, Listed, UNCHANGED tree, NEW c \in Clients,
           NEW t2, tx' = [tx EXCEPT ![c] = t2], Listing(t2)
    PROVE  Listed'
<1>1. UNCHANGED <<parent, closure>> /\ tx \in [Clients -> Transactions]
  BY DEF tree, Inductive, Types
<1>2. tx'[c] = t2 /\ \A d \in Clients \ {c} : tx'[d] = tx[d]
  BY <1>1
<1>3. ASSUME NEW d \in Clients PROVE Listing(tx[d])'
  <2>1. PICK t : t = tx'[d] /\ Listing(t)
    BY <1>2 DEF Listed
  <2> QED BY <1>1, <2>1 DEF Listing, Moves, Below
<1> QED BY <1>3 DEF Listed

\* So the lists stay right between commits.
LEMMA StatementListed ==
    ASSUME Inductive, Listed, NEW c \in Clients
    PROVE  Request(c) \/ Statement(c) \/ Abort(c) => Listed' /\ UNCHANGED tree
<1> DEFINE t == tx[c]
<1>1. /\ t \in Transactions /\ Fine(t, held[c]) /\ Listing(t) /\ tx \in [Clients -> Transactions]
  BY Mine DEF Listed, Inductive, Types
<1>2. Request(c) \/ Statement(c) \/ Abort(c) => UNCHANGED tree
  <2>1. Request(c) => UNCHANGED tree
    BY ZenonT(60) DEF Request, OpenCreate, OpenMove, OpenRename, OpenDelete, OpenRestore, Open
  <2>2. Statement(c) => UNCHANGED tree
    BY ZenonT(60) DEF Statement, LockRow, LockSubtree, CheckSubtree, Insert, LockTarget, Detach,
                      Attach, DerivePath, Relocate, MarkDeleted, LockBatch, RestoreTarget
  <2>3. Abort(c) => UNCHANGED tree
    BY DEF Abort
  <2> QED BY <2>1, <2>2, <2>3
<1>3. \A t2 : t2.pc # "commit" \/ t2.op \in {"create", "delete"} => Listing(t2)
  BY DEF Listing
<1>4. ASSUME Request(c) \/ Statement(c) \/ Abort(c)
      PROVE  \E t2 : tx' = [tx EXCEPT ![c] = t2] /\ Listing(t2)
  <2>1. CASE Request(c)
    <3>1. \A op, x, t2 : Open(c, op, x, t2) /\ t2.pc # "commit" =>
             tx' = [tx EXCEPT ![c] = t2] /\ Listing(t2)
      BY <1>3 DEF Open
    <3>2. ASSUME NEW e \in Entries, NEW to \in Nodes, OpenCreate(c, e, to)
          PROVE  \E t2 : tx' = [tx EXCEPT ![c] = t2] /\ Listing(t2)
      <4> DEFINE t2 == [Idle EXCEPT !.op = "create", !.pc = "write", !.e = e, !.to = to]
      <4>1. t2.pc # "commit" /\ Open(c, "create", to, t2)
        BY <3>2 DEF Idle, OpenCreate
      <4> HIDE DEF t2
      <4> QED BY <3>1, <4>1
    <3>3. ASSUME NEW e \in Entries, NEW to \in Nodes, OpenMove(c, e, to)
          PROVE  \E t2 : tx' = [tx EXCEPT ![c] = t2] /\ Listing(t2)
      <4> DEFINE t2 == [Idle EXCEPT !.op = "move", !.pc = "target", !.e = e, !.to = to]
      <4>1. t2.pc # "commit" /\ Open(c, "move", e, t2)
        BY <3>3 DEF Idle, OpenMove
      <4> HIDE DEF t2
      <4> QED BY <3>1, <4>1
    <3>4. ASSUME NEW e \in Entries, OpenRename(c, e)
          PROVE  \E t2 : tx' = [tx EXCEPT ![c] = t2] /\ Listing(t2)
      <4> DEFINE t2 == [Idle EXCEPT !.op = "rename", !.pc = "write", !.e = e]
      <4>1. t2.pc # "commit" /\ Open(c, "rename", e, t2)
        BY <3>4 DEF Idle, OpenRename
      <4> HIDE DEF t2
      <4> QED BY <3>1, <4>1
    <3>5. ASSUME NEW e \in Entries, OpenDelete(c, e)
          PROVE  \E t2 : tx' = [tx EXCEPT ![c] = t2] /\ Listing(t2)
      <4> DEFINE t2 == [Idle EXCEPT !.op = "delete", !.pc = "subtree", !.e = e]
      <4>1. t2.pc # "commit" /\ Open(c, "delete", e, t2)
        BY <3>5 DEF Idle, OpenDelete
      <4> HIDE DEF t2
      <4> QED BY <3>1, <4>1
    <3>6. ASSUME NEW e \in Entries, OpenRestore(c, e)
          PROVE  \E t2 : tx' = [tx EXCEPT ![c] = t2] /\ Listing(t2)
      <4> DEFINE t2 == [Idle EXCEPT !.op = "restore", !.pc = "subtree", !.e = e]
      <4>1. t2.pc # "commit" /\ Open(c, "restore", e, t2)
        BY <3>6 DEF Idle, OpenRestore
      <4> HIDE DEF t2
      <4> QED BY <3>1, <4>1
    <3> QED BY <2>1, <3>2, <3>3, <3>4, <3>5, <3>6 DEF Request
  <2>2. CASE Abort(c)
    BY <1>3, <2>2, IdleType DEF Abort
  <2>3. CASE \E x \in Nodes : LockRow(c, x)
    <3>1. PICK x \in Nodes : LockRow(c, x)
      BY <2>3
    <3> DEFINE t2 == [t EXCEPT !.want = @ \ {x}]
    <3>2. tx' = [tx EXCEPT ![c] = t2]
      BY <3>1 DEF LockRow
    <3> HIDE DEF t
    <3>3. t2.op = t.op /\ t2.pc = t.pc /\ t2.e = t.e /\ t2.to = t.to /\ t2.below = t.below
      BY <1>1 DEF Transactions
    <3> HIDE DEF t2
    <3>4. Listing(t2)
      BY <1>1, <3>3 DEF Listing, Moves
    <3> QED BY <3>2, <3>4 DEF t
  <2>4. CASE Relocate(c)
    <3> DEFINE rows == Below(t.e) \ {t.e}
               t2 == [t EXCEPT !.pc = "commit", !.below = rows, !.want = rows, !.mode = NoKeyUpdate]
    <3>1. tx' = [tx EXCEPT ![c] = t2]
      BY <2>4 DEF Relocate
    <3> HIDE DEF t, rows
    <3>2. t2.op = t.op /\ t2.e = t.e /\ t2.below = rows
      BY <1>1 DEF Transactions
    <3> HIDE DEF t2
    <3>3. Listing(t2)
      BY <3>2 DEF Listing, rows
    <3> QED BY <3>1, <3>3 DEF t
  <2>5. CASE RestoreTarget(c)
    <3> DEFINE p == parent[t.e]
               kept == IsLive(p)
               to == IF kept THEN p ELSE Root
               pc == IF kept THEN "commit" ELSE "graft"
               cut == IF kept THEN {} ELSE closure \cap ((Above(t.e) \ {t.e}) \X Below(t.e))
               t2 == [t EXCEPT !.to = to, !.pc = pc, !.cut = cut]
    <3>1. tx' = [tx EXCEPT ![c] = t2] /\ t.op = "restore"
      BY <2>5 DEF RestoreTarget, At
    <3> HIDE DEF t, cut, to, pc
    <3>2. t2.op = t.op /\ t2.e = t.e /\ t2.to = to /\ t2.pc = pc
      BY <1>1 DEF Transactions
    <3> HIDE DEF t2, kept
    <3>3. Listing(t2)
      BY <3>1, <3>2 DEF Listing, Moves, to, pc
    <3> QED BY <3>1, <3>3 DEF t
  <2>6. CASE LockSubtree(c)
    <3> DEFINE t2 == [t EXCEPT !.pc = "check", !.want = Below(t.e), !.mode = Update]
    <3>1. tx' = [tx EXCEPT ![c] = t2]
      BY <2>6 DEF LockSubtree
    <3> HIDE DEF t
    <3>2. t2.pc = "check"
      BY <1>1 DEF Transactions
    <3> HIDE DEF t2
    <3> QED BY <1>3, <3>1, <3>2 DEF t
  <2>7. CASE CheckSubtree(c)
    <3> DEFINE t2 == [t EXCEPT !.pc = "write", !.seen = Below(t.e)]
    <3>1. tx' = [tx EXCEPT ![c] = t2]
      BY <2>7 DEF CheckSubtree
    <3> HIDE DEF t
    <3>2. t2.pc = "write"
      BY <1>1 DEF Transactions
    <3> HIDE DEF t2
    <3> QED BY <1>3, <3>1, <3>2 DEF t
  <2>8. CASE DerivePath(c) \/ LockTarget(c)
    <3>1. PICK pc \in {"paths", "subtree"} : tx' = [tx EXCEPT ![c].pc = pc]
      BY <2>8 DEF DerivePath, LockTarget, Goto
    <3> DEFINE t2 == [t EXCEPT !.pc = pc]
    <3>2. tx' = [tx EXCEPT ![c] = t2]
      BY <3>1
    <3> HIDE DEF t
    <3>3. t2.pc = pc
      BY <1>1 DEF Transactions
    <3> HIDE DEF t2
    <3> QED BY <1>3, <3>2, <3>3 DEF t
  <2>9. CASE Insert(c)
    <3> DEFINE graft == (Above(t.to) \X {t.e}) \cup {<<t.e, t.e>>}
               t2 == [t EXCEPT !.pc = "commit", !.graft = graft, !.mode = KeyShare,
                               !.want = ReferencedRows(graft) \ {t.e}]
    <3>1. t.op = "create" /\ tx' = [tx EXCEPT ![c] = t2]
      BY <2>9 DEF Insert, At
    <3> HIDE DEF t, graft
    <3>2. t2.op = t.op
      BY <1>1 DEF Transactions
    <3> HIDE DEF t2
    <3> QED BY <1>3, <3>1, <3>2 DEF t
  <2>10. CASE MarkDeleted(c)
    <3>1. t.op = "delete" /\ \E rows : tx' = [tx EXCEPT ![c].pc = "commit", ![c].rows = rows,
                                                        ![c].want = rows, ![c].mode = NoKeyUpdate]
      BY Zenon, <2>10 DEF MarkDeleted, At
    <3>2. PICK rows : tx' = [tx EXCEPT ![c].pc = "commit", ![c].rows = rows,
                                       ![c].want = rows, ![c].mode = NoKeyUpdate]
      BY Zenon, <3>1
    <3> DEFINE t2 == [t EXCEPT !.pc = "commit", !.rows = rows, !.want = rows,
                               !.mode = NoKeyUpdate]
    <3>3. tx' = [tx EXCEPT ![c] = t2]
      BY <3>2
    <3> HIDE DEF t
    <3>4. t2.op = t.op
      BY <1>1 DEF Transactions
    <3> HIDE DEF t2
    <3> QED BY <1>3, <3>1, <3>3, <3>4 DEF t
  <2>11. CASE LockBatch(c)
    <3>1. \E rows : tx' = [tx EXCEPT ![c].pc = "target", ![c].rows = rows,
                                     ![c].want = rows, ![c].mode = Update]
      BY Zenon, <2>11 DEF LockBatch
    <3>2. PICK rows : tx' = [tx EXCEPT ![c].pc = "target", ![c].rows = rows,
                                       ![c].want = rows, ![c].mode = Update]
      BY Zenon, <3>1
    <3> DEFINE t2 == [t EXCEPT !.pc = "target", !.rows = rows, !.want = rows, !.mode = Update]
    <3>3. tx' = [tx EXCEPT ![c] = t2]
      BY <3>2
    <3> HIDE DEF t
    <3>4. t2.pc = "target"
      BY <1>1 DEF Transactions
    <3> HIDE DEF t2
    <3> QED BY <1>3, <3>3, <3>4 DEF t
  <2>12. CASE Detach(c)
    <3> DEFINE cut == closure \cap ((Above(t.e) \ {t.e}) \X Below(t.e))
               t2 == [t EXCEPT !.pc = "graft", !.cut = cut]
    <3>1. tx' = [tx EXCEPT ![c] = t2]
      BY <2>12 DEF Detach
    <3> HIDE DEF t, cut
    <3>2. t2.pc = "graft"
      BY <1>1 DEF Transactions
    <3> HIDE DEF t2
    <3> QED BY <1>3, <3>1, <3>2 DEF t
  <2>13. CASE Attach(c)
    <3> DEFINE graft == Above(t.to) \X Below(t.e)
               t2 == [t EXCEPT !.pc = "paths", !.graft = graft, !.mode = KeyShare,
                               !.want = ReferencedRows(graft)]
    <3>1. tx' = [tx EXCEPT ![c] = t2]
      BY <2>13 DEF Attach
    <3> HIDE DEF t, graft
    <3>2. t2.pc = "paths"
      BY <1>1 DEF Transactions
    <3> HIDE DEF t2
    <3> QED BY <1>3, <3>1, <3>2 DEF t
  <2> QED BY <1>4, <2>1, <2>2, <2>3, <2>4, <2>5, <2>6, <2>7, <2>8, <2>9, <2>10, <2>11, <2>12, <2>13
          DEF Statement
<1> QED BY <1>2, <1>4, ListingLocal

\* A commit takes nothing into a subtree whose top another session holds for update,
\* and nothing out of one that is locked whole.
LEMMA CommitListed ==
    ASSUME Inductive, Listed, NEW c \in Clients, Commit(c)
    PROVE  Listed'
<1>1. Finish(c) /\ Inductive' /\ \A d \in Clients \ {c} : Calm(held[d])
  <2>1. Typed'
    BY TypedHolds
  <2>2. Finish(c)
    BY DEF Commit, CommitCreate, CommitMove, CommitRename, CommitDelete, CommitRestore
  <2> QED BY <2>1, <2>2, CommitCreateHolds, CommitMoveHolds, CommitRenameHolds, CommitDeleteHolds,
             CommitRestoreHolds DEF Commit
<1>2. /\ tx \in [Clients -> Transactions] /\ tx'[c] = Idle
      /\ \A d \in Clients \ {c} : tx'[d] = tx[d]
  BY <1>1 DEF Finish, Inductive, Types
<1>3. ASSUME NEW d \in Clients PROVE Listing(tx[d])'
  <2>1. CASE d = c
    BY <1>2, <2>1, IdleType DEF Listing
  <2>2. CASE d # c
    <3>1. PICK t, h : t = tx[d] /\ h = held[d] /\ t = tx'[d]
      BY <1>2, <2>2
    <3>2. t \in Transactions /\ Fine(t, h) /\ Listing(t) /\ Calm(h)
      BY <1>1, <2>2, <3>1, Mine DEF Listed
    <3>3. CASE t.pc = "commit" /\ t.op \in {"rename", "move", "restore"}
      <4>1. t.e \in Entries /\ t.e \in Nodes /\ h[t.e] = Update
        BY <3>2, <3>3 DEF Fine, Started, Working, Nodes
      <4>2. parent'[t.e] = parent[t.e] /\ Below(t.e)' \subseteq Below(t.e)
            /\ \A y \in Below(t.e) : y \notin Below(t.e)' => h[y] # Update
        <5>1. PICK x : x = t.e
          OBVIOUS
        <5>2. parent'[x] = parent[x] /\ Below(x)' \subseteq Below(x)
              /\ \A y \in Below(x) : y \notin Below(x)' => h[y] # Update
          BY <3>2, <4>1, <5>1 DEF Calm
        <5> QED BY <5>1, <5>2 DEF Below
      <4>3. t.op # "rename" => Below(t.e)' = Below(t.e)
        BY <3>2, <3>3, <4>2 DEF Fine, Covering, Owned
      <4>4. Listing(t)'
        BY <3>2, <3>3, <4>2, <4>3 DEF Listing, Moves, Below
      <4> QED BY <3>1, <4>4 DEF Listing, Moves, Below
    <3>4. CASE ~(t.pc = "commit" /\ t.op \in {"rename", "move", "restore"})
      BY <3>1, <3>4 DEF Listing
    <3> QED BY <3>3, <3>4
  <2> QED BY <2>1, <2>2
<1> QED BY <1>3 DEF Listed

\* No transaction has listed anything at the start, and the lists stay right.
LEMMA ListedHolds == Spec => []Listed
<1>1. Init => Listed
  BY IdleType DEF Init, Listed, Listing
<1>2. Inductive /\ Listed /\ [Next]_vars => Listed'
  <2> SUFFICES ASSUME Inductive, Listed, [Next]_vars PROVE Listed'
    OBVIOUS
  <2>1. CASE UNCHANGED vars
    BY <2>1 DEF vars, tree, Listed, Listing, Moves, Below
  <2> QED BY <2>1, StatementListed, CommitListed DEF Next
<1> QED BY <1>1, <1>2, InductiveHolds, PTL DEF Spec

\* A rename whose rows are all still below the entry keeps the paths in step.
LEMMA RenameStraight ==
    ASSUME Inductive, Listed, PathsMatchParents, NEW c \in Clients, CommitRename(c), ~Overtaken(c)
    PROVE  PathsMatchParents'
<1> SUFFICES ASSUME NEW e, NEW to, e = tx[c].e, to = parent[e] PROVE PathsMatchParents'
  OBVIOUS
<1> DEFINE t == tx[c]
<1>1. /\ t.op = "rename" /\ t.pc = "commit" /\ e = t.e
      /\ title' = [title EXCEPT ![e] = 1 - @]
      /\ path' = Relocated(e, t.below, Append(PathOf(to), <<e, 1 - title[e]>>))
      /\ UNCHANGED <<state, parent, closure>> /\ Finish(c)
  BY DEF CommitRename, Finish
<1>2. Types /\ Tree /\ Fine(t, held[c]) /\ Listing(t) /\ title \in [Entries -> 0..1]
      /\ tx \in [Clients -> Transactions]
  BY Mine DEF Inductive, Types, TypeOK, Listed
<1>3. t.below \subseteq Below(e)
  <2>1. tx'[c] = Idle
    BY <1>1, <1>2 DEF Finish
  <2> QED BY <1>1, <2>1 DEF Overtaken
<1> HIDE DEF t
<1>4. e \in Entries /\ e \in Present /\ Below(e) \ {e} \subseteq t.below
  BY <1>1, <1>2 DEF Fine, Started, Working, Listing, Present
<1>5. to \in Present /\ to \notin Below(e) /\ to = parent[e]
  BY <1>2, <1>4, TreeFacts DEF Below, Present
<1>6. title'[e] = 1 - title[e] /\ 1 - title[e] \in 0..1 /\ \A x \in Entries \ {e} : title'[x] = title[x]
  BY <1>1, <1>2, <1>4
<1>7. parent'[e] = to /\ \A x \in Entries : parent'[x] = parent[x] /\ (state'[x] # "absent" => state[x] # "absent")
  BY <1>1, <1>5
<1> QED BY <1>1, <1>2, <1>3, <1>4, <1>5, <1>6, <1>7, RelocatedStraight

\* A step that writes a move: it relocates what it has listed.
Moving(t) ==
    /\ t.op \in {"move", "restore"} /\ Moves(t) /\ t.pc = "commit"
    /\ parent' = [parent EXCEPT ![t.e] = t.to] /\ title' = title
    /\ path' = Relocated(t.e, t.below, Append(PathOf(t.to), <<t.e, title[t.e]>>))
    /\ \A x \in Entries : state'[x] # "absent" => state[x] # "absent"

\* So does a move, whose subtree is locked whole.
LEMMA MoveStraight ==
    ASSUME Inductive, Listed, PathsMatchParents, NEW c \in Clients, Moving(tx[c])
    PROVE  PathsMatchParents'
<1>1. PICK t, e, to, rows : t = tx[c] /\ e = t.e /\ to = t.to /\ rows = t.below
  OBVIOUS
<1>2. Types /\ Tree /\ Fine(t, held[c]) /\ Listing(t) /\ title \in [Entries -> 0..1]
      /\ parent \in [Entries -> Nodes]
  BY <1>1, Mine DEF Inductive, Types, TypeOK, Listed
<1>3. t.op \in {"move", "restore"} /\ Moves(t) /\ t.pc = "commit"
  BY <1>1 DEF Moving
<1>4. e \in Entries /\ e \in Present /\ rows = Below(e) \ {e} /\ <<e, to>> \notin closure
      /\ to \in Present
  BY <1>1, <1>2, <1>3 DEF Fine, Started, Working, Aiming, Grafting, Listing, Present, IsLive
<1>5. Below(e) \ {e} \subseteq rows /\ rows \subseteq Below(e) /\ to \notin Below(e)
  BY <1>4 DEF Below
<1>6. PICK name : name = title[e]
  OBVIOUS
<1>7. name \in 0..1 /\ path' = Relocated(e, rows, Append(PathOf(to), <<e, name>>))
  BY <1>1, <1>2, <1>4, <1>6 DEF Moving
<1>8. title'[e] = name /\ parent'[e] = to
      /\ \A x \in Entries \ {e} : parent'[x] = parent[x] /\ title'[x] = title[x]
  BY <1>1, <1>2, <1>4, <1>6 DEF Moving
<1>9. \A x \in Entries : state'[x] # "absent" => state[x] # "absent"
  BY DEF Moving
<1> QED BY <1>2, <1>4, <1>5, <1>7, <1>8, <1>9, RelocatedStraight

\* So does a restore, to the original folder or to the drive root.
LEMMA RestoreStraight ==
    ASSUME Inductive, Listed, PathsMatchParents, NEW c \in Clients, CommitRestore(c)
    PROVE  PathsMatchParents'
<1>1. PICK t : t = tx[c]
  OBVIOUS
<1>2. /\ t.op = "restore" /\ t.pc = "commit"
      /\ state' = [x \in Entries |-> IF x \in t.rows THEN "live" ELSE state[x]]
      /\ parent' = [parent EXCEPT ![t.e] = t.to] /\ title' = title
      /\ path' = IF t.to = parent[t.e] THEN path
                 ELSE Relocated(t.e, t.below, Append(PathOf(t.to), <<t.e, title[t.e]>>))
  BY <1>1 DEF CommitRestore, Finish
<1>3. Types /\ Tree /\ Fine(t, held[c]) /\ parent \in [Entries -> Nodes]
      /\ \A x \in Entries : (state[x] = "deleted") <=> (batch[x] # 0)
  BY <1>1, Mine DEF Inductive, Types, TypeOK
<1>4. t.e \in Entries /\ state[t.e] = "deleted" /\ t.rows = {x \in Below(t.e) : batch[x] = batch[t.e]}
  BY <1>2, <1>3 DEF Fine, Started, Working, Restoring
<1>5. \A x \in Entries : state'[x] # "absent" => state[x] # "absent"
  BY <1>2, <1>3, <1>4
<1>6. CASE Moves(t)
  <2>1. path' = Relocated(t.e, t.below, Append(PathOf(t.to), <<t.e, title[t.e]>>))
    BY <1>2, <1>6 DEF Moves
  <2>2. Moving(t)
    BY <1>2, <1>5, <1>6, <2>1 DEF Moving
  <2> QED BY <1>1, <2>2, MoveStraight
<1>7. CASE ~Moves(t)
  <2>1. path' = path /\ parent' = parent /\ title' = title
    BY <1>2, <1>3, <1>4, <1>7 DEF Moves
  <2> QED BY <1>5, <2>1 DEF PathsMatchParents, PathOf
<1> QED BY <1>6, <1>7

\* However the operations meet, a path is broken only by a rename of a folder that
\* something moves out of while the trigger rewrites the paths below it.
THEOREM OnlyMovesOutBreakPaths == Spec => PathsBreakOnlyByMovesOut
<1> DEFINE Kept == PathsMatchParents => PathsMatchParents' \/ \E c \in Clients : Overtaken(c)
<1>1. Inductive /\ Listed /\ [Next]_vars => [Kept]_vars
  <2> SUFFICES ASSUME Inductive, Listed, Next, PathsMatchParents,
                      \A c \in Clients : ~Overtaken(c)
               PROVE  PathsMatchParents'
    OBVIOUS
  <2>1. PICK c \in Clients : Request(c) \/ Statement(c) \/ Commit(c) \/ Abort(c)
    BY DEF Next
  <2>2. CASE UNCHANGED tree
    BY <2>2 DEF tree, PathsMatchParents, PathOf
  <2>3. CASE Request(c) \/ Statement(c) \/ Abort(c)
    BY <2>2, <2>3, StatementListed
  <2>4. CASE CommitCreate(c)
    BY <2>4, CreateStraight
  <2>5. CASE CommitRename(c)
    BY <2>5, RenameStraight
  <2>6. CASE CommitMove(c)
    <3>1. Moving(tx[c])
      BY <2>6 DEF CommitMove, Finish, Moves, Moving
    <3> QED BY <3>1, MoveStraight
  <2>7. CASE CommitDelete(c)
    <3>1. UNCHANGED <<parent, title, path>> /\ \A y \in Entries : state'[y] # "absent" => state[y] # "absent"
      BY <2>7 DEF CommitDelete
    <3> QED BY <3>1 DEF PathsMatchParents, PathOf
  <2>8. CASE CommitRestore(c)
    BY <2>8, RestoreStraight
  <2> QED BY <2>1, <2>3, <2>4, <2>5, <2>6, <2>7, <2>8 DEF Commit
<1> QED BY <1>1, InductiveHolds, ListedHolds, PTL DEF Spec, PathsBreakOnlyByMovesOut

===============================================================================
