--------------------------- MODULE AccessRights_proofs ---------------------------
(***************************************************************************)
(* Theorems about who may do what.  AccessRights: for any number of        *)
(* accounts and entries, the SQL copies of the access rule agree with      *)
(* domain policy, and what may be opened can be reached by walking down to *)
(* it.  AppRequests: however often it asks, and whatever happens           *)
(* meanwhile, an app that acts for an account keeps to what the account's  *)
(* rules let it do.                                                        *)
(*                                                                         *)
(* Enclosing, what an entry sits in, is recursive.  Over, defined here,    *)
(* says the same with sets closed under parents, which needs no induction, *)
(* and Rooted, that every entry leads to the root, makes the two equal.    *)
(***************************************************************************)
EXTENDS AccessRights, AppRequests, FiniteSetTheorems, SequenceTheorems, TLAPS

Places == Items \cup {DriveRoot}

\* A set of places that holds the folder of each of its members.
Closed(S, up) == \A j \in S \ {DriveRoot} : up[j] \in S

\* What i sits in: the least closed set it is in.
Over(up, i) == {x \in Places : \A S \in SUBSET Places : i \in S /\ Closed(S, up) => x \in S}

\* Every entry leads up to the root, so no folder is below itself.
Rooted(up) == \A i \in Items : DriveRoot \in Over(up, i)

Parents == [i \in Items |-> item[i].parent]

-----------------------------------------------------------------------------
(* Closed sets. *)

\* Over is a set of places that holds i.
LEMMA OverType ==
    ASSUME NEW up, NEW i \in Places
    PROVE  Over(up, i) \subseteq Places /\ i \in Over(up, i)
BY DEF Over

\* It is closed.
LEMMA OverClosed ==
    ASSUME NEW up \in [Items -> Places], NEW i \in Places
    PROVE  Closed(Over(up, i), up)
<1> SUFFICES ASSUME NEW j \in Over(up, i) \ {DriveRoot} PROVE up[j] \in Over(up, i)
  BY DEF Closed
<1>1. j \in Items /\ up[j] \in Places
  BY DEF Over, Places
<1>2. ASSUME NEW S \in SUBSET Places, i \in S, Closed(S, up) PROVE up[j] \in S
  BY <1>2 DEF Over, Closed
<1> QED BY <1>1, <1>2 DEF Over

\* It is the least such set.
LEMMA OverLeast ==
    ASSUME NEW up, NEW i, NEW S \in SUBSET Places, i \in S, Closed(S, up)
    PROVE  Over(up, i) \subseteq S
BY DEF Over

\* The equation of Enclosing.
LEMMA OverEquation ==
    ASSUME NEW up \in [Items -> Places]
    PROVE  /\ Over(up, DriveRoot) = {DriveRoot}
           /\ \A i \in Items : i # DriveRoot => Over(up, i) = {i} \cup Over(up, up[i])
<1>0. DriveRoot \in Places
  BY DEF Places
<1>1. Over(up, DriveRoot) = {DriveRoot}
  <2>1. Closed({DriveRoot}, up)
    BY DEF Closed
  <2>2. Over(up, DriveRoot) \subseteq {DriveRoot}
    BY <1>0, <2>1, OverLeast
  <2> QED BY <1>0, <2>2, OverType
<1>2. ASSUME NEW i \in Items, i # DriveRoot PROVE Over(up, i) = {i} \cup Over(up, up[i])
  <2>0. i \in Places /\ up[i] \in Places
    BY DEF Places
  <2> DEFINE S == {i} \cup Over(up, up[i])
  <2>1. S \in SUBSET Places /\ i \in S /\ up[i] \in Over(up, up[i])
    BY <2>0, OverType
  <2>2. Closed(Over(up, up[i]), up)
    BY <2>0, OverClosed
  <2>3. Closed(S, up)
    BY <2>1, <2>2 DEF Closed
  <2>4. Over(up, i) \subseteq S
    BY <2>1, <2>3, OverLeast
  <2>5. i \in Over(up, i) /\ Closed(Over(up, i), up) /\ Over(up, i) \in SUBSET Places
    BY <2>0, OverType, OverClosed
  <2>6. up[i] \in Over(up, i)
    BY <1>2, <2>5 DEF Closed
  <2>7. Over(up, up[i]) \subseteq Over(up, i)
    BY <2>5, <2>6, OverLeast
  <2> QED BY <2>4, <2>5, <2>7
<1> QED BY <1>1, <1>2

\* What a place sits in sits in whatever that sits in.
LEMMA OverTransitive ==
    ASSUME NEW up \in [Items -> Places], NEW i \in Places, NEW j \in Over(up, i)
    PROVE  Over(up, j) \subseteq Over(up, i)
BY OverType, OverClosed, OverLeast

\* Of two places above one, one is above the other.
LEMMA OverLinear ==
    ASSUME NEW up \in [Items -> Places], DriveRoot \notin Items, NEW i \in Places,
           NEW f \in Over(up, i), NEW h \in Over(up, i)
    PROVE  f \in Over(up, h) \/ h \in Over(up, f)
<1> DEFINE S == {x \in Places : f \in Over(up, x) \/ x \in Over(up, f)}
<1>1. f \in Places /\ h \in Places
  BY OverType
<1>2. ASSUME NEW x \in S, x # DriveRoot PROVE up[x] \in S
  <2>1. x \in Items /\ up[x] \in Places
    BY <1>2 DEF Places
  <2>2. CASE x \in Over(up, f)
    BY <1>1, <1>2, <2>1, <2>2, OverClosed DEF Closed
  <2>3. CASE f \in Over(up, x) /\ x # f
    <3>1. Over(up, x) = {x} \cup Over(up, up[x])
      BY <1>2, <2>1, OverEquation
    <3> QED BY <2>1, <2>3, <3>1
  <2>4. CASE x = f
    BY <1>1, <2>2, <2>4, OverType
  <2> QED BY <1>2, <2>2, <2>3, <2>4
<1>3. i \in S /\ S \in SUBSET Places /\ Closed(S, up)
  BY <1>2 DEF Closed
<1> HIDE DEF S
<1>4. h \in S
  BY <1>3, OverLeast
<1> QED BY <1>4 DEF S

\* A set that every place leads out of when it leads out of the next one
\* misses none: the induction along the tree.
LEMMA RootedInduction ==
    ASSUME NEW up \in [Items -> Places], Rooted(up), NEW S, DriveRoot \in S,
           \A i \in Items : up[i] \in S => i \in S
    PROVE  Places \subseteq S
<1> SUFFICES ASSUME NEW i \in Items, i \notin S PROVE FALSE
  BY DEF Places
<1> DEFINE T == {x \in Places : x \notin S}
<1>1. T \in SUBSET Places /\ i \in T
  BY DEF Places
<1>2. Closed(T, up)
  BY DEF Closed, Places
<1> HIDE DEF T
<1>3. DriveRoot \in T
  BY <1>1, <1>2, OverLeast DEF Rooted
<1> QED BY <1>3 DEF T

\* Where an entry is moved to does not sit in it, so all still leads to the root.
LEMMA RootedAfterMove ==
    ASSUME NEW up \in [Items -> Places], Rooted(up), DriveRoot \notin Items,
           NEW i \in Items, NEW p \in Places, i \notin Over(up, p)
    PROVE  Rooted([up EXCEPT ![i] = p])
<1> DEFINE new == [up EXCEPT ![i] = p]
<1>1. new[i] = p /\ \A x \in Items \ {i} : new[x] = up[x]
  OBVIOUS
<1> HIDE DEF new
<1> SUFFICES ASSUME NEW j \in Items, NEW S \in SUBSET Places, j \in S, Closed(S, new)
             PROVE  DriveRoot \in S
  BY DEF Rooted, Over, Places, new
<1>2. CASE i \notin S
  <2>1. Closed(S, up)
    BY <1>1, <1>2 DEF Closed, Places
  <2> QED BY <2>1, OverLeast DEF Rooted
<1>3. CASE i \in S
  <2> DEFINE T == {x \in S : i \notin Over(up, x)}
  <2>1. p \in T
    BY <1>1, <1>3 DEF Closed
  <2>2. ASSUME NEW x \in T, x # DriveRoot PROVE up[x] \in T
    <3>1. x \in Items /\ x # i /\ up[x] \in Places
      BY <2>2, OverType DEF Places
    <3>2. up[x] \in S
      BY <1>1, <2>2, <3>1 DEF Closed
    <3>3. Over(up, x) = {x} \cup Over(up, up[x])
      BY <2>2, <3>1, OverEquation
    <3> QED BY <3>2, <3>3
  <2>3. Closed(T, up) /\ T \in SUBSET Places
    BY <2>2 DEF Closed
  <2> HIDE DEF T
  <2>4. p = DriveRoot => DriveRoot \in T
    BY <2>1
  <2>5. p # DriveRoot => DriveRoot \in T
    BY <2>1, <2>3, OverLeast DEF Rooted, Places
  <2> QED BY <2>4, <2>5 DEF T
<1> QED BY <1>2, <1>3

-----------------------------------------------------------------------------
(* Enclosing. *)

\* Where every entry leads to the root, Enclosing has one value, which is Over.
LEMMA AboveIsOver ==
    ASSUME Parents \in [Items -> Places], Rooted(Parents), DriveRoot \notin Items
    PROVE  \A i \in Places : Enclosing[i] = Over(Parents, i)
<1> DEFINE Equation(F) ==
      F = [i \in Items \cup {DriveRoot} |->
              {i} \cup (IF i = DriveRoot THEN {} ELSE F[item[i].parent])]
<1>0. /\ Over(Parents, DriveRoot) = {DriveRoot}
      /\ \A i \in Items : Over(Parents, i) = {i} \cup Over(Parents, item[i].parent)
  BY OverEquation DEF Parents
<1>1. Equation([i \in Items \cup {DriveRoot} |-> Over(Parents, i)])
  <2> DEFINE G == [i \in Items \cup {DriveRoot} |-> Over(Parents, i)]
  <2>1. ASSUME NEW i \in Items \cup {DriveRoot}
        PROVE  G[i] = {i} \cup (IF i = DriveRoot THEN {} ELSE G[item[i].parent])
    <3>1. i # DriveRoot => item[i].parent \in Items \cup {DriveRoot}
      BY DEF Parents, Places
    <3> QED BY <1>0, <3>1
  <2> QED BY <2>1
<1>2. Equation(Enclosing)
  <2>1. Enclosing = CHOOSE F : Equation(F)
    BY DEF Enclosing
  <2> HIDE DEF Equation
  <2> QED BY <1>1, <2>1
<1>3. /\ Enclosing[DriveRoot] = {DriveRoot}
      /\ \A i \in Items : Enclosing[i] = {i} \cup Enclosing[Parents[i]]
  BY <1>2 DEF Parents
<1> DEFINE S == {i \in Places : Enclosing[i] = Over(Parents, i)}
<1>4. DriveRoot \in S
  BY <1>0, <1>3 DEF Places
<1>5. \A i \in Items : Parents[i] \in S => i \in S
  BY ZenonT(40), <1>0, <1>3 DEF Places, Parents
<1> HIDE DEF S
<1>6. Places \subseteq S
  BY <1>4, <1>5, RootedInduction
<1> QED BY <1>6 DEF S

-----------------------------------------------------------------------------
(* The invariant. *)

\* The types of the rows.  Parents of what has been made are folders, and what
\* is not made yet is nobody's.
RowsTyped ==
    /\ driveOwner \in Owners
    /\ item \in [Items -> [parent : Places, kind : {"none", "file", "folder"},
                           owner : People \cup {Nobody}, batch : Places]]
    /\ \A i \in Made : /\ item[i].parent \in Folders \cup {DriveRoot}
                       /\ item[i].owner \in People
                       /\ item[i].batch \in Made \cup {DriveRoot}
    /\ \A i \in Items \ Made : item[i] = Absent

\* One share for an entry and a principal.
SharesTyped ==
    /\ \A g \in shares : g.on \in Made /\ g.principal \in People /\ g.access \in Accesses
    /\ \A g, h \in shares : g.on = h.on /\ g.principal = h.principal => g = h

\* What is live lies in live folders, and what went to the bin in a batch lies
\* in a folder of that batch, unless it is what was binned.
BatchesClosed ==
    \A i \in Made : i # item[i].batch /\ item[i].parent # DriveRoot =>
        item[item[i].parent].batch = item[i].batch

AccessInductive == RowsTyped /\ SharesTyped /\ BatchesClosed /\ Rooted(Parents)

\* What the invariant says of the tree in terms of the specification.
LEMMA TreeFacts ==
    ASSUME AccessInductive
    PROVE  /\ DriveRoot \notin Items /\ Parents \in [Items -> Places]
           /\ \A i \in Items : Parents[i] = item[i].parent
           /\ \A i \in Places : Enclosing[i] = Over(Parents, i) /\ Enclosing[i] \subseteq Places
           /\ \A i \in Items : Enclosing[i] = {i} \cup Enclosing[item[i].parent]
           /\ Enclosing[DriveRoot] = {DriveRoot}
<1>1. DriveRoot \notin Items /\ Parents \in [Items -> Places] /\ Rooted(Parents)
  BY AccessAssumption DEF AccessInductive, RowsTyped, Parents
<1>2. \A i \in Places : Enclosing[i] = Over(Parents, i) /\ Over(Parents, i) \subseteq Places
  BY <1>1, AboveIsOver, OverType
<1>3. \A i \in Items : i \in Places /\ i # DriveRoot /\ item[i].parent \in Places
                       /\ Parents[i] = item[i].parent
  BY <1>1 DEF Parents, Places
<1>4. DriveRoot \in Places /\ Over(Parents, DriveRoot) = {DriveRoot}
      /\ \A i \in Items : Over(Parents, i) = {i} \cup Over(Parents, item[i].parent)
  <2>1. \A i \in Items : i # DriveRoot => Over(Parents, i) = {i} \cup Over(Parents, Parents[i])
    BY <1>1, OverEquation
  <2> QED BY <1>1, <1>3, <2>1, OverEquation DEF Places
<1> QED BY <1>1, <1>2, <1>3, <1>4

\* What a live entry sits in: live folders, and the root.
LEMMA LiveAbove ==
    ASSUME AccessInductive, NEW i \in Live, NEW f \in Enclosing[i], f # i
    PROVE  f = DriveRoot \/ f \in Live \cap Folders
<1> DEFINE S == {i, DriveRoot} \cup (Live \cap Folders)
<1>0. RowsTyped /\ BatchesClosed /\ Live \subseteq Made /\ Made \subseteq Items
  BY DEF AccessInductive, Live, Made
<1>1. S \in SUBSET Places /\ i \in S /\ i \in Places
  BY <1>0 DEF Places, Folders
<1>2. ASSUME NEW j \in Live PROVE item[j].parent \in {DriveRoot} \cup (Live \cap Folders)
  <2>1. j \in Made /\ j # item[j].batch /\ item[j].batch = DriveRoot
    BY <1>0, TreeFacts DEF Live
  <2>2. item[j].parent # DriveRoot => item[item[j].parent].batch = DriveRoot
    BY <1>0, <2>1 DEF BatchesClosed
  <2> QED BY <1>0, <2>1, <2>2 DEF RowsTyped, Live, Folders
<1>3. Closed(S, Parents)
  <2> SUFFICES ASSUME NEW j \in Live PROVE Parents[j] \in S
    BY DEF Closed
  <2> QED BY <1>0, <1>2, TreeFacts
<1> HIDE DEF S
<1>4. f \in S
  BY <1>1, <1>3, OverLeast, TreeFacts
<1> QED BY <1>4 DEF S

\* Whoever has the rights of an owner, or made an entry or a folder it is in,
\* or was given something there, may read it, and nobody else.
LEMMA ReadRule ==
    ASSUME NEW c \in People, NEW i \in Items, DriveRoot \notin Items
    PROVE  Allows(c, i, "read") <=> \/ HasOwnerRights(c) \/ item[i].owner \in Creators(c)
                                    \/ OwnsContainingFolder(c, i) \/ RelevantGrants(c, i) # {}
<1>1. Allows(c, i, "read") <=>
        \/ HasOwnerRights(c) \/ item[i].owner \in Creators(c) \/ OwnsContainingFolder(c, i)
        \/ "read" \in UNION {FromGrant(g) : g \in RelevantGrants(c, i)}
  BY DEF Allows, Capabilities, ForKind, AllRights, OwnerOf
<1>2. "read" \in UNION {FromGrant(g) : g \in RelevantGrants(c, i)} <=> RelevantGrants(c, i) # {}
  BY DEF FromGrant
<1> QED BY <1>1, <1>2

\* The custodian of a Silicon is the creator of what the Silicon made.
LEMMA CreatorRule ==
    ASSUME NEW c, NEW a \in People
    PROVE  a \in Creators(c) <=> a = c \/ CustodianOf[a] = c
BY DEF Creators

\* The invariant gives the agreement of SQL and policy.
LEMMA PrefiltersFollow == AccessInductive => PrefiltersAgree
<1> SUFFICES ASSUME AccessInductive PROVE PrefiltersAgree
  OBVIOUS
<1>0. RowsTyped /\ Live \subseteq Made /\ Made \subseteq Items /\ DriveRoot \notin Items
  BY TreeFacts DEF AccessInductive, Live, Made
<1>1. ASSUME NEW c \in People, NEW i \in Live PROVE Allows(c, i, "read") <=> SearchFinds(c, i)
  BY <1>0, ReadRule DEF SearchFinds, SearchFindsOwn
<1>2. ASSUME NEW c \in People, NEW i \in Live PROVE Allows(c, i, "read") <=> AccessibleTo(c, i)
  <2>1. i \in Items /\ i # DriveRoot /\ item[i].owner \in People
    BY <1>0 DEF RowsTyped
  <2>2. item[i].owner \in Creators(c) <=> item[i].owner = c \/ CustodianOf[item[i].owner] = c
    BY <2>1, CreatorRule
  <2>3. ASSUME NEW f \in Enclosing[i] \ {i, DriveRoot}, item[f].kind = "folder"
        PROVE  item[f].owner \in Creators(c) <=> item[f].owner = c \/ CustodianOf[item[f].owner] = c
    <3>1. f \in Made
      BY <2>1, <2>3, TreeFacts DEF Made, Places
    <3> QED BY <1>0, <3>1, CreatorRule DEF RowsTyped
  <2> QED BY <2>1, <2>2, <2>3, <1>0, ReadRule
          DEF AccessibleTo, HasOwnerRights, OwnsContainingFolder
<1>3. ASSUME NEW c \in People, NEW i \in BinRoots, Allows(c, i, "delete") PROVE SqlMayChange(c, i)
  <2>1. i \in Items /\ i # DriveRoot
    BY <1>0 DEF BinRoots
  <2>2. "delete" \notin UNION {FromGrant(g) : g \in RelevantGrants(c, i)}
    BY DEF FromGrant
  <2> QED BY <1>3, <2>1, <2>2 DEF Allows, Capabilities, ForKind, AllRights, OwnerOf, SqlMayChange
<1> QED BY <1>1, <1>2, <1>3 DEF PrefiltersAgree

\* The invariant makes what may be read reachable.
LEMMA ReadableFollows == AccessInductive => ReadableIsReachable
<1> SUFFICES ASSUME AccessInductive, NEW c \in People, NEW i \in Live, Allows(c, i, "read"),
                    NEW f \in Enclosing[i]
             PROVE  Visibility(c, f) # "hidden"
  BY DEF ReadableIsReachable
<1>0. /\ RowsTyped /\ Live \subseteq Made /\ Made \subseteq Items /\ DriveRoot \notin Items
      /\ i \in Places /\ f \in Places
  BY TreeFacts DEF AccessInductive, Live, Made, Places
<1>1. CASE f = i \/ HasOwnerRights(c)
  <2>1. HasOwnerRights(c) => Allows(c, f, "read")
    BY DEF Allows, Capabilities, ForKind, AllRights
  <2> QED BY <1>1, <2>1 DEF Visibility
<1>2. CASE f # i /\ ~HasOwnerRights(c)
  <2>1. IsFolder(f) /\ (f = DriveRoot \/ f \in Live)
    BY <1>2, LiveAbove DEF IsFolder
  <2>2. ASSUME NEW j \in Within(f) \cap Live, item[j].owner \in Creators(c) \/ RelevantGrants(c, j) # {}
        PROVE  Visibility(c, f) # "hidden"
    BY <1>2, <2>1, <2>2 DEF Visibility, HasVisibleDescendant
  <2>3. i \in Within(f)
    BY <1>0, <1>2 DEF Within
  <2>4. CASE item[i].owner \in Creators(c) \/ RelevantGrants(c, i) # {}
    BY <2>2, <2>3, <2>4
  <2>5. CASE OwnsContainingFolder(c, i)
    <3>1. PICK h \in Enclosing[i] \ {i, DriveRoot} : item[h].kind = "folder" /\ item[h].owner \in Creators(c)
      BY <2>5 DEF OwnsContainingFolder
    <3>2. h \in Live /\ h \in Items
      BY <1>0, <3>1, LiveAbove
    <3>3. CASE f \in Enclosing[h] /\ f # h
      BY <1>0, <2>2, <3>1, <3>2, <3>3 DEF Within
    <3>4. CASE f = h
      BY <1>0, <3>1, <3>2, <3>4, ReadRule DEF Visibility
    <3>5. CASE h \in Enclosing[f] /\ f # h
      <4>1. f \in Items
        BY <1>0, <3>1, <3>5, TreeFacts DEF Places
      <4>2. OwnsContainingFolder(c, f)
        BY <3>1, <3>5 DEF OwnsContainingFolder
      <4> QED BY <1>0, <4>1, <4>2, ReadRule DEF Visibility
    <3>6. f \in Enclosing[h] \/ h \in Enclosing[f]
      <4>1. h \in Places
        BY <3>2 DEF Places
      <4> QED BY <1>0, <3>1, <4>1, TreeFacts, OverLinear
    <3> QED BY <3>3, <3>4, <3>5, <3>6
  <2> QED BY <1>0, <1>2, <2>4, <2>5, ReadRule
<1> QED BY <1>1, <1>2

\* A folder shown only to be passed through leads to an entry that may be read.
LEMMA TraversalFollows == AccessInductive => TraversalLeadsSomewhere
<1> SUFFICES ASSUME AccessInductive, NEW c \in People, NEW f \in Live \cup {DriveRoot},
                    Visibility(c, f) = "traversal"
             PROVE  \E i \in Within(f) \cap Live : Allows(c, i, "read")
  BY DEF TraversalLeadsSomewhere
<1>1. HasVisibleDescendant(c, f)
  BY DEF Visibility
<1>2. PICK j \in Within(f) \cap Live : item[j].owner \in Creators(c) \/ RelevantGrants(c, j) # {}
  BY <1>1 DEF HasVisibleDescendant
<1>3. j \in Items /\ DriveRoot \notin Items
  BY TreeFacts DEF Live, Made
<1> QED BY <1>2, <1>3, ReadRule

-----------------------------------------------------------------------------
(* The invariant holds at the start, and every operation keeps it. *)

\* Nothing is made yet, and everything to come hangs from the root.
LEMMA AccessStart == AccessInit => AccessInductive
<1> SUFFICES ASSUME AccessInit PROVE AccessInductive
  OBVIOUS
<1>1. Made = {}
  BY DEF AccessInit, Made, Absent
<1>2. item \in [Items -> [parent : Places, kind : {"none", "file", "folder"},
                          owner : People \cup {Nobody}, batch : Places]]
  BY DEF AccessInit, Absent, Places
<1>3. RowsTyped /\ SharesTyped /\ BatchesClosed
  BY <1>1, <1>2 DEF AccessInit, RowsTyped, SharesTyped, BatchesClosed
<1>4. \A i \in Items : Parents[i] = DriveRoot
  BY DEF AccessInit, Absent, Parents
<1>5. Rooted(Parents)
  BY <1>4, AccessAssumption DEF Rooted, Over, Closed, Places
<1> QED BY <1>3, <1>5 DEF AccessInductive

\* What is put below a place that does not sit in it leaves a tree.
LEMMA TreeAfterMove ==
    ASSUME AccessInductive, NEW i \in Items, NEW p \in Places, i \notin Enclosing[p],
           item' \in [Items -> [parent : Places, kind : {"none", "file", "folder"},
                                owner : People \cup {Nobody}, batch : Places]],
           item'[i].parent = p,
           \A j \in Items \ {i} : item'[j].parent = item[j].parent
    PROVE  Rooted(Parents')
<1>1. Parents' = [Parents EXCEPT ![i] = p]
  <2>1. Parents' = [j \in Items |-> item'[j].parent] /\ DOMAIN Parents = Items
    BY DEF Parents
  <2> QED BY <2>1 DEF Parents
<1>2. /\ Parents \in [Items -> Places] /\ Rooted(Parents) /\ DriveRoot \notin Items
      /\ i \notin Over(Parents, p)
  BY TreeFacts DEF AccessInductive
<1> HIDE DEF Parents
<1> QED BY <1>1, <1>2, RootedAfterMove

\* An unmade entry has nothing below it.
LEMMA UnmadeIsLeaf ==
    ASSUME AccessInductive, NEW i \in Items \ Made, NEW p \in Made \cup {DriveRoot}
    PROVE  i \notin Enclosing[p]
<1> DEFINE S == Made \cup {DriveRoot}
<1>1. S \in SUBSET Places /\ p \in S /\ p \in Places /\ Made \subseteq Items
  BY DEF Made, Places
<1>2. Closed(S, Parents)
  BY <1>1, TreeFacts DEF Closed, AccessInductive, RowsTyped, Folders
<1>3. Over(Parents, p) \subseteq S
  BY <1>1, <1>2, OverLeast
<1> QED BY <1>1, <1>3, TreeFacts

\* A new entry is live, below a live folder.
LEMMA CreateKeepsRights ==
    ASSUME AccessInductive, NEW c \in People, NEW parent \in Items \cup {DriveRoot}, Create(c, parent)
    PROVE  AccessInductive'
<1>1. PICK i \in Items \ Made, kind \in {"file", "folder"} :
        item' = [item EXCEPT ![i] = [parent |-> parent, kind |-> kind, owner |-> c, batch |-> DriveRoot]]
  BY DEF Create
<1> DEFINE row == [parent |-> parent, kind |-> kind, owner |-> c, batch |-> DriveRoot]
<1>0. /\ RowsTyped /\ SharesTyped /\ BatchesClosed
      /\ item \in [Items -> [parent : Places, kind : {"none", "file", "folder"},
                             owner : People \cup {Nobody}, batch : Places]]
      /\ DriveRoot \notin Items /\ parent \in Places /\ Made \subseteq Items
      /\ driveOwner' = driveOwner /\ shares' = shares
  BY TreeFacts DEF AccessInductive, RowsTyped, Create, Places, Made
<1>2. /\ item'[i] = row /\ \A j \in Items \ {i} : item'[j] = item[j]
      /\ item' \in [Items -> [parent : Places, kind : {"none", "file", "folder"},
                              owner : People \cup {Nobody}, batch : Places]]
  BY <1>0, <1>1 DEF Places
<1>3. row.parent = parent /\ row.kind = kind /\ row.owner = c /\ row.batch = DriveRoot
  OBVIOUS
<1> HIDE DEF row
<1>4. Made' = Made \cup {i} /\ Folders \subseteq Folders' /\ Folders \subseteq Made
  <2>1. Made' = Made \cup {i}
    BY <1>2, <1>3 DEF Made
  <2> QED BY <1>0, <1>2, <2>1 DEF Folders
<1>5. parent # i /\ (parent # DriveRoot => parent \in Folders /\ item[parent].batch = DriveRoot)
  BY <1>0, <1>1 DEF Create, Live, IsFolder, Folders
<1>6. RowsTyped'
  <2>1. ASSUME NEW j \in Made' PROVE item'[j].parent \in Folders' \cup {DriveRoot}
                                     /\ item'[j].owner \in People
                                     /\ item'[j].batch \in Made' \cup {DriveRoot}
    <3>1. CASE j = i
      BY <1>2, <1>3, <1>4, <1>5, <3>1
    <3>2. CASE j # i
      BY <1>0, <1>2, <1>4, <2>1, <3>2 DEF RowsTyped
    <3> QED BY <3>1, <3>2
  <2>2. \A j \in Items \ Made' : item'[j] = Absent
    BY <1>0, <1>2, <1>4 DEF RowsTyped
  <2> QED BY <1>0, <1>2, <2>1, <2>2 DEF RowsTyped, Absent
<1>7. SharesTyped'
  BY <1>0, <1>4 DEF SharesTyped
<1>8. BatchesClosed'
  <2> SUFFICES ASSUME NEW j \in Made', j # item'[j].batch, item'[j].parent # DriveRoot
               PROVE  item'[item'[j].parent].batch = item'[j].batch
    BY DEF BatchesClosed
  <2>1. CASE j = i
    BY <1>0, <1>2, <1>3, <1>4, <1>5, <2>1
  <2>2. CASE j # i
    <3>1. j \in Made /\ item'[j] = item[j] /\ item[j].parent \in Folders
      BY <1>0, <1>2, <1>4, <2>2 DEF RowsTyped
    <3>2. item[j].parent # i
      BY <1>1, <1>4, <3>1
    <3> QED BY <1>0, <1>2, <1>4, <3>1, <3>2 DEF BatchesClosed
  <2> QED BY <2>1, <2>2
<1>9. Rooted(Parents')
  <2>1. i \notin Enclosing[parent]
    BY <1>0, <1>1, <1>4, <1>5, UnmadeIsLeaf
  <2> QED BY <1>0, <1>2, <1>3, <2>1, TreeAfterMove
<1> QED BY <1>6, <1>7, <1>8, <1>9 DEF AccessInductive

\* Shares come and go without the tree.
LEMMA SharingKeepsRights ==
    ASSUME AccessInductive, item' = item, driveOwner' = driveOwner, SharesTyped'
    PROVE  AccessInductive'
BY DEF AccessInductive, RowsTyped, BatchesClosed, Parents, Made, Folders

\* A share is of a live entry and replaces that of the same principal.
LEMMA GrantKeepsRights ==
    ASSUME AccessInductive, NEW c \in People, NEW i \in Items,
           GrantPermission(c, i) \/ \E g \in shares : RevokePermission(c, g)
    PROVE  AccessInductive'
<1>0. SharesTyped /\ item' = item /\ driveOwner' = driveOwner /\ Made' = Made
  BY DEF AccessInductive, GrantPermission, RevokePermission, Made
<1>1. CASE GrantPermission(c, i)
  <2>1. PICK principal \in People, access \in Accesses, inherits \in BOOLEAN :
          shares' = {g \in shares : ~(g.on = i /\ g.principal = principal)}
                      \cup {[on |-> i, principal |-> principal,
                             access |-> access, inherits |-> inherits]}
    BY <1>1 DEF GrantPermission
  <2> DEFINE new == [on |-> i, principal |-> principal, access |-> access, inherits |-> inherits]
  <2>2. new.on = i /\ new.principal = principal /\ new.access = access
    OBVIOUS
  <2>3. \A g \in shares' : g = new \/ (g \in shares /\ ~(g.on = i /\ g.principal = principal))
    BY <2>1
  <2> HIDE DEF new
  <2>4. i \in Made
    BY <1>1 DEF GrantPermission, Live
  <2>5. SharesTyped'
    BY <1>0, <2>2, <2>3, <2>4 DEF SharesTyped
  <2> QED BY <1>0, <2>5, SharingKeepsRights
<1>2. CASE \E g \in shares : RevokePermission(c, g)
  <2>1. SharesTyped'
    BY <1>0, <1>2 DEF RevokePermission, SharesTyped
  <2> QED BY <1>0, <2>1, SharingKeepsRights
<1> QED BY <1>1, <1>2

\* A live entry goes to a live folder that is not in it.
LEMMA MoveKeepsRights ==
    ASSUME AccessInductive, NEW c \in People, NEW i \in Items, Move(c, i)
    PROVE  AccessInductive'
<1>1. PICK p \in ((Folders \cap Live) \cup {DriveRoot}) \ (Subtree(i) \cup {item[i].parent}) :
        item' = [item EXCEPT ![i].parent = p]
  BY DEF Move
<1>0. /\ RowsTyped /\ SharesTyped /\ BatchesClosed
      /\ item \in [Items -> [parent : Places, kind : {"none", "file", "folder"},
                             owner : People \cup {Nobody}, batch : Places]]
      /\ DriveRoot \notin Items /\ Made \subseteq Items /\ i \in Live /\ i \in Made
      /\ driveOwner' = driveOwner /\ shares' = shares
  BY TreeFacts DEF AccessInductive, RowsTyped, Move, Live, Made
<1>2. p \in Places /\ p # i /\ (p # DriveRoot => p \in Folders /\ item[p].batch = DriveRoot)
  BY <1>0, <1>1 DEF Places, Live, Subtree
<1>3. /\ item' \in [Items -> [parent : Places, kind : {"none", "file", "folder"},
                              owner : People \cup {Nobody}, batch : Places]]
      /\ item'[i].parent = p /\ item'[i].kind = item[i].kind /\ item'[i].owner = item[i].owner
      /\ item'[i].batch = item[i].batch
      /\ \A j \in Items \ {i} : item'[j] = item[j]
  BY <1>0, <1>1, <1>2
<1>4. Made' = Made /\ Folders' = Folders
  BY <1>0, <1>3 DEF Made, Folders
<1>5. RowsTyped'
  <2>1. \A j \in Made : item'[j].parent \in Folders \cup {DriveRoot}
                        /\ item'[j].owner \in People
                        /\ item'[j].batch \in Made \cup {DriveRoot}
    BY <1>0, <1>2, <1>3 DEF RowsTyped
  <2>2. \A j \in Items \ Made : item'[j] = Absent
    BY <1>0, <1>3 DEF RowsTyped
  <2> QED BY <1>0, <1>3, <1>4, <2>1, <2>2 DEF RowsTyped, Absent
<1>6. SharesTyped'
  BY <1>0, <1>4 DEF SharesTyped
<1>7. BatchesClosed'
  <2> SUFFICES ASSUME NEW j \in Made, j # item'[j].batch, item'[j].parent # DriveRoot
               PROVE  item'[item'[j].parent].batch = item'[j].batch
    BY <1>4 DEF BatchesClosed
  <2>1. \A x \in Items : item'[x].batch = item[x].batch
    BY <1>3
  <2>2. CASE j = i
    BY <1>0, <1>2, <1>3, <2>1, <2>2 DEF Live, Folders
  <2>3. CASE j # i
    <3>1. item'[j] = item[j] /\ item[j].parent \in Items
      BY <1>0, <1>3, <2>3 DEF Places
    <3> QED BY <1>0, <2>1, <3>1 DEF BatchesClosed
  <2> QED BY <2>2, <2>3
<1>8. i \notin Enclosing[p]
  BY <1>0, <1>1, <1>2, TreeFacts DEF Subtree, Within, Folders
<1>9. Rooted(Parents')
  BY <1>0, <1>2, <1>3, <1>8, TreeAfterMove
<1> QED BY <1>5, <1>6, <1>7, <1>9 DEF AccessInductive

\* The subtree of an entry holds what lies in its folders.
LEMMA SubtreeClosed ==
    ASSUME AccessInductive, NEW i \in Made, NEW j \in Made, j # i
    PROVE  j \in Subtree(i) <=> item[j].parent \in Subtree(i)
<1>1. /\ DriveRoot \notin Items /\ Made \subseteq Items /\ Enclosing[DriveRoot] = {DriveRoot}
      /\ Enclosing[j] = {j} \cup Enclosing[item[j].parent]
      /\ item[j].parent \in Made \cup {DriveRoot}
      /\ \A x \in Made : x \in Enclosing[x]
  BY TreeFacts DEF AccessInductive, RowsTyped, Made, Folders
<1>2. j \in Subtree(i) <=> i \in Enclosing[j]
  BY DEF Subtree, Within
<1>3. item[j].parent \in Subtree(i) <=> i \in Enclosing[item[j].parent]
  BY <1>1 DEF Subtree, Within
<1> QED BY <1>1, <1>2, <1>3

\* The bin and back: batches change, and at most the parent of one entry.
LEMMA BatchesKeepRights ==
    ASSUME AccessInductive, NEW i \in Made,
           NEW p \in Folders \cup {DriveRoot}, p = item[i].parent \/ i \notin Enclosing[p],
           item' \in [Items -> [parent : Places, kind : {"none", "file", "folder"},
                                owner : People \cup {Nobody}, batch : Places]],
           item'[i].parent = p, \A j \in Items \ {i} : item'[j].parent = item[j].parent,
           \A j \in Items : item'[j].kind = item[j].kind /\ item'[j].owner = item[j].owner,
           \A j \in Made : item'[j].batch \in Made \cup {DriveRoot},
           \A j \in Items \ Made : item'[j] = item[j],
           BatchesClosed', driveOwner' = driveOwner, shares' = shares
    PROVE  AccessInductive'
<1>0. /\ RowsTyped /\ SharesTyped /\ Made \subseteq Items /\ DriveRoot \notin Items
      /\ Made' = Made /\ Folders' = Folders
  BY TreeFacts DEF AccessInductive, Made, Folders
<1>1. RowsTyped'
  <2>1. \A j \in Made : item'[j].parent \in Folders \cup {DriveRoot}
                        /\ item'[j].owner \in People
    BY <1>0 DEF RowsTyped
  <2> QED BY <1>0, <2>1 DEF RowsTyped, Absent
<1>2. SharesTyped'
  BY <1>0 DEF SharesTyped
<1>3. Rooted(Parents')
  <2>1. CASE i \notin Enclosing[p]
    BY <1>0, <2>1, TreeAfterMove DEF Places, Folders
  <2>2. CASE p = item[i].parent
    <3>1. Parents' = Parents
      BY <1>0, <2>2 DEF Parents
    <3> QED BY <3>1 DEF AccessInductive
  <2> QED BY <2>1, <2>2
<1> QED BY <1>1, <1>2, <1>3 DEF AccessInductive

\* Everything live in a subtree joins the batch of what is binned.
LEMMA TrashKeepsRights ==
    ASSUME AccessInductive, NEW c \in People, NEW i \in Items, Trash(c, i)
    PROVE  AccessInductive'
<1>0. /\ RowsTyped /\ BatchesClosed /\ DriveRoot \notin Items /\ Made \subseteq Items
      /\ item \in [Items -> [parent : Places, kind : {"none", "file", "folder"},
                             owner : People \cup {Nobody}, batch : Places]]
      /\ i \in Live /\ i \in Made /\ driveOwner' = driveOwner /\ shares' = shares
      /\ item' = [j \in Items |-> IF j \in Subtree(i) \cap Live THEN [item[j] EXCEPT !.batch = i]
                                  ELSE item[j]]
  BY TreeFacts DEF AccessInductive, RowsTyped, Trash, MayTrash, Live, Made
<1>1. \A j \in Items :
        /\ item'[j] \in [parent : Places, kind : {"none", "file", "folder"},
                         owner : People \cup {Nobody}, batch : Places]
        /\ item'[j].parent = item[j].parent /\ item'[j].kind = item[j].kind
        /\ item'[j].owner = item[j].owner
        /\ j \in Subtree(i) \cap Live => item'[j].batch = i
        /\ j \notin Subtree(i) \cap Live => item'[j] = item[j]
  BY <1>0 DEF Places
<1>2. BatchesClosed'
  <2> SUFFICES ASSUME NEW j \in Made, j # item'[j].batch, item[j].parent # DriveRoot
               PROVE  item'[item[j].parent].batch = item'[j].batch
    BY <1>0, <1>1 DEF BatchesClosed, Made
  <2>1. j \in Items /\ j # DriveRoot /\ item[j].parent \in Made
    BY <1>0 DEF RowsTyped, Folders
  <2>2. CASE j \in Subtree(i) \cap Live
    <3>1. j # i /\ item'[j].batch = i
      BY <1>1, <2>1, <2>2
    <3>2. item[j].parent \in Subtree(i) \cap Live
      BY <1>0, <2>1, <2>2, <3>1, SubtreeClosed DEF BatchesClosed, Live
    <3> QED BY <1>0, <1>1, <2>1, <3>1, <3>2
  <2>3. CASE j \notin Subtree(i) \cap Live
    <3>1. item'[j].batch = item[j].batch /\ j # i
      BY <1>0, <1>1, <2>1, <2>3 DEF Subtree
    <3>2. item[item[j].parent].batch = item[j].batch
      BY <1>0, <2>1, <3>1 DEF BatchesClosed
    <3>3. item[j].parent \notin Subtree(i) \cap Live
      BY <1>0, <2>1, <2>3, <3>1, <3>2, SubtreeClosed DEF Live
    <3> QED BY <1>0, <1>1, <2>1, <3>1, <3>2, <3>3
  <2> QED BY <2>2, <2>3
<1>3. item' \in [Items -> [parent : Places, kind : {"none", "file", "folder"},
                           owner : People \cup {Nobody}, batch : Places]]
  BY <1>0, <1>1
<1>4. /\ item[i].parent \in Folders \cup {DriveRoot} /\ item'[i].parent = item[i].parent
      /\ \A j \in Items \ {i} : item'[j].parent = item[j].parent
      /\ \A j \in Made : item'[j].batch \in Made \cup {DriveRoot}
      /\ \A j \in Items \ Made : item'[j] = item[j]
  BY <1>0, <1>1 DEF RowsTyped, Live
<1> QED BY <1>0, <1>1, <1>2, <1>3, <1>4, BatchesKeepRights

\* A batch comes back whole, where it was or at the top.
LEMMA RestoreKeepsRights ==
    ASSUME AccessInductive, NEW c \in People, NEW i \in Items, Restore(c, i)
    PROVE  AccessInductive'
<1>1. PICK p \in RestoreParent(c, i) :
        item' = [j \in Items |->
            IF j = i THEN [item[j] EXCEPT !.batch = DriveRoot, !.parent = p]
            ELSE IF j \in Subtree(i) /\ item[j].batch = i THEN [item[j] EXCEPT !.batch = DriveRoot]
            ELSE item[j]]
  BY DEF Restore
<1>0. /\ RowsTyped /\ BatchesClosed /\ DriveRoot \notin Items /\ Made \subseteq Items
      /\ item \in [Items -> [parent : Places, kind : {"none", "file", "folder"},
                             owner : People \cup {Nobody}, batch : Places]]
      /\ i \in Made /\ item[i].batch = i /\ driveOwner' = driveOwner /\ shares' = shares
  BY TreeFacts DEF AccessInductive, RowsTyped, Restore, BinRoots, Made
<1>2. /\ p = DriveRoot \/ p \in Live \cap Folders
      /\ p = item[i].parent \/ p = DriveRoot
      /\ p \in Places
  <2>1. p \in {item[i].parent, DriveRoot} /\ (p # DriveRoot => p \in Live /\ Allows(c, p, "create"))
    BY <1>1 DEF RestoreParent
  <2>2. Allows(c, p, "create") => IsFolder(p)
    BY DEF Allows, Capabilities, ForKind
  <2>3. item[i].parent \in Folders \cup {DriveRoot} /\ Folders \subseteq Items
    BY <1>0 DEF RowsTyped, Folders
  <2> QED BY <2>1, <2>2, <2>3 DEF IsFolder, Places
<1>3. ASSUME NEW j \in Items
      PROVE  /\ item'[j] \in [parent : Places, kind : {"none", "file", "folder"},
                              owner : People \cup {Nobody}, batch : Places]
             /\ item'[j].parent = (IF j = i THEN p ELSE item[j].parent)
             /\ item'[j].kind = item[j].kind /\ item'[j].owner = item[j].owner
             /\ item'[j].batch = (IF j \in Subtree(i) /\ item[j].batch = i THEN DriveRoot ELSE item[j].batch)
             /\ j \notin Subtree(i) => item'[j] = item[j]
  <2>0. item[j] \in [parent : Places, kind : {"none", "file", "folder"},
                     owner : People \cup {Nobody}, batch : Places] /\ p \in Places /\ DriveRoot \in Places
    BY <1>0, <1>2 DEF Places, Folders
  <2>1. CASE j = i
    <3>1. item'[j] = [item[j] EXCEPT !.batch = DriveRoot, !.parent = p]
      BY <1>1, <2>1
    <3>2. item'[j] = [parent |-> p, kind |-> item[j].kind, owner |-> item[j].owner, batch |-> DriveRoot]
      BY <2>0, <3>1
    <3> QED BY <1>0, <2>0, <2>1, <3>2 DEF Subtree
  <2>2. CASE j # i /\ j \in Subtree(i) /\ item[j].batch = i
    <3>1. item'[j] = [item[j] EXCEPT !.batch = DriveRoot]
      BY <1>1, <2>2
    <3> QED BY <2>0, <2>2, <3>1
  <2>3. CASE j # i /\ ~(j \in Subtree(i) /\ item[j].batch = i)
    BY <1>1, <2>0, <2>3
  <2> QED BY <2>1, <2>2, <2>3
<1>4. BatchesClosed'
  <2> SUFFICES ASSUME NEW j \in Made, j # item'[j].batch, item'[j].parent # DriveRoot
               PROVE  item'[item'[j].parent].batch = item'[j].batch
    BY <1>0, <1>3 DEF BatchesClosed, Made
  <2>0. j \in Items /\ j # DriveRoot
    BY <1>0
  <2>1. CASE j = i
    <3>1. item'[j].batch = DriveRoot /\ item'[j].parent = p /\ p \in Items /\ item[p].batch = DriveRoot
      BY <1>0, <1>2, <1>3, <2>0, <2>1 DEF Subtree, Live
    <3> QED BY <1>0, <1>3, <3>1
  <2>2. CASE j # i
    <3>1. item'[j].parent = item[j].parent /\ item[j].parent \in Made
      BY <1>0, <1>3, <2>0, <2>2 DEF RowsTyped, Folders
    <3>2. item[j].batch = j => item'[j].batch = j
      BY <1>3, <2>0, <2>2
    <3>3. item[item[j].parent].batch = item[j].batch
      BY <1>0, <3>1, <3>2 DEF BatchesClosed
    <3>4. j \in Subtree(i) <=> item[j].parent \in Subtree(i)
      BY <1>0, <2>2, SubtreeClosed
    <3> QED BY <1>0, <1>3, <2>0, <3>1, <3>3, <3>4
  <2> QED BY <2>1, <2>2
<1>5. p \in Folders \cup {DriveRoot} /\ (p = item[i].parent \/ i \notin Enclosing[p])
  BY <1>0, <1>2, TreeFacts
<1>6. item' \in [Items -> [parent : Places, kind : {"none", "file", "folder"},
                           owner : People \cup {Nobody}, batch : Places]]
  <2>1. item' = [j \in Items |-> item'[j]]
    BY <1>1
  <2> QED BY <1>3, <2>1
<1>7. \A j \in Made : item'[j].batch \in Made \cup {DriveRoot}
  BY <1>0, <1>3 DEF RowsTyped
<1>8. \A j \in Items \ Made : j # i /\ item'[j] = item[j]
  BY <1>0, <1>3 DEF Subtree, Within
<1>9. item'[i].parent = p /\ \A j \in Items \ {i} : item'[j].parent = item[j].parent
  BY <1>0, <1>3
<1> QED BY <1>0, <1>3, <1>4, <1>5, <1>6, <1>7, <1>8, <1>9, BatchesKeepRights

\* Every operation keeps the invariant.
LEMMA AccessStep == AccessInductive /\ [AccessNext]_accessVars => AccessInductive'
<1> SUFFICES ASSUME AccessInductive, [AccessNext]_accessVars PROVE AccessInductive'
  OBVIOUS
<1>1. CASE UNCHANGED accessVars
  BY <1>1 DEF accessVars, AccessInductive, RowsTyped, SharesTyped, BatchesClosed, Parents,
              Made, Folders
<1>2. ASSUME NEW c \in People, NEW parent \in Items \cup {DriveRoot}, Create(c, parent)
      PROVE  AccessInductive'
  BY <1>2, CreateKeepsRights
<1>3. ASSUME NEW c \in People, NEW i \in Items, GrantPermission(c, i) PROVE AccessInductive'
  BY <1>3, GrantKeepsRights
<1>4. ASSUME NEW c \in People, NEW g \in shares, RevokePermission(c, g) PROVE AccessInductive'
  <2>1. g.on \in Items
    BY DEF AccessInductive, SharesTyped, Made
  <2> QED BY <1>4, <2>1, GrantKeepsRights
<1>5. ASSUME NEW c \in People, NEW i \in Items, Move(c, i) \/ Trash(c, i) \/ Restore(c, i)
      PROVE  AccessInductive'
  BY <1>5, MoveKeepsRights, TrashKeepsRights, RestoreKeepsRights
<1> QED BY <1>1, <1>2, <1>3, <1>4, <1>5 DEF AccessNext

\* The inductive invariant holds in every drive that the operations can make.
THEOREM AccessInvariant == AccessSpec => []AccessInductive
BY AccessStart, AccessStep, PTL DEF AccessSpec

\* Every drive has the rows that the schema allows: each entry in a folder,
\* with an owner, below the root, and one share for an entry and a principal.
THEOREM DriveTypeCorrect == AccessSpec => []AccessTypeOK
<1>1. AccessInductive => AccessTypeOK
  <2> SUFFICES ASSUME AccessInductive PROVE AccessTypeOK
    OBVIOUS
  <2>1. RowsTyped /\ SharesTyped /\ Rooted(Parents)
    BY DEF AccessInductive
  <2>2. \A i \in Made : DriveRoot \in Enclosing[i]
    BY <2>1, TreeFacts DEF Rooted, Made, Places
  <2> QED BY <2>1, <2>2 DEF AccessTypeOK, RowsTyped, SharesTyped
<1> QED BY <1>1, AccessInvariant, PTL

\* In every drive, what an account may read under domain policy is what the SQL
\* of searches and of `for:` conditions selects for it, and its bin has every
\* batch it may delete.
THEOREM PrefiltersAlwaysAgree == AccessSpec => []PrefiltersAgree
BY PrefiltersFollow, AccessInvariant, PTL

\* In every drive, what an account may read can be reached from the top of the
\* drive through folders it is shown, and a folder that is shown only to be
\* passed through leads to something it may read.
THEOREM TreeAlwaysNavigable == AccessSpec => []TreeIsNavigable
<1>1. AccessInductive => TreeIsNavigable
  BY ReadableFollows, TraversalFollows DEF TreeIsNavigable
<1> QED BY <1>1, AccessInvariant, PTL

-----------------------------------------------------------------------------
(* What other apps ask for.  Three parts: what the tables and the history of *)
(* effects say (an effect is remembered by the record of its operation until *)
(* that expires, a publication by its upload for ever), what a request on    *)
(* its way knows that stays true, and what has come out of it.               *)

UploadRows ==
    [stage : UploadStages, body : Bodies \cup {Nil}, parent : Issuers \cup AllEntries \cup {Nil},
     entry : AllEntries \cup {Nil}, number : Nat, bytes : Contents \cup {Nil}]
AppEffects ==
    [kind : Scopes, op : {b.op : b \in Bodies}, app : Issuers, body : Bodies, entry : AllEntries,
     folder : Issuers \cup {Nil}, theirs : BOOLEAN, granted : BOOLEAN, by : Issuers \cup {Nil}]

\* The variables that the other parts speak of have values of their types.
EntriesTyped ==
    /\ path \in [AllEntries -> AllPaths \cup {Nil}]
    /\ fate \in [AllEntries -> {"nowhere", "live", "bin"}]
    /\ madeBy \in [AllEntries -> Issuers \cup {Nil}]
    /\ \A e \in AllEntries : fate[e] # "nowhere" => path[e] \in AllPaths
    /\ menu \in DOMAIN Menus
UploadsTyped == upload \in [Issuers \X Operations -> UploadRows]
EffectsTyped == done \in Seq(AppEffects)
CallsTyped ==
    /\ at \in [AppCalls -> Phases]
    /\ DOMAIN body = AppCalls /\ DOMAIN proof = AppCalls /\ DOMAIN found = AppCalls
    /\ DOMAIN reply = AppCalls /\ DOMAIN file = AppCalls
    /\ DOMAIN secret = SecretFiles

\* The effect of an operation, and the one with this body.
TookEffect(kind, op, app) == \E i \in DOMAIN done : KeyOfEffect(done[i]) = <<kind, op, app>>
TookEffectAs(kind, op, app, b) ==
    \E i \in DOMAIN done : KeyOfEffect(done[i]) = <<kind, op, app>> /\ done[i].body = b

UploadFits(k, row) ==
    row.stage # "none" => row.body \in Bodies /\ row.body.op = k[2] /\ row.entry \in AllEntries \ Theirs
UploadsFit ==
    \A k \in Issuers \X Operations :
        /\ UploadFits(k, upload[k])
        /\ upload[k].stage = "committed" => TookEffect("commit", k[2], k[1])

RecordedKinds == {"folder", "trash", "invite", "link"}
RecordsTrue == \A r \in records : TookEffectAs(r.kind, r.op, r.app, r.body)
Remembered(d) ==
    /\ d.kind \in RecordedKinds =>
          \/ KeyOfEffect(d) \in lapsed
          \/ \E r \in records : <<r.kind, r.op, r.app>> = KeyOfEffect(d)
    /\ d.kind = "commit" => d.op \in Operations /\ upload[<<d.app, d.op>>].stage = "committed"
EffectsRemembered == \A i \in DOMAIN done : Remembered(done[i])

\* A request with a proof, from the time it is sent until it is reported.
AskingApp(c) == at[c] \in {"sent", "known", "resolved"} \/ (at[c] = "answered" /\ proof[c] # Nil)
CallsInOrder ==
    \A c \in AppCalls :
        /\ at[c] \in {"idle", "transfer", "storing"} => proof[c] = Nil
        /\ AskingApp(c) => body[c] \in Bodies /\ Validated(body[c]) /\ proof[c] \in Proofs

\* What was found stays in the drive it was found in and has the same maker.
FoundFits ==
    \A c \in AppCalls : at[c] = "resolved" =>
        /\ NeedsEntry(body[c].kind) => found[c] = body[c].on /\ Enters(found[c], App(c), body[c].kind)
        /\ body[c].kind = "trash" => madeBy[found[c]] = App(c) /\ fate[found[c]] # "nowhere"
        /\ NeedsFolder(body[c].kind) => found[c] \in Issuers \cup AllEntries

HasEffect(kind, op, app, b) ==
    /\ TookEffect(kind, op, app)
    /\ kind # "commit" => TookEffectAs(kind, op, app, b)
AnswersFit ==
    \A c \in AppCalls :
        at[c] = "answered" /\ proof[c] # Nil /\ reply[c].what = "done" /\ body[c].kind \in Mutations =>
            HasEffect(body[c].kind, body[c].op, App(c), body[c])

CapabilitiesFit ==
    \A c \in AppCalls : AskingApp(c) /\ body[c].kind = "reserve" =>
        file[c] \in SecretFiles /\ secret[file[c]].what # "absent" /\ secret[file[c]].for = OperationKey(c)

LedgerFits ==
    /\ EntriesTyped /\ UploadsTyped /\ EffectsTyped /\ UploadsFit /\ RecordsTrue /\ EffectsRemembered
    /\ StaysInItsFolder /\ TrashesItsOwn /\ TakesEffectOnce /\ PromisedBytes
CallsFit == CallsTyped /\ CallsInOrder /\ FoundFits /\ AnswersFit /\ CapabilitiesFit
RequestsInv == LedgerFits /\ CallsFit /\ ReportsAreTrue /\ FilesAreSafe

\* What the steps of requests leave alone.
ledgerVars == <<path, fate, madeBy, upload, records, lapsed, done>>

\* Tables and effects that stay as they are.
LEMMA LedgerKept ==
    ASSUME LedgerFits, UNCHANGED <<ledgerVars, menu>>
    PROVE  LedgerFits'
BY DEF LedgerFits, ledgerVars, EntriesTyped, UploadsTyped, EffectsTyped, UploadsFit, UploadFits,
       RecordsTrue, TookEffect, TookEffectAs, EffectsRemembered, Remembered, KeyOfEffect,
       StaysInItsFolder, TrashesItsOwn, TakesEffectOnce, PromisedBytes

LEMMA ReportsKept ==
    ASSUME ReportsAreTrue, FilesAreSafe, UNCHANGED <<done, told, saved, secret>>
    PROVE  ReportsAreTrue' /\ FilesAreSafe'
BY DEF ReportsAreTrue, FilesAreSafe, KeyOfEffect

\* A row of an upload goes on before its publication, by what its reservation
\* says.
RowGoesOn(k, row) ==
    /\ upload[k].stage # "committed"
    /\ row \in UploadRows /\ row.stage \notin {"none", "committed"}
    /\ UploadFits(k, row)
    /\ row.stage = "staged" => row.bytes = row.body.digest

LEMMA UploadsGoOn ==
    ASSUME LedgerFits, UNCHANGED <<path, fate, madeBy, records, lapsed, done, menu>>,
           NEW k, NEW row, upload' = [upload EXCEPT ![k] = row],
           k \in Issuers \X Operations => RowGoesOn(k, row)
    PROVE  LedgerFits'
<1> USE DEF LedgerFits
<1>1. \A j \in Issuers \X Operations : upload'[j] = upload[j] \/ (upload'[j] = row /\ RowGoesOn(j, row))
  BY DEF UploadsTyped
<1>2. UploadsTyped'
  BY <1>1 DEF UploadsTyped, RowGoesOn
<1>3. UploadsFit'
  BY <1>1 DEF UploadsFit, UploadFits, RowGoesOn, TookEffect, KeyOfEffect
<1>4. EffectsRemembered'
  <2> SUFFICES ASSUME NEW i \in DOMAIN done PROVE Remembered(done[i])'
    BY DEF EffectsRemembered
  <2>1. Remembered(done[i]) /\ done[i] \in AppEffects
    BY DEF EffectsRemembered, EffectsTyped
  <2> QED
    BY <1>1, <2>1 DEF Remembered, RowGoesOn, KeyOfEffect, AppEffects
<1>5. PromisedBytes'
  BY <1>1 DEF PromisedBytes, RowGoesOn
<1> QED
  BY <1>2, <1>3, <1>4, <1>5 DEF EntriesTyped, EffectsTyped, RecordsTrue, TookEffectAs, KeyOfEffect,
     StaysInItsFolder, TrashesItsOwn, TakesEffectOnce

\* An effect that the account's rules allow, in the transaction that records it.
EffectAllowed(d) ==
    /\ d \in AppEffects
    /\ Confined(d.app) => d.folder = d.app /\ (d.theirs => d.kind = "read" /\ d.granted)
    /\ d.kind = "trash" => d.by = d.app

LEMMA EffectAdded ==
    ASSUME LedgerFits, ReportsAreTrue, NEW d, EffectAllowed(d), done' = Append(done, d),
           UNCHANGED <<lapsed, told>>,
           d.kind \in Mutations /\ TookEffect(d.kind, d.op, d.app) => KeyOfEffect(d) \in lapsed
    PROVE  /\ EffectsTyped' /\ StaysInItsFolder' /\ TrashesItsOwn' /\ TakesEffectOnce' /\ ReportsAreTrue'
           /\ \A kind, op, app : TookEffect(kind, op, app) => TookEffect(kind, op, app)'
           /\ \A kind, op, app, b : TookEffectAs(kind, op, app, b) => TookEffectAs(kind, op, app, b)'
           /\ TookEffectAs(d.kind, d.op, d.app, d.body)'
           /\ \A i \in DOMAIN done' : done'[i] = d \/ (i \in DOMAIN done /\ done'[i] = done[i])
<1> USE DEF LedgerFits
<1>1. /\ DOMAIN done' = DOMAIN done \cup {Len(done) + 1} /\ Len(done) + 1 \notin DOMAIN done
      /\ \A i \in DOMAIN done : done'[i] = done[i]
      /\ done'[Len(done) + 1] = d
  BY DEF EffectsTyped, EffectAllowed
<1>2. EffectsTyped'
  BY DEF EffectsTyped, EffectAllowed
<1>3. StaysInItsFolder' /\ TrashesItsOwn'
  BY <1>1 DEF StaysInItsFolder, TrashesItsOwn, EffectAllowed, Confined
<1>4. TakesEffectOnce'
  <2> SUFFICES ASSUME NEW i \in DOMAIN done', NEW j \in DOMAIN done', done'[i].kind \in Mutations,
                      KeyOfEffect(done'[i]) = KeyOfEffect(done'[j]), i # j
               PROVE  KeyOfEffect(done'[i]) \in lapsed
    BY DEF TakesEffectOnce, KeyOfEffect
  <2>1. CASE i \in DOMAIN done /\ j \in DOMAIN done
    BY <1>1, <2>1 DEF TakesEffectOnce
  <2>2. CASE i \in DOMAIN done /\ j = Len(done) + 1
    BY <1>1, <2>2 DEF TookEffect, KeyOfEffect
  <2>3. CASE i = Len(done) + 1 /\ j \in DOMAIN done
    BY <1>1, <2>3 DEF TookEffect, KeyOfEffect
  <2> QED
    BY <1>1, <2>1, <2>2, <2>3
<1>5. ReportsAreTrue'
  BY <1>1 DEF ReportsAreTrue, KeyOfEffect
<1>6. TookEffectAs(d.kind, d.op, d.app, d.body)'
  BY <1>1 DEF TookEffectAs, KeyOfEffect
<1> QED
  BY <1>1, <1>2, <1>3, <1>4, <1>5, <1>6 DEF TookEffect, TookEffectAs, KeyOfEffect

\* The entries found, their makers and what took effect stay.
FoundKept ==
    /\ \A e \in AllEntries : fate[e] # "nowhere" => fate'[e] # "nowhere" /\ madeBy'[e] = madeBy[e]
    /\ \A kind, op, app : TookEffect(kind, op, app) => TookEffect(kind, op, app)'
    /\ \A kind, op, app, b : TookEffectAs(kind, op, app, b) => TookEffectAs(kind, op, app, b)'

LEMMA NothingFoundChanges ==
    ASSUME UNCHANGED <<fate, madeBy, done>>
    PROVE  FoundKept
BY DEF FoundKept, TookEffect, TookEffectAs, KeyOfEffect

LEMMA TrashFound ==
    ASSUME CallsFit, NEW c \in AppCalls, at[c] = "resolved", body[c].kind = "trash"
    PROVE  found[c] \in AllEntries
BY DEF CallsFit, CallsInOrder, FoundFits, AskingApp, Validated, NeedsEntry

LEMMA OtherCallsKept ==
    ASSUME CallsFit, UNCHANGED <<callVars, secret>>, FoundKept
    PROVE  CallsFit'
<1> USE DEF CallsFit, callVars
<1>1. CallsTyped' /\ CallsInOrder' /\ CapabilitiesFit'
  BY DEF CallsTyped, CallsInOrder, AskingApp, CapabilitiesFit, OperationKey, App
<1>2. FoundFits'
  BY TrashFound DEF FoundFits, FoundKept, App, Enters
<1>3. AnswersFit'
  BY DEF AnswersFit, HasEffect, FoundKept, App
<1> QED
  BY <1>1, <1>2, <1>3

\* A request is answered: as done, when its operation took effect.
LEMMA CallsAnswered ==
    ASSUME AppRequestsAssumption, CallsFit, NEW c \in AppCalls, NEW what, NEW number,
           Reply(c, what, number), at[c] \notin {"idle", "answered"}, UNCHANGED secret, FoundKept,
           at[c] \in {"sent", "known", "resolved"} /\ what = "done" /\ body[c].kind \in Mutations =>
               HasEffect(body[c].kind, body[c].op, App(c), body[c])'
    PROVE  CallsFit'
<1> USE DEF CallsFit, Reply
<1>1. CallsTyped'
  BY DEF CallsTyped, Phases
<1>2. CallsInOrder'
  BY DEF CallsInOrder, CallsTyped, AskingApp, Phases
<1>3. FoundFits'
  BY TrashFound DEF FoundFits, CallsTyped, FoundKept, App, Enters
<1>4. AnswersFit'
  <2> SUFFICES ASSUME NEW d \in AppCalls, at'[d] = "answered", proof[d] # Nil, reply'[d].what = "done",
                      body[d].kind \in Mutations
               PROVE  HasEffect(body[d].kind, body[d].op, App(d), body[d])'
    BY DEF AnswersFit, App, HasEffect
  <2>1. CASE d # c
    BY <2>1 DEF AnswersFit, CallsTyped, HasEffect, FoundKept, App
  <2>2. CASE d = c
    BY <2>2 DEF CallsTyped, CallsInOrder, Phases
  <2> QED
    BY <2>1, <2>2
<1>5. CapabilitiesFit'
  BY DEF CapabilitiesFit, CallsTyped, CallsInOrder, AskingApp, OperationKey, App, Phases
<1> QED
  BY <1>1, <1>2, <1>3, <1>4, <1>5

-----------------------------------------------------------------------------
(* The steps of a request that change neither tables nor effects. *)

LEMMA BeginCallKeeps ==
    ASSUME AppRequestsAssumption, RequestsInv, NEW c \in AppCalls, NEW b \in Bodies, NEW p \in Proofs,
           BeginCall(c, b, p), UNCHANGED menu
    PROVE  RequestsInv'
<1> USE DEF RequestsInv, BeginCall, entryVars, trustVars, recordVars
<1>1. LedgerFits'
  BY LedgerKept DEF ledgerVars
<1>2. FoundKept
  BY NothingFoundChanges
<1>3. CallsTyped' /\ CallsInOrder' /\ AnswersFit'
  BY <1>2 DEF CallsFit, CallsTyped, CallsInOrder, AskingApp, Phases, AnswersFit, HasEffect, FoundKept, App
<1>4. FoundFits'
  BY DEF CallsFit, CallsTyped, FoundFits, App, Enters
<1>5. CapabilitiesFit'
  <2> SUFFICES ASSUME NEW d \in AppCalls, AskingApp(d)', body'[d].kind = "reserve"
               PROVE  file'[d] \in SecretFiles /\ secret'[file'[d]].what # "absent"
                      /\ secret'[file'[d]].for = OperationKey(d)'
    BY DEF CapabilitiesFit
  <2>1. CASE d = c
    BY <2>1 DEF CallsFit, CallsTyped, OperationKey, App
  <2>2. CASE d # c
    <3>1. /\ AskingApp(d) /\ body[d].kind = "reserve" /\ body'[d] = body[d] /\ proof'[d] = proof[d]
          /\ file'[d] = file[d]
      BY <2>2 DEF CallsFit, CallsTyped, AskingApp
    <3> QED
      BY <3>1 DEF CallsFit, CallsTyped, CapabilitiesFit, OperationKey, App
  <2> QED
    BY <2>1, <2>2
<1>6. ReportsAreTrue' /\ FilesAreSafe'
  BY DEF CallsFit, CallsTyped, ReportsAreTrue, KeyOfEffect, FilesAreSafe
<1> QED
  BY <1>1, <1>3, <1>4, <1>5, <1>6 DEF CallsFit

LEMMA BeginTransferKeeps ==
    ASSUME AppRequestsAssumption, RequestsInv, NEW c \in AppCalls, NEW f \in SecretFiles,
           BeginTransfer(c, f), UNCHANGED menu
    PROVE  RequestsInv'
<1> USE DEF RequestsInv, BeginTransfer, entryVars, trustVars, recordVars, diskVars
<1>1. LedgerFits' /\ ReportsAreTrue' /\ FilesAreSafe'
  BY LedgerKept, ReportsKept DEF ledgerVars
<1>2. FoundKept
  BY NothingFoundChanges
<1>3. CallsTyped' /\ CallsInOrder' /\ AnswersFit' /\ CapabilitiesFit'
  BY <1>2 DEF CallsFit, CallsTyped, CallsInOrder, AskingApp, Phases, AnswersFit, HasEffect, FoundKept, App,
     CapabilitiesFit, OperationKey
<1>4. FoundFits'
  BY DEF CallsFit, CallsTyped, FoundFits, App, Enters
<1> QED
  BY <1>1, <1>3, <1>4 DEF CallsFit

\* A command that stops waiting, and a proof that is believed.
LEMMA WaitingKeeps ==
    ASSUME RequestsInv, NEW c \in AppCalls, HangUp(c) \/ Authenticate(c), UNCHANGED menu
    PROVE  RequestsInv'
<1> USE DEF RequestsInv, HangUp, Authenticate, entryVars, trustVars, recordVars, diskVars
<1>1. LedgerFits' /\ ReportsAreTrue' /\ FilesAreSafe'
  BY LedgerKept, ReportsKept DEF ledgerVars
<1>2. FoundKept
  BY NothingFoundChanges
<1>3. CallsTyped' /\ CallsInOrder' /\ AnswersFit' /\ CapabilitiesFit'
  BY <1>2 DEF CallsFit, CallsTyped, CallsInOrder, AskingApp, Phases, AnswersFit, HasEffect, FoundKept, App,
     CapabilitiesFit, OperationKey
<1>4. FoundFits'
  BY DEF CallsFit, CallsTyped, FoundFits, App, Enters
<1> QED
  BY <1>1, <1>3, <1>4 DEF CallsFit

\* What is found: an entry that the body names, or a folder.
LEMMA LocateKeeps ==
    ASSUME AppRequestsAssumption, RequestsInv, NEW c \in AppCalls, Locate(c), UNCHANGED menu
    PROVE  RequestsInv'
<1> USE DEF RequestsInv, Locate, trustVars, recordVars, diskVars
<1>1. LedgerFits' /\ ReportsAreTrue' /\ FilesAreSafe'
  BY LedgerKept, ReportsKept DEF ledgerVars
<1>2. FoundKept
  BY NothingFoundChanges
<1>3. \A d \in AppCalls : d # c => found'[d] = found[d] /\ at'[d] = at[d]
  BY DEF CallsFit, CallsTyped
<1>4. CallsTyped' /\ CallsInOrder' /\ AnswersFit' /\ CapabilitiesFit'
  BY <1>2 DEF CallsFit, CallsTyped, CallsInOrder, AskingApp, Phases, AnswersFit, HasEffect, FoundKept, App,
     CapabilitiesFit, OperationKey
<1>5. Validated(body[c]) /\ App(c) \in Issuers
  BY DEF CallsFit, CallsInOrder, AskingApp, App, AppRequestsAssumption
<1>6. CASE NeedsFolder(body[c].kind)
  <2>1. ~NeedsEntry(body[c].kind)
    BY <1>6 DEF NeedsFolder, NeedsEntry
  <2>2. PICK f \in Destinations(body[c], App(c)) : found' = [found EXCEPT ![c] = f]
    BY <1>6, <2>1
  <2>3. found'[c] \in Issuers \cup AllEntries
    BY <1>5, <2>2 DEF CallsFit, CallsTyped, Destinations, FoldersAt, AppRequestsAssumption
  <2> QED
    BY <1>1, <1>3, <1>4, <2>1, <2>3 DEF CallsFit, FoundFits, App, Enters, NeedsEntry
<1>7. CASE NeedsEntry(body[c].kind)
  <2>1. /\ ~NeedsFolder(body[c].kind) /\ found'[c] = body[c].on
        /\ Enters(body[c].on, App(c), body[c].kind)
        /\ body[c].kind = "trash" => CreatedByApp(body[c].on, App(c))
    BY <1>7 DEF NeedsFolder, NeedsEntry, CallsFit, CallsTyped
  <2> QED
    BY <1>1, <1>3, <1>4, <2>1 DEF CallsFit, FoundFits, App, Enters, CreatedByApp
<1>8. CASE ~NeedsFolder(body[c].kind) /\ ~NeedsEntry(body[c].kind)
  <2>1. body[c].kind # "trash"
    BY <1>8 DEF NeedsEntry
  <2> QED
    BY <1>1, <1>3, <1>4, <1>8, <2>1 DEF CallsFit, FoundFits, App, Enters
<1> QED
  BY <1>6, <1>7, <1>8

\* Refusals, repetitions, and what is only looked at.
LEMMA AnswersKeep ==
    ASSUME AppRequestsAssumption, RequestsInv, NEW c \in AppCalls, NEW what,
           at[c] \notin {"idle", "answered"}, AnswerCall(c, what),
           UNCHANGED <<entryVars, recordVars, diskVars, done, told, menu>>,
           at[c] \in {"sent", "known", "resolved"} /\ what = "done" /\ body[c].kind \in Mutations =>
               HasEffect(body[c].kind, body[c].op, App(c), body[c])
    PROVE  RequestsInv'
<1> USE DEF RequestsInv, entryVars, recordVars, diskVars
<1>1. LedgerFits' /\ ReportsAreTrue' /\ FilesAreSafe'
  BY LedgerKept, ReportsKept DEF ledgerVars
<1>2. FoundKept
  BY NothingFoundChanges
<1>3. at[c] \in {"sent", "known", "resolved"} /\ what = "done" /\ body[c].kind \in Mutations =>
          HasEffect(body[c].kind, body[c].op, App(c), body[c])'
  BY <1>2 DEF HasEffect, FoundKept, AnswerCall, Reply, App
<1> QED
  BY <1>1, <1>2, <1>3, CallsAnswered DEF AnswerCall

LEMMA RefusalsKeep ==
    ASSUME AppRequestsAssumption, RequestsInv, NEW c \in AppCalls, UNCHANGED menu,
           RefuseProof(c) \/ RefuseRequest(c) \/ Dropped(c) \/ RefuseTransfer(c)
    PROVE  RequestsInv'
BY AnswersKeep DEF RefuseProof, RefuseRequest, Dropped, RefuseTransfer, RefuseCall

LEMMA LooksKeep ==
    ASSUME AppRequestsAssumption, RequestsInv, NEW c \in AppCalls, UNCHANGED menu,
           ListFolder(c) \/ DescribeUpload(c)
    PROVE  RequestsInv'
BY AnswersKeep DEF ListFolder, DescribeUpload, Mutations

\* The record of an operation tells of its effect, as does an upload.
LEMMA RepetitionsKeep ==
    ASSUME AppRequestsAssumption, RequestsInv, NEW c \in AppCalls, UNCHANGED menu,
           RepeatFolder(c) \/ RepeatTrash(c) \/ RepeatShare(c)
    PROVE  RequestsInv'
<1>1. PICK r \in records : Repeated(c, r)
  BY DEF RepeatFolder, RepeatTrash, RepeatShare
<1>2. TookEffectAs(body[c].kind, body[c].op, App(c), body[c])
  BY <1>1 DEF RequestsInv, LedgerFits, RecordsTrue, Repeated, RecordOf
<1>3. HasEffect(body[c].kind, body[c].op, App(c), body[c])
  BY <1>2 DEF HasEffect, TookEffect, TookEffectAs
<1> QED
  BY <1>3, AnswersKeep DEF RepeatFolder, RepeatTrash, RepeatShare

LEMMA RepeatCommitKeeps ==
    ASSUME AppRequestsAssumption, RequestsInv, NEW c \in AppCalls, UNCHANGED menu, RepeatCommit(c)
    PROVE  RequestsInv'
<1>1. body[c].op \in Operations /\ App(c) \in Issuers
  BY DEF RepeatCommit, RequestsInv, CallsFit, CallsInOrder, AskingApp, Validated, App, AppRequestsAssumption
<1>2. TookEffect("commit", body[c].op, App(c))
  BY <1>1 DEF RequestsInv, LedgerFits, UploadsFit, RepeatCommit, OperationKey, UploadRow
<1> QED
  BY <1>2, AnswersKeep DEF RepeatCommit, HasEffect

-----------------------------------------------------------------------------
(* Uploads, and what a command does with its answer. *)

LEMMA ReserveKeeps ==
    ASSUME AppRequestsAssumption, RequestsInv, NEW c \in AppCalls, UNCHANGED menu,
           Reserve(c) \/ ReserveAgain(c)
    PROVE  RequestsInv'
<1> USE DEF RequestsInv, entryVars, recordVars, diskVars
<1>1. /\ OperationKey(c) \in Issuers \X Operations /\ body[c].op = OperationKey(c)[2] /\ body[c] \in Bodies
      /\ found[c] \in Issuers \cup AllEntries /\ body[c].kind = "reserve" /\ at[c] = "resolved"
  BY DEF CallsFit, CallsInOrder, AskingApp, Validated, FoundFits, NeedsFolder, OperationKey, App,
     AppRequestsAssumption, Reserve, ReserveAgain
<1>2. LedgerFits'
  <2>1. CASE Reserve(c)
    <3>1. PICK e \in AllEntries \ (Theirs \cup FolderEntries) :
              upload' = [upload EXCEPT ![OperationKey(c)] =
                            [stage |-> "reserved", body |-> body[c], parent |-> found[c], entry |-> e,
                             number |-> 1, bytes |-> Nil]]
      BY <2>1 DEF Reserve
    <3> DEFINE row == [stage |-> "reserved", body |-> body[c], parent |-> found[c], entry |-> e,
                       number |-> 1, bytes |-> Nil]
    <3>2. row \in UploadRows
      BY <1>1 DEF UploadRows, UploadStages, Pending
    <3>3. RowGoesOn(OperationKey(c), row)
      BY <1>1, <2>1, <3>2 DEF RowGoesOn, UploadFits, Reserve, UploadRow
    <3> QED
      BY <2>1, <3>1, <3>3, UploadsGoOn DEF Reserve
  <2>2. CASE ReserveAgain(c) /\ UploadRow(c).stage = "reserved"
    <3> DEFINE row == [upload[OperationKey(c)] EXCEPT !.number = @ + 1]
    <3>1. upload[OperationKey(c)] \in UploadRows
      BY <1>1 DEF LedgerFits, UploadsTyped
    <3>2. row \in UploadRows /\ row.stage = "reserved" /\ row.body = upload[OperationKey(c)].body
          /\ row.entry = upload[OperationKey(c)].entry
      BY <2>2, <3>1 DEF UploadRows, UploadRow
    <3>3. RowGoesOn(OperationKey(c), row)
      BY <1>1, <2>2, <3>2 DEF RowGoesOn, UploadFits, UploadRow, LedgerFits, UploadsFit
    <3> QED
      BY <2>2, <3>3, UploadsGoOn DEF ReserveAgain
  <2>3. CASE ReserveAgain(c) /\ UploadRow(c).stage # "reserved"
    BY <2>3, LedgerKept DEF ReserveAgain, ledgerVars
  <2> QED
    BY <2>1, <2>2, <2>3
<1>3. CallsFit'
  <2>1. FoundKept /\ body[c].kind \notin Mutations
    BY <1>1, NothingFoundChanges DEF Reserve, ReserveAgain, Mutations
  <2>2. PICK what, number : Reply(c, what, number)
    BY DEF Reserve, ReserveAgain, Issue, AnswerCall
  <2> QED
    BY <1>1, <2>1, <2>2, CallsAnswered DEF Reserve, ReserveAgain
<1>4. ReportsAreTrue' /\ FilesAreSafe'
  BY ReportsKept DEF Reserve, ReserveAgain
<1> QED
  BY <1>2, <1>3, <1>4

\* A row that bytes are sent to, and one that is cancelled, has another stage.
LEMMA StageChanges ==
    ASSUME RequestsInv, NEW k \in Issuers \X Operations, NEW stage \in UploadStages \ {"none", "committed", "staged"},
           upload[k].stage \notin {"none", "committed"}
    PROVE  RowGoesOn(k, [upload[k] EXCEPT !.stage = stage])
<1>1. upload[k] \in UploadRows /\ UploadFits(k, upload[k])
  BY DEF RequestsInv, LedgerFits, UploadsTyped, UploadsFit
<1>2. [upload[k] EXCEPT !.stage = stage] \in UploadRows
  BY <1>1 DEF UploadRows
<1> QED
  BY <1>1, <1>2 DEF RowGoesOn, UploadFits, UploadRows

\* The same for a key that a file may hold and no upload has.
LEMMA StageChanged ==
    ASSUME RequestsInv, NEW k, NEW stage \in UploadStages \ {"none", "committed", "staged"},
           k \in Issuers \X Operations => upload[k].stage \notin {"none", "committed"},
           upload' = [upload EXCEPT ![k].stage = stage],
           UNCHANGED <<path, fate, madeBy, records, lapsed, done, menu>>
    PROVE  LedgerFits'
<1>1. CASE k \in Issuers \X Operations
  BY <1>1, StageChanges, UploadsGoOn DEF RequestsInv
<1>2. CASE k \notin Issuers \X Operations
  <2>1. upload' = upload
    BY <1>2 DEF RequestsInv, LedgerFits, UploadsTyped
  <2> QED
    BY <2>1, LedgerKept DEF RequestsInv, ledgerVars
<1> QED
  BY <1>1, <1>2

LEMMA ClaimTransferKeeps ==
    ASSUME AppRequestsAssumption, RequestsInv, NEW c \in AppCalls, UNCHANGED menu, ClaimTransfer(c)
    PROVE  RequestsInv'
<1> USE DEF ClaimTransfer, entryVars, recordVars, diskVars
<1>1. LedgerFits'
  BY StageChanged DEF UploadStages, Pending
<1>2. ReportsAreTrue' /\ FilesAreSafe'
  BY ReportsKept DEF RequestsInv
<1>3. FoundKept
  BY NothingFoundChanges
<1>4. CallsTyped' /\ CallsInOrder' /\ AnswersFit' /\ CapabilitiesFit'
  BY <1>3 DEF RequestsInv, CallsFit, CallsTyped, CallsInOrder, AskingApp, Phases, AnswersFit, HasEffect,
     FoundKept, App, CapabilitiesFit, OperationKey
<1>5. FoundFits'
  BY DEF RequestsInv, CallsFit, CallsTyped, FoundFits, App, Enters
<1> QED
  BY <1>1, <1>2, <1>4, <1>5 DEF RequestsInv, CallsFit

\* The answer to a transfer, which carries no proof.
LEMMA TransferAnswered ==
    ASSUME AppRequestsAssumption, RequestsInv, NEW c \in AppCalls, NEW what, at[c] = "storing",
           AnswerCall(c, what), UNCHANGED <<entryVars, diskVars, done, told>>
    PROVE  CallsFit' /\ ReportsAreTrue' /\ FilesAreSafe'
BY ReportsKept, CallsAnswered, NothingFoundChanges DEF RequestsInv, AnswerCall, entryVars, diskVars

LEMMA StoreKeeps ==
    ASSUME AppRequestsAssumption, RequestsInv, NEW c \in AppCalls, NEW bytes \in SourceBytes, UNCHANGED menu,
           Store(c, bytes)
    PROVE  RequestsInv'
<1> DEFINE k == secret[file[c]].key
<1>1. LedgerFits'
  <2>1. CASE ~Promised(k, bytes)
    BY <2>1, StageChanged DEF Store, UploadStages, Pending, entryVars
  <2>2. CASE Promised(k, bytes) /\ k \in Issuers \X Operations
    <3> DEFINE row == [[upload[k] EXCEPT !.stage = "staged"] EXCEPT !.bytes = bytes]
    <3>1. upload[k] \in UploadRows /\ UploadFits(k, upload[k])
      BY <2>2 DEF RequestsInv, LedgerFits, UploadsTyped, UploadsFit
    <3>2. /\ row \in UploadRows /\ row.stage = "staged" /\ row.bytes = bytes
          /\ row.body = upload[k].body /\ row.entry = upload[k].entry
      BY <3>1 DEF UploadRows, UploadStages, Pending, SourceBytes
    <3>3. RowGoesOn(k, row)
      BY <2>2, <3>1, <3>2 DEF RowGoesOn, UploadFits, Store, Promised
    <3>4. upload' = [upload EXCEPT ![k] = row]
      BY <2>2 DEF Store, RequestsInv, LedgerFits, UploadsTyped
    <3> QED
      BY <3>3, <3>4, UploadsGoOn DEF Store, entryVars, RequestsInv
  <2>3. CASE Promised(k, bytes) /\ k \notin Issuers \X Operations
    <3>1. upload' = upload
      BY <2>3 DEF Store, RequestsInv, LedgerFits, UploadsTyped
    <3> QED
      BY <3>1, LedgerKept DEF RequestsInv, ledgerVars, Store, entryVars
  <2> QED
    BY <2>1, <2>2, <2>3
<1>2. CallsFit' /\ ReportsAreTrue' /\ FilesAreSafe'
  BY TransferAnswered DEF Store
<1> QED
  BY <1>1, <1>2 DEF RequestsInv

LEMMA LoseTransferKeeps ==
    ASSUME AppRequestsAssumption, RequestsInv, NEW c \in AppCalls, UNCHANGED menu, LoseTransfer(c)
    PROVE  RequestsInv'
<1> DEFINE k == secret[file[c]].key
<1>1. LedgerFits'
  <2>1. CASE upload[k].stage = "receiving"
    <3>1. PICK stage \in {"receiving", "reserved", "cleanup_pending"} :
              upload' = [upload EXCEPT ![k].stage = stage]
      BY <2>1 DEF LoseTransfer
    <3> QED
      BY <2>1, <3>1, StageChanged DEF LoseTransfer, UploadStages, Pending, entryVars
  <2>2. CASE upload[k].stage # "receiving"
    BY <2>2, LedgerKept DEF LoseTransfer, RequestsInv, ledgerVars, entryVars
  <2> QED
    BY <2>1, <2>2
<1>2. CallsFit' /\ ReportsAreTrue' /\ FilesAreSafe'
  BY TransferAnswered DEF LoseTransfer
<1> QED
  BY <1>1, <1>2 DEF RequestsInv

LEMMA CancelKeeps ==
    ASSUME AppRequestsAssumption, RequestsInv, NEW c \in AppCalls, UNCHANGED menu, Cancel(c)
    PROVE  RequestsInv'
<1>1. LedgerFits'
  <2>1. CASE UploadRow(c).stage \in Pending
    <3>1. PICK stage \in {"cancelled", "cleanup_pending"} :
              upload' = [upload EXCEPT ![OperationKey(c)].stage = stage]
      BY <2>1 DEF Cancel
    <3> QED
      BY <2>1, <3>1, StageChanged DEF Cancel, UploadStages, Pending, UploadRow, entryVars
  <2>2. CASE UploadRow(c).stage \notin Pending
    BY <2>2, LedgerKept DEF Cancel, RequestsInv, ledgerVars, entryVars
  <2> QED
    BY <2>1, <2>2
<1>2. CallsFit'
  BY CallsAnswered, NothingFoundChanges DEF Cancel, RequestsInv, AnswerCall, entryVars, diskVars, Mutations
<1>3. ReportsAreTrue' /\ FilesAreSafe'
  BY ReportsKept DEF Cancel, RequestsInv, diskVars
<1> QED
  BY <1>1, <1>2, <1>3 DEF RequestsInv

\* The request is over.
LEMMA CallsReset ==
    ASSUME RequestsInv, NEW c \in AppCalls, Reset(c), UNCHANGED <<entryVars, done>>, DOMAIN secret' = SecretFiles,
           \A f \in SecretFiles : secret'[f].for = secret[f].for
                                  /\ (secret[f].what # "absent" => secret'[f].what # "absent")
    PROVE  CallsFit'
<1> USE DEF RequestsInv, CallsFit, Reset, entryVars
<1>1. FoundKept
  BY NothingFoundChanges
<1>2. CallsTyped' /\ CallsInOrder' /\ AnswersFit'
  BY <1>1 DEF CallsTyped, CallsInOrder, AskingApp, Phases, AnswersFit, HasEffect, FoundKept, App
<1>3. FoundFits'
  BY DEF CallsTyped, FoundFits, App, Enters
<1>4. CapabilitiesFit'
  BY DEF CallsTyped, AskingApp, CapabilitiesFit, OperationKey, App
<1> QED
  BY <1>2, <1>3, <1>4

\* What a command reports has been answered as done.
LEMMA ReportIsTrue ==
    ASSUME RequestsInv, NEW c \in AppCalls, at[c] = "answered", proof[c] # Nil,
           body[c].kind \in Mutations => reply[c].what = "done",
           ReportCall(c), UNCHANGED done
    PROVE  ReportsAreTrue'
<1> SUFFICES ASSUME NEW t \in told', t.kind \in Mutations
             PROVE  \E i \in DOMAIN done : /\ KeyOfEffect(done[i]) = <<t.kind, t.op, t.app>>
                                           /\ t.kind # "commit" => done[i].body = t.body
  BY DEF ReportsAreTrue, KeyOfEffect
<1>1. CASE t \in told
  BY <1>1 DEF RequestsInv, ReportsAreTrue
<1>2. CASE t \notin told
  <2>1. t = [kind |-> body[c].kind, op |-> body[c].op, app |-> App(c), body |-> body[c]]
    BY <1>2 DEF ReportCall
  <2>2. HasEffect(t.kind, t.op, t.app, t.body)
    BY <2>1 DEF RequestsInv, CallsFit, AnswersFit
  <2> QED
    BY <2>2 DEF HasEffect, TookEffect, TookEffectAs
<1> QED
  BY <1>1, <1>2

LEMMA ReportsKeep ==
    ASSUME RequestsInv, NEW c \in AppCalls, UNCHANGED menu, ReportDone(c) \/ EndCall(c)
    PROVE  RequestsInv'
<1> USE DEF ReportDone, EndCall, entryVars, recordVars, diskVars
<1>1. LedgerFits'
  BY LedgerKept DEF RequestsInv, ledgerVars
<1>2. CallsFit'
  BY CallsReset DEF RequestsInv, CallsFit, CallsTyped
<1>3. FilesAreSafe'
  BY DEF RequestsInv, FilesAreSafe
<1>4. ReportsAreTrue'
  BY ReportIsTrue, ReportsKept DEF RequestsInv
<1> QED
  BY <1>1, <1>2, <1>3, <1>4 DEF RequestsInv

LEMMA SaveDownloadKeeps ==
    ASSUME RequestsInv, NEW c \in AppCalls, UNCHANGED menu, SaveDownload(c)
    PROVE  RequestsInv'
<1> USE DEF SaveDownload, entryVars, recordVars
<1>1. LedgerFits'
  BY LedgerKept DEF RequestsInv, ledgerVars
<1>2. CallsFit'
  BY CallsReset DEF RequestsInv, CallsFit, CallsTyped
<1>3. FilesAreSafe'
  BY DEF RequestsInv, FilesAreSafe, OutputFree
<1>4. ReportsAreTrue'
  BY ReportIsTrue DEF RequestsInv
<1> QED
  BY <1>1, <1>2, <1>3, <1>4 DEF RequestsInv

\* The file of a reservation was made for its upload.
LEMMA SaveCapabilityKeeps ==
    ASSUME RequestsInv, NEW c \in AppCalls, UNCHANGED menu, SaveCapability(c)
    PROVE  RequestsInv'
<1> USE DEF SaveCapability, entryVars, recordVars
<1>1. LedgerFits'
  BY LedgerKept DEF RequestsInv, ledgerVars
<1>2. DOMAIN secret = SecretFiles /\ file[c] \in SecretFiles /\ secret[file[c]].for = OperationKey(c)
  BY DEF RequestsInv, CallsFit, CallsTyped, CapabilitiesFit, AskingApp
<1>3. CallsFit'
  BY <1>2, CallsReset
<1>4. FilesAreSafe'
  BY <1>2 DEF RequestsInv, FilesAreSafe
<1>5. ReportsAreTrue'
  BY ReportIsTrue DEF RequestsInv, Mutations
<1> QED
  BY <1>1, <1>3, <1>4, <1>5 DEF RequestsInv

-----------------------------------------------------------------------------
(* The transactions that have an effect. *)

\* A request that is about to act has a body and a proof of its types.
LEMMA Acting ==
    ASSUME AppRequestsAssumption, RequestsInv, NEW c \in AppCalls, at[c] = "resolved"
    PROVE  /\ body[c] \in Bodies /\ body[c].kind \in Scopes /\ App(c) \in Issuers
           /\ body[c].kind \notin {"list", "read"} => body[c].op \in Operations
           /\ NeedsEntry(body[c].kind) =>
                  found[c] = body[c].on /\ found[c] \in AllEntries /\ Enters(found[c], App(c), body[c].kind)
           /\ body[c].kind = "trash" => madeBy[found[c]] = App(c)
           /\ NeedsFolder(body[c].kind) => found[c] \in Issuers \cup AllEntries
BY DEF RequestsInv, CallsFit, CallsInOrder, FoundFits, AskingApp, Validated, App, AppRequestsAssumption

\* The folder of a parent that is still there is a confined app's own.
LEMMA ParentFolder ==
    ASSUME AppRequestsAssumption, RequestsInv, NEW p \in Issuers \cup AllEntries \cup {Nil}, NEW app \in Issuers,
           Parent(p, app)
    PROVE  /\ FolderFor(p) \in Issuers \cup {Nil}
           /\ Confined(app) => FolderFor(p) = app
BY DEF RequestsInv, LedgerFits, EntriesTyped, Parent, FolderFor, Sees, Inside, AppRequestsAssumption

\* The folder of an entry that is seen, and whose it is.
LEMMA EntryFolder ==
    ASSUME AppRequestsAssumption, RequestsInv, NEW e \in AllEntries, NEW app \in Issuers,
           fate[e] = "live", Sees(e, app)
    PROVE  /\ FolderFor(e) \in Issuers \cup {Nil}
           /\ Confined(app) => FolderFor(e) = app
           /\ e \in Theirs => e \in shared
BY DEF RequestsInv, LedgerFits, EntriesTyped, FolderFor, Sees, Inside, AppRequestsAssumption

\* A new entry leaves those that are there alone.
LEMMA NewEntryTyped ==
    ASSUME RequestsInv, NEW e \in AllEntries, NEW folder, NEW app \in Issuers, NewEntry(e, folder, app),
           UNCHANGED menu
    PROVE  /\ EntriesTyped' /\ madeBy'[e] = app
           /\ \A o \in AllEntries : fate[o] # "nowhere" => fate'[o] # "nowhere" /\ madeBy'[o] = madeBy[o]
BY DEF RequestsInv, LedgerFits, EntriesTyped, NewEntry

\* An operation without a record has had no effect that still counts.
LEMMA FirstEffect ==
    ASSUME RequestsInv, NEW c \in AppCalls, Unrecorded(c), body[c].kind \in RecordedKinds,
           TookEffect(body[c].kind, body[c].op, App(c))
    PROVE  <<body[c].kind, body[c].op, App(c)>> \in lapsed
<1>1. PICK i \in DOMAIN done : KeyOfEffect(done[i]) = <<body[c].kind, body[c].op, App(c)>>
  BY DEF TookEffect
<1>2. Remembered(done[i]) /\ done[i].kind = body[c].kind
  BY <1>1 DEF RequestsInv, LedgerFits, EffectsRemembered, KeyOfEffect
<1> QED
  BY <1>1, <1>2 DEF Remembered, Unrecorded, RecordOf, KeyOfEffect

\* What a request may do: take effect where the account's rules allow it.
MayTake(c, kind, b, app, e, folder) ==
    /\ kind \in Scopes /\ b \in Bodies /\ app \in Issuers /\ e \in AllEntries
    /\ folder \in Issuers \cup {Nil} /\ madeBy'[e] \in Issuers \cup {Nil}
    /\ Confined(app) => folder = app /\ (e \in Theirs => kind = "read" /\ e \in shared)
    /\ kind = "trash" => madeBy'[e] = app
    /\ Effect(c, kind, b, app, e, folder)

\* What is then added to the history of effects.
Leaves(kind, b, app) ==
    \E d : /\ d.kind = kind /\ d.op = b.op /\ d.app = app /\ d.body = b
           /\ EffectAllowed(d) /\ done' = Append(done, d)

LEMMA EffectKnown ==
    ASSUME NEW c, NEW kind, NEW b, NEW app, NEW e, NEW folder, MayTake(c, kind, b, app, e, folder)
    PROVE  Leaves(kind, b, app)
<1> USE DEF MayTake
<1>1. PICK t \in BOOLEAN, g \in BOOLEAN, by \in Issuers \cup {Nil} :
          t = (e \in Theirs) /\ g = (e \in Theirs => e \in shared) /\ by = madeBy'[e]
  <2>1. (e \in Theirs) \in BOOLEAN /\ (e \in Theirs => e \in shared) \in BOOLEAN
    OBVIOUS
  <2> QED
    BY <2>1, Zenon
<1>2. PICK d : d = [kind |-> kind, op |-> b.op, app |-> app, body |-> b, entry |-> e, folder |-> folder,
                    theirs |-> t, granted |-> g, by |-> by]
  OBVIOUS
<1>3. done' = Append(done, d)
  BY <1>1, <1>2, Zenon DEF Effect
<1>4. d \in AppEffects
  BY <1>1, <1>2 DEF AppEffects
<1>5. /\ d.kind = kind /\ d.op = b.op /\ d.app = app /\ d.body = b /\ d.folder = folder
      /\ d.theirs = t /\ d.granted = g /\ d.by = by
  BY <1>2
<1>6. Confined(app) => d.folder = d.app /\ (d.theirs => d.kind = "read" /\ d.granted)
  BY <1>1, <1>5, Zenon
<1>7. kind = "trash" => d.by = d.app
  BY <1>1, <1>5
<1> QED
  BY <1>3, <1>4, <1>5, <1>6, <1>7 DEF EffectAllowed, Leaves

\* An effect of a recorded operation: its record is written with it.
LEMMA RecordedEffect ==
    ASSUME AppRequestsAssumption, RequestsInv, NEW c \in AppCalls, UNCHANGED <<upload, lapsed, told, menu>>,
           at[c] = "resolved", body[c].kind \in RecordedKinds, Unrecorded(c),
           NEW e \in AllEntries, KeepRecord(c, e), AnswerCall(c, "done"),
           NEW d, d.kind = body[c].kind, d.op = body[c].op, d.app = App(c), d.body = body[c],
           EffectAllowed(d), done' = Append(done, d),
           EntriesTyped', diskVars' = diskVars,
           \A o \in AllEntries : fate[o] # "nowhere" => fate'[o] # "nowhere" /\ madeBy'[o] = madeBy[o]
    PROVE  RequestsInv'
<1> DEFINE r == [kind |-> body[c].kind, op |-> body[c].op, app |-> App(c),
                 body |-> body[c], resource |-> found[c], entry |-> e]
<1>1. /\ r.kind = body[c].kind /\ r.op = body[c].op /\ r.app = App(c) /\ r.body = body[c]
      /\ records' = records \cup {r}
  BY DEF KeepRecord
<1> HIDE DEF r
<1>2. d.kind \in Mutations /\ TookEffect(d.kind, d.op, d.app) => KeyOfEffect(d) \in lapsed
  BY <1>1, FirstEffect DEF KeyOfEffect
<1>3. /\ EffectsTyped' /\ StaysInItsFolder' /\ TrashesItsOwn' /\ TakesEffectOnce' /\ ReportsAreTrue'
      /\ \A kind, op, app : TookEffect(kind, op, app) => TookEffect(kind, op, app)'
      /\ \A kind, op, app, b : TookEffectAs(kind, op, app, b) => TookEffectAs(kind, op, app, b)'
      /\ TookEffectAs(d.kind, d.op, d.app, d.body)'
      /\ \A i \in DOMAIN done' : done'[i] = d \/ (i \in DOMAIN done /\ done'[i] = done[i])
  BY <1>1, <1>2, EffectAdded DEF RequestsInv
<1>4. RecordsTrue'
  BY <1>1, <1>3 DEF RecordsTrue, RequestsInv, LedgerFits
<1>5. EffectsRemembered'
  <2> SUFFICES ASSUME NEW i \in DOMAIN done' PROVE Remembered(done[i])'
    BY DEF EffectsRemembered
  <2>1. CASE done'[i] = d
    BY <1>1, <2>1 DEF Remembered, KeyOfEffect, RecordedKinds
  <2>2. CASE i \in DOMAIN done /\ done'[i] = done[i]
    <3>1. Remembered(done[i])
      BY <2>2 DEF RequestsInv, LedgerFits, EffectsRemembered
    <3> QED
      BY <1>1, <2>2, <3>1 DEF Remembered, KeyOfEffect
  <2> QED
    BY <1>3, <2>1, <2>2
<1>6. UploadsTyped' /\ UploadsFit' /\ PromisedBytes'
  BY <1>3 DEF RequestsInv, LedgerFits, UploadsTyped, UploadsFit, UploadFits, PromisedBytes
<1>7. FoundKept
  BY <1>3 DEF FoundKept
<1>8. HasEffect(body[c].kind, body[c].op, App(c), body[c])'
  <2>1. TookEffectAs(body[c].kind, body[c].op, App(c), body[c])'
    BY <1>1, <1>3 DEF AnswerCall, Reply, App
  <2> QED
    BY <2>1 DEF HasEffect, TookEffect, TookEffectAs
<1>9. CallsFit'
  BY <1>7, <1>8, CallsAnswered DEF RequestsInv, AnswerCall, diskVars
<1>10. FilesAreSafe'
  BY DEF RequestsInv, FilesAreSafe, diskVars
<1> QED
  BY <1>3, <1>4, <1>5, <1>6, <1>9, <1>10 DEF RequestsInv, LedgerFits

LEMMA CreateFolderKeeps ==
    ASSUME AppRequestsAssumption, RequestsInv, NEW c \in AppCalls, NEW e \in AllEntries, UNCHANGED menu,
           CreateFolder(c, e)
    PROVE  RequestsInv'
<1> DEFINE folder == FolderFor(found[c])
<1>1. /\ body[c].kind = "folder" /\ body[c] \in Bodies /\ App(c) \in Issuers /\ body[c].kind \in Scopes
      /\ found[c] \in Issuers \cup AllEntries /\ e \notin Theirs
  BY Acting DEF CreateFolder, NeedsFolder
<1>2. folder \in Issuers \cup {Nil} /\ (Confined(App(c)) => folder = App(c))
  BY <1>1, ParentFolder DEF CreateFolder
<1> HIDE DEF folder
<1>3. /\ EntriesTyped' /\ madeBy'[e] = App(c)
      /\ \A o \in AllEntries : fate[o] # "nowhere" => fate'[o] # "nowhere" /\ madeBy'[o] = madeBy[o]
  BY <1>1, NewEntryTyped DEF CreateFolder
<1>4. Effect(c, body[c].kind, body[c], App(c), e, folder)
  BY <1>1 DEF CreateFolder, folder
<1>5. PICK d : /\ d.kind = body[c].kind /\ d.op = body[c].op /\ d.app = App(c) /\ d.body = body[c]
               /\ EffectAllowed(d) /\ done' = Append(done, d)
  <2>1. /\ body[c].kind \in Scopes /\ body[c] \in Bodies /\ App(c) \in Issuers /\ e \in AllEntries
        /\ folder \in Issuers \cup {Nil} /\ madeBy'[e] \in Issuers \cup {Nil}
    BY <1>1, <1>2, <1>3, <1>4
  <2>2. Confined(App(c)) => folder = App(c) /\ (e \in Theirs => body[c].kind = "read" /\ e \in shared)
    BY <1>1, <1>2, <1>3, <1>4
  <2>3. body[c].kind = "trash" => madeBy'[e] = App(c)
    BY <1>1, <1>2, <1>3, <1>4
  <2>4. Effect(c, body[c].kind, body[c], App(c), e, folder)
    BY <1>1, <1>2, <1>3, <1>4
  <2>5. MayTake(c, body[c].kind, body[c], App(c), e, folder)
    BY <2>1, <2>2, <2>3, <2>4 DEF MayTake
  <2>6. Leaves(body[c].kind, body[c], App(c))
    BY <2>5, EffectKnown, Zenon
  <2> QED
    BY <2>5, <2>6 DEF Leaves
<1> QED
  BY <1>1, <1>3, <1>5, RecordedEffect DEF CreateFolder, RecordedKinds

LEMMA TrashKeeps ==
    ASSUME AppRequestsAssumption, RequestsInv, NEW c \in AppCalls, UNCHANGED menu, MoveToTrash(c)
    PROVE  RequestsInv'
<1> DEFINE e == found[c]
           folder == FolderFor(e)
<1>1. /\ body[c].kind = "trash" /\ body[c] \in Bodies /\ App(c) \in Issuers /\ body[c].kind \in Scopes
      /\ e \in AllEntries /\ madeBy[e] = App(c) /\ Enters(e, App(c), "trash")
  BY Acting DEF MoveToTrash, NeedsEntry
<1>2. folder \in Issuers \cup {Nil} /\ (Confined(App(c)) => folder = App(c))
  BY <1>1, EntryFolder DEF MoveToTrash
<1> HIDE DEF folder
<1>3. /\ EntriesTyped' /\ madeBy'[e] = App(c)
      /\ \A o \in AllEntries : fate[o] # "nowhere" => fate'[o] # "nowhere" /\ madeBy'[o] = madeBy[o]
  BY <1>1 DEF MoveToTrash, RequestsInv, LedgerFits, EntriesTyped
<1>4. Effect(c, body[c].kind, body[c], App(c), e, folder)
  BY <1>1 DEF MoveToTrash, folder
<1>5. Confined(App(c)) => e \notin Theirs
  BY <1>1 DEF Enters
<1>6. PICK d : /\ d.kind = body[c].kind /\ d.op = body[c].op /\ d.app = App(c) /\ d.body = body[c]
               /\ EffectAllowed(d) /\ done' = Append(done, d)
  <2>1. /\ body[c].kind \in Scopes /\ body[c] \in Bodies /\ App(c) \in Issuers /\ e \in AllEntries
        /\ folder \in Issuers \cup {Nil} /\ madeBy'[e] \in Issuers \cup {Nil}
    BY <1>1, <1>2, <1>3, <1>4, <1>5
  <2>2. Confined(App(c)) => folder = App(c) /\ (e \in Theirs => body[c].kind = "read" /\ e \in shared)
    BY <1>1, <1>2, <1>3, <1>4, <1>5
  <2>3. body[c].kind = "trash" => madeBy'[e] = App(c)
    BY <1>1, <1>2, <1>3, <1>4, <1>5
  <2>4. Effect(c, body[c].kind, body[c], App(c), e, folder)
    BY <1>1, <1>2, <1>3, <1>4, <1>5
  <2>5. MayTake(c, body[c].kind, body[c], App(c), e, folder)
    BY <2>1, <2>2, <2>3, <2>4 DEF MayTake
  <2>6. Leaves(body[c].kind, body[c], App(c))
    BY <2>5, EffectKnown, Zenon
  <2> QED
    BY <2>5, <2>6 DEF Leaves
<1> QED
  BY <1>1, <1>3, <1>6, RecordedEffect DEF MoveToTrash, RecordedKinds

LEMMA ShareEntryKeeps ==
    ASSUME AppRequestsAssumption, RequestsInv, NEW c \in AppCalls, UNCHANGED menu, ShareEntry(c)
    PROVE  RequestsInv'
<1> DEFINE e == found[c]
           folder == FolderFor(e)
<1>1. /\ body[c].kind \in {"invite", "link"} /\ body[c] \in Bodies /\ App(c) \in Issuers /\ body[c].kind \in Scopes
      /\ e \in AllEntries /\ Enters(e, App(c), body[c].kind)
  BY Acting DEF ShareEntry, NeedsEntry
<1>2. folder \in Issuers \cup {Nil} /\ (Confined(App(c)) => folder = App(c))
  BY <1>1, EntryFolder DEF ShareEntry
<1>3. UNCHANGED entryVars /\ Effect(c, body[c].kind, body[c], App(c), e, folder)
  BY DEF ShareEntry
<1> HIDE DEF folder
<1>4. /\ EntriesTyped' /\ madeBy'[e] \in Issuers \cup {Nil}
      /\ \A o \in AllEntries : fate[o] # "nowhere" => fate'[o] # "nowhere" /\ madeBy'[o] = madeBy[o]
  BY <1>1, <1>3 DEF entryVars, RequestsInv, LedgerFits, EntriesTyped
<1>5. Confined(App(c)) => e \notin Theirs
  BY <1>1 DEF Enters
<1>6. PICK d : /\ d.kind = body[c].kind /\ d.op = body[c].op /\ d.app = App(c) /\ d.body = body[c]
               /\ EffectAllowed(d) /\ done' = Append(done, d)
  <2>1. /\ body[c].kind \in Scopes /\ body[c] \in Bodies /\ App(c) \in Issuers /\ e \in AllEntries
        /\ folder \in Issuers \cup {Nil} /\ madeBy'[e] \in Issuers \cup {Nil}
    BY <1>1, <1>2, <1>3, <1>4, <1>5
  <2>2. Confined(App(c)) => folder = App(c) /\ (e \in Theirs => body[c].kind = "read" /\ e \in shared)
    BY <1>1, <1>2, <1>3, <1>4, <1>5
  <2>3. body[c].kind = "trash" => madeBy'[e] = App(c)
    BY <1>1, <1>2, <1>3, <1>4, <1>5
  <2>4. Effect(c, body[c].kind, body[c], App(c), e, folder)
    BY <1>1, <1>2, <1>3, <1>4, <1>5
  <2>5. MayTake(c, body[c].kind, body[c], App(c), e, folder)
    BY <2>1, <2>2, <2>3, <2>4 DEF MayTake
  <2>6. Leaves(body[c].kind, body[c], App(c))
    BY <2>5, EffectKnown, Zenon
  <2> QED
    BY <2>5, <2>6 DEF Leaves
<1> QED
  BY <1>1, <1>3, <1>4, <1>6, RecordedEffect DEF ShareEntry, RecordedKinds

\* A reading leaves no record and changes nothing.
LEMMA ReadKeeps ==
    ASSUME AppRequestsAssumption, RequestsInv, NEW c \in AppCalls, UNCHANGED menu, Read(c)
    PROVE  RequestsInv'
<1> DEFINE e == found[c]
           folder == FolderFor(e)
<1> USE DEF entryVars, recordVars, diskVars
<1>1. /\ body[c].kind = "read" /\ body[c] \in Bodies /\ App(c) \in Issuers /\ e \in AllEntries
  BY Acting DEF Read, NeedsEntry
<1>2. /\ folder \in Issuers \cup {Nil} /\ (Confined(App(c)) => folder = App(c))
      /\ e \in Theirs => e \in shared
  BY <1>1, EntryFolder DEF Read
<1>3. UNCHANGED entryVars /\ Effect(c, body[c].kind, body[c], App(c), e, folder)
  BY <1>1 DEF Read
<1> HIDE DEF folder
<1>4. madeBy'[e] \in Issuers \cup {Nil}
  BY <1>1, <1>3 DEF RequestsInv, LedgerFits, EntriesTyped
<1>5. PICK d : /\ d.kind = "read" /\ d.op = body[c].op /\ d.app = App(c) /\ d.body = body[c]
               /\ EffectAllowed(d) /\ done' = Append(done, d)
  <2>1. /\ "read" \in Scopes /\ body[c] \in Bodies /\ App(c) \in Issuers /\ e \in AllEntries
        /\ folder \in Issuers \cup {Nil} /\ madeBy'[e] \in Issuers \cup {Nil}
    BY <1>1, <1>2, <1>3, <1>4 DEF Scopes
  <2>2. Confined(App(c)) => folder = App(c) /\ (e \in Theirs => "read" = "read" /\ e \in shared)
    BY <1>1, <1>2, <1>3, <1>4
  <2>3. "read" = "trash" => madeBy'[e] = App(c)
    BY <1>1, <1>2, <1>3, <1>4
  <2>4. Effect(c, "read", body[c], App(c), e, folder)
    BY <1>1, <1>2, <1>3, <1>4
  <2>5. MayTake(c, "read", body[c], App(c), e, folder)
    BY <2>1, <2>2, <2>3, <2>4 DEF MayTake
  <2>6. Leaves("read", body[c], App(c))
    BY <2>5, EffectKnown, Zenon
  <2> QED
    BY <2>5, <2>6 DEF Leaves
<1>6. /\ EffectsTyped' /\ StaysInItsFolder' /\ TrashesItsOwn' /\ TakesEffectOnce' /\ ReportsAreTrue'
      /\ \A kind, op, app : TookEffect(kind, op, app) => TookEffect(kind, op, app)'
      /\ \A kind, op, app, b : TookEffectAs(kind, op, app, b) => TookEffectAs(kind, op, app, b)'
      /\ \A i \in DOMAIN done' : done'[i] = d \/ (i \in DOMAIN done /\ done'[i] = done[i])
  BY <1>5, EffectAdded DEF Read, RequestsInv, Mutations
<1>7. RecordsTrue' /\ UploadsTyped' /\ UploadsFit' /\ PromisedBytes' /\ EntriesTyped'
  BY <1>3, <1>6 DEF Read, RequestsInv, LedgerFits, RecordsTrue, UploadsTyped, UploadsFit, UploadFits,
     PromisedBytes, EntriesTyped
<1>8. EffectsRemembered'
  <2> SUFFICES ASSUME NEW i \in DOMAIN done' PROVE Remembered(done[i])'
    BY DEF EffectsRemembered
  <2>1. CASE done'[i] = d
    BY <1>5, <2>1 DEF Remembered, RecordedKinds
  <2>2. CASE i \in DOMAIN done /\ done'[i] = done[i]
    BY <2>2 DEF RequestsInv, LedgerFits, EffectsRemembered, Remembered, KeyOfEffect, Read
  <2> QED
    BY <1>6, <2>1, <2>2
<1>9. CallsFit'
  <2>1. FoundKept
    BY <1>3, <1>6 DEF FoundKept
  <2> QED
    BY <1>1, <2>1, CallsAnswered DEF Read, RequestsInv, AnswerCall, Mutations
<1>10. FilesAreSafe'
  BY DEF Read, RequestsInv, FilesAreSafe
<1> QED
  BY <1>6, <1>7, <1>8, <1>9, <1>10 DEF RequestsInv, LedgerFits

\* A publication ends the row of its upload.
LEMMA CommitUploadKeeps ==
    ASSUME AppRequestsAssumption, RequestsInv, NEW c \in AppCalls, UNCHANGED menu, CommitUpload(c)
    PROVE  RequestsInv'
<1> DEFINE k == OperationKey(c)
           r == upload[k]
           folder == FolderFor(r.parent)
<1>1. /\ body[c].kind = "commit" /\ App(c) \in Issuers /\ body[c].op \in Operations
      /\ k \in Issuers \X Operations /\ k = <<App(c), body[c].op>> /\ r.stage = "staged"
  BY Acting DEF CommitUpload, OperationKey, UploadRow
<1>2. /\ r \in UploadRows /\ r.body \in Bodies /\ r.body.op = body[c].op /\ r.entry \in AllEntries \ Theirs
      /\ r.bytes = r.body.digest
  BY <1>1 DEF RequestsInv, LedgerFits, UploadsTyped, UploadsFit, UploadFits, PromisedBytes
<1>3. folder \in Issuers \cup {Nil} /\ (Confined(App(c)) => folder = App(c))
  BY <1>1, <1>2, ParentFolder DEF CommitUpload, UploadRow, UploadRows
<1>4. /\ EntriesTyped' /\ madeBy'[r.entry] \in Issuers \cup {Nil}
      /\ \A o \in AllEntries : fate[o] # "nowhere" => fate'[o] # "nowhere" /\ madeBy'[o] = madeBy[o]
  <2>1. CASE UNCHANGED entryVars
    BY <1>2, <2>1 DEF entryVars, RequestsInv, LedgerFits, EntriesTyped
  <2>2. CASE NewEntry(r.entry, folder, App(c))
    BY <1>1, <1>2, <2>2, NewEntryTyped
  <2> QED
    BY <2>1, <2>2 DEF CommitUpload, UploadRow
<1>5. /\ Effect(c, "commit", r.body, App(c), r.entry, folder)
      /\ upload' = [upload EXCEPT ![k].stage = "committed"]
  BY DEF CommitUpload, UploadRow
<1> HIDE DEF folder
<1>6. PICK d : /\ d.kind = "commit" /\ d.op = r.body.op /\ d.app = App(c) /\ d.body = r.body
               /\ EffectAllowed(d) /\ done' = Append(done, d)
  <2>1. /\ "commit" \in Scopes /\ r.body \in Bodies /\ App(c) \in Issuers /\ r.entry \in AllEntries
        /\ folder \in Issuers \cup {Nil} /\ madeBy'[r.entry] \in Issuers \cup {Nil}
    BY <1>1, <1>2, <1>3, <1>4, <1>5 DEF Scopes
  <2>2. Confined(App(c)) => folder = App(c) /\ (r.entry \in Theirs => "commit" = "read" /\ r.entry \in shared)
    BY <1>1, <1>2, <1>3, <1>4, <1>5
  <2>3. "commit" = "trash" => madeBy'[r.entry] = App(c)
    BY <1>1, <1>2, <1>3, <1>4, <1>5
  <2>4. Effect(c, "commit", r.body, App(c), r.entry, folder)
    BY <1>1, <1>2, <1>3, <1>4, <1>5
  <2>5. MayTake(c, "commit", r.body, App(c), r.entry, folder)
    BY <2>1, <2>2, <2>3, <2>4 DEF MayTake
  <2>6. Leaves("commit", r.body, App(c))
    BY <2>5, EffectKnown, Zenon
  <2> QED
    BY <2>5, <2>6 DEF Leaves
<1>7. ~TookEffect("commit", body[c].op, App(c))
  <2> SUFFICES ASSUME NEW i \in DOMAIN done, KeyOfEffect(done[i]) = <<"commit", body[c].op, App(c)>>
               PROVE  FALSE
    BY DEF TookEffect
  <2>1. Remembered(done[i])
    BY DEF RequestsInv, LedgerFits, EffectsRemembered
  <2> QED
    BY <1>1, <2>1 DEF Remembered, KeyOfEffect
<1>8. /\ EffectsTyped' /\ StaysInItsFolder' /\ TrashesItsOwn' /\ TakesEffectOnce' /\ ReportsAreTrue'
      /\ \A kind, op, app : TookEffect(kind, op, app) => TookEffect(kind, op, app)'
      /\ \A kind, op, app, b : TookEffectAs(kind, op, app, b) => TookEffectAs(kind, op, app, b)'
      /\ TookEffectAs(d.kind, d.op, d.app, d.body)'
      /\ \A i \in DOMAIN done' : done'[i] = d \/ (i \in DOMAIN done /\ done'[i] = done[i])
  BY <1>2, <1>6, <1>7, EffectAdded DEF CommitUpload, RequestsInv
<1>9. TookEffect("commit", body[c].op, App(c))'
  BY <1>2, <1>6, <1>8 DEF TookEffect, TookEffectAs, KeyOfEffect, CommitUpload, AnswerCall, Reply, App
<1>10. /\ UploadsTyped' /\ upload'[k].stage = "committed" /\ upload'[k].body = r.body
       /\ upload'[k].entry = r.entry /\ upload'[k].bytes = r.bytes
       /\ \A j \in Issuers \X Operations : j # k => upload'[j] = upload[j]
  BY <1>1, <1>2, <1>5 DEF RequestsInv, LedgerFits, UploadsTyped, UploadRows, UploadStages
<1>11. UploadsFit' /\ PromisedBytes'
  <2>1. \E i \in DOMAIN done' : KeyOfEffect(done'[i]) = <<"commit", k[2], k[1]>>
    BY <1>1, <1>2, <1>6, <1>8 DEF TookEffectAs, KeyOfEffect
  <2>2. \A j \in Issuers \X Operations : j # k => UploadFits(j, upload[j]) /\ upload'[j] = upload[j]
            /\ (upload[j].stage = "committed" => TookEffect("commit", j[2], j[1])')
    BY <1>8, <1>10 DEF RequestsInv, LedgerFits, UploadsFit
  <2>3. UploadsFit'
    BY <1>1, <1>2, <1>10, <2>1, <2>2 DEF UploadsFit, UploadFits, TookEffect
  <2>4. PromisedBytes'
    BY <1>1, <1>2, <1>10 DEF RequestsInv, LedgerFits, PromisedBytes
  <2> QED
    BY <2>3, <2>4
<1>12. RecordsTrue'
  BY <1>8 DEF RequestsInv, LedgerFits, RecordsTrue, CommitUpload
<1>13. EffectsRemembered'
  <2> SUFFICES ASSUME NEW i \in DOMAIN done' PROVE Remembered(done[i])'
    BY DEF EffectsRemembered
  <2>1. CASE done'[i] = d
    <3>1. <<d.app, d.op>> = k /\ d.op \in Operations /\ upload'[k].stage = "committed"
      BY <1>1, <1>2, <1>6, <1>10
    <3>2. upload'[<<d.app, d.op>>].stage = "committed" /\ d.kind \notin RecordedKinds
      BY <3>1, <1>6 DEF RecordedKinds
    <3> QED
      BY <1>6, <2>1, <3>1, <3>2 DEF Remembered
  <2>2. CASE i \in DOMAIN done /\ done'[i] = done[i]
    <3>1. Remembered(done[i]) /\ done[i] \in AppEffects
      BY <2>2 DEF RequestsInv, LedgerFits, EffectsRemembered, EffectsTyped
    <3> QED
      BY <1>10, <2>2, <3>1 DEF Remembered, KeyOfEffect, CommitUpload, AppEffects
  <2> QED
    BY <1>8, <2>1, <2>2
<1>14. CallsFit'
  <2>1. FoundKept
    BY <1>4, <1>8 DEF FoundKept
  <2>2. HasEffect(body[c].kind, body[c].op, App(c), body[c])'
    BY <1>1, <1>9 DEF HasEffect, CommitUpload, AnswerCall, Reply
  <2> QED
    BY <1>1, <2>1, <2>2, CallsAnswered DEF CommitUpload, RequestsInv, AnswerCall, diskVars
<1>15. FilesAreSafe'
  BY DEF CommitUpload, RequestsInv, FilesAreSafe, diskVars
<1> QED
  BY <1>4, <1>8, <1>10, <1>11, <1>12, <1>13, <1>14, <1>15 DEF RequestsInv, LedgerFits

-----------------------------------------------------------------------------
(* Meanwhile, and all together. *)

LEMMA AccountWorksKeeps ==
    ASSUME RequestsInv, NEW e \in AllEntries, UNCHANGED menu, AccountWorks(e)
    PROVE  RequestsInv'
<1> USE DEF AccountWorks, recordVars, diskVars
<1>1. /\ EntriesTyped'
      /\ \A o \in AllEntries : fate[o] # "nowhere" => fate'[o] # "nowhere" /\ madeBy'[o] = madeBy[o]
  BY DEF RequestsInv, LedgerFits, EntriesTyped
<1>2. LedgerFits'
  BY <1>1 DEF RequestsInv, LedgerFits, UploadsTyped, EffectsTyped, UploadsFit, UploadFits,
     RecordsTrue, TookEffect, TookEffectAs, EffectsRemembered, Remembered, KeyOfEffect,
     StaysInItsFolder, TrashesItsOwn, TakesEffectOnce, PromisedBytes
<1>3. FoundKept
  BY <1>1 DEF FoundKept, TookEffect, TookEffectAs, KeyOfEffect
<1> QED
  BY <1>2, <1>3, OtherCallsKept, ReportsKept DEF RequestsInv

LEMMA QuietMeddlingKeeps ==
    ASSUME RequestsInv, UNCHANGED menu, TrustEnds \/ OutputAppears \/ \E e \in AllEntries : OthersWithdraw(e)
    PROVE  RequestsInv'
BY LedgerKept, OtherCallsKept, NothingFoundChanges, ReportsKept
   DEF RequestsInv, TrustEnds, OutputAppears, OthersWithdraw, entryVars, recordVars, diskVars, ledgerVars

LEMMA TimeRunsOutKeeps ==
    ASSUME RequestsInv, UNCHANGED menu, TimeRunsOut
    PROVE  RequestsInv'
<1> USE DEF entryVars, diskVars
<1>1. UNCHANGED <<path, fate, madeBy, done, menu>>
  BY DEF TimeRunsOut
<1>2. LedgerFits'
  <2>1. CASE \E r \in records : /\ records' = records \ {r}
                                /\ lapsed' = lapsed \cup {<<r.kind, r.op, r.app>>}
                                /\ UNCHANGED upload
    <3>1. RecordsTrue' /\ TakesEffectOnce'
      BY <1>1, <2>1 DEF RequestsInv, LedgerFits, RecordsTrue, TookEffectAs, KeyOfEffect, TakesEffectOnce
    <3>2. EffectsRemembered'
      BY <1>1, <2>1 DEF RequestsInv, LedgerFits, EffectsRemembered, Remembered, KeyOfEffect
    <3> QED
      BY <1>1, <2>1, <3>1, <3>2 DEF RequestsInv, LedgerFits, EntriesTyped, UploadsTyped, EffectsTyped,
         UploadsFit, UploadFits, TookEffect, KeyOfEffect, StaysInItsFolder, TrashesItsOwn, PromisedBytes
  <2>2. CASE \E k \in Issuers \X Operations, stage \in {"expired", "cancelled", "cleanup_pending"} :
                /\ \/ upload[k].stage \in Pending /\ stage # "cancelled"
                   \/ upload[k].stage = "cleanup_pending"
                /\ upload' = [upload EXCEPT ![k].stage = stage]
                /\ UNCHANGED <<records, lapsed>>
    <3>1. PICK k \in Issuers \X Operations, stage \in {"expired", "cancelled", "cleanup_pending"} :
                /\ \/ upload[k].stage \in Pending /\ stage # "cancelled"
                   \/ upload[k].stage = "cleanup_pending"
                /\ upload' = [upload EXCEPT ![k].stage = stage]
                /\ UNCHANGED <<records, lapsed>>
      BY <2>2
    <3> QED
      BY <1>1, <3>1, StageChanged DEF UploadStages, Pending
  <2> QED
    BY <2>1, <2>2 DEF TimeRunsOut
<1>3. CallsFit'
  BY <1>1, OtherCallsKept, NothingFoundChanges DEF RequestsInv, TimeRunsOut
<1>4. ReportsAreTrue' /\ FilesAreSafe'
  BY ReportsKept DEF RequestsInv, TimeRunsOut
<1> QED
  BY <1>2, <1>3, <1>4 DEF RequestsInv

LEMMA RequestsBegin ==
    ASSUME AppRequestsAssumption, RequestsInit
    PROVE  RequestsInv
<1> USE DEF RequestsInit
<1>1. EntriesTyped
  BY DEF EntriesTyped, AppRequestsAssumption
<1>2. NoUpload \in UploadRows /\ NoUpload.stage = "none"
  BY DEF NoUpload, UploadRows, UploadStages, Pending
<1>3. UploadsTyped /\ UploadsFit /\ PromisedBytes
  BY <1>2 DEF UploadsTyped, UploadsFit, UploadFits, PromisedBytes
<1>4. /\ EffectsTyped /\ RecordsTrue /\ EffectsRemembered
      /\ StaysInItsFolder /\ TrashesItsOwn /\ TakesEffectOnce /\ ReportsAreTrue
  BY DEF EffectsTyped, RecordsTrue, EffectsRemembered, StaysInItsFolder, TrashesItsOwn, TakesEffectOnce,
     ReportsAreTrue
<1>5. CallsFit
  BY DEF CallsFit, CallsTyped, Phases, CallsInOrder, AskingApp, FoundFits, AnswersFit, CapabilitiesFit
<1>6. FilesAreSafe
  BY DEF FilesAreSafe, NoSecret
<1> QED
  BY <1>1, <1>3, <1>4, <1>5, <1>6 DEF RequestsInv, LedgerFits

LEMMA RequestStepKeeps ==
    ASSUME AppRequestsAssumption, RequestsInv, NEW c \in AppCalls, RequestStep(c), UNCHANGED menu
    PROVE  RequestsInv'
<1>1. CASE \E b \in Menu.bodies, p \in Menu.proofs : BeginCall(c, b, p)
  <2>1. Menu.bodies \subseteq Bodies /\ Menu.proofs \subseteq Proofs
    BY DEF RequestsInv, LedgerFits, EntriesTyped, Menu, Bodies, AppRequestsAssumption
  <2> QED
    BY <1>1, <2>1, BeginCallKeeps
<1>2. CASE (\E f \in SecretFiles : BeginTransfer(c, f)) \/ HangUp(c) \/ Authenticate(c) \/ Locate(c)
  BY <1>2, BeginTransferKeeps, WaitingKeeps, LocateKeeps
<1>3. CASE RefuseProof(c) \/ RefuseRequest(c) \/ Dropped(c) \/ RefuseTransfer(c) \/ ListFolder(c)
           \/ DescribeUpload(c) \/ RepeatFolder(c) \/ RepeatTrash(c) \/ RepeatShare(c) \/ RepeatCommit(c)
  BY <1>3, RefusalsKeep, LooksKeep, RepetitionsKeep, RepeatCommitKeeps
<1>4. CASE (\E e \in AllEntries : CreateFolder(c, e)) \/ MoveToTrash(c) \/ ShareEntry(c) \/ Read(c) \/ CommitUpload(c)
  BY <1>4, CreateFolderKeeps, TrashKeeps, ShareEntryKeeps, ReadKeeps, CommitUploadKeeps
<1>5. CASE Reserve(c) \/ ReserveAgain(c) \/ ClaimTransfer(c) \/ LoseTransfer(c) \/ Cancel(c)
           \/ \E bytes \in SourceBytes : Store(c, bytes)
  BY <1>5, ReserveKeeps, ClaimTransferKeeps, LoseTransferKeeps, CancelKeeps, StoreKeeps
<1>6. CASE SaveDownload(c) \/ SaveCapability(c) \/ ReportDone(c) \/ EndCall(c)
  BY <1>6, SaveDownloadKeeps, SaveCapabilityKeeps, ReportsKeep
<1> QED
  BY <1>1, <1>2, <1>3, <1>4, <1>5, <1>6 DEF RequestStep

\* Whatever is asked again and whatever happens meanwhile, an app that acts for an account
\* keeps to its folder, bins what it made, takes effect once for each operation, and
\* its commands report the truth (handlers/delegated.rs, application/delegated_upload.rs).
THEOREM AppRequestsAlwaysHold == RequestsSpec => []AppRequestsHold
<1>1. RequestsInit => RequestsInv
  BY AppRequestsAssumption, RequestsBegin
<1>2. ASSUME RequestsInv, [RequestsNext]_requestVars
      PROVE  RequestsInv'
  <2>1. CASE \E c \in AppCalls : UNCHANGED menu /\ RequestStep(c)
    BY <1>2, <2>1, AppRequestsAssumption, RequestStepKeeps
  <2>2. CASE UNCHANGED menu /\ MeddlingStep
    BY <1>2, <2>2, AccountWorksKeeps, QuietMeddlingKeeps, TimeRunsOutKeeps DEF MeddlingStep
  <2>3. CASE UNCHANGED requestVars
    BY <1>2, <2>3, LedgerKept, OtherCallsKept, NothingFoundChanges, ReportsKept
       DEF RequestsInv, requestVars, entryVars, recordVars, diskVars, ledgerVars
  <2> QED
    BY <1>2, <2>1, <2>2, <2>3 DEF RequestsNext
<1>3. RequestsInv => AppRequestsHold
  BY DEF RequestsInv, LedgerFits, AppRequestsHold
<1> QED
  BY <1>1, <1>2, <1>3, PTL DEF RequestsSpec

===============================================================================
