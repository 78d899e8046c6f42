------------------------------- MODULE Listing -------------------------------
(***************************************************************************)
(* The listing of a folder: a client follows cursors from page to page     *)
(* while other requests touch, hide, delete and create entries.            *)
(* application/service/entries.rs drops what the caller may not see from   *)
(* each keyset page that metadata/mod.rs reads and asks for more;          *)
(* domain/filter.rs and metadata/filter.rs evaluate the filter, as SQL or, *)
(* when it names the caller's permissions, half in SQL and half in policy. *)
(***************************************************************************)
EXTENDS Integers, FiniteSets, SequencesExt

CONSTANTS Entries,     \* entry ids, which are numbers: the second sort key
          Predicates,  \* conditions the database decides
          Queries,     \* the listings a client may ask for: [expression, sort, take, limit]
          Catalogs,    \* possible truths: [Entries -> [Predicates -> SqlTruths]]
          Refills,     \* MAX_PAGE_REFILLS
          MaxStamp,    \* bound: updates of entries
          MaxTurns  \* bound: entries hidden, deleted or created during a walk

VARIABLES stamp,     \* entries.updated_at
          live,      \* entries that are not in the bin
          readable,  \* entries policy lets the caller see
          truths,    \* what SQL makes of each condition for each entry
          walk,      \* the query, the cursor, the request in progress and its answers
          disturbed  \* entries another request has changed since the walk began

listingVars == <<stamp, live, readable, truths, walk, disturbed>>

SqlTruths == {"yes", "no", "unknown"}
Unfiltered == [op |-> "none"]
ListingEnd == <<>>

-----------------------------------------------------------------------------
\* The three-valued value of an expression in a WHERE clause.
RECURSIVE SqlValue(_, _)
SqlValue(x, fact) ==
    CASE x.op = "is" -> fact[x.name]
      [] x.op = "not" -> LET v == SqlValue(x.of, fact)
                         IN  IF v = "unknown" THEN v ELSE IF v = "yes" THEN "no" ELSE "yes"
      [] x.op \in {"all", "any"} ->
            LET values == {SqlValue(x.of[k], fact) : k \in DOMAIN x.of}
                settles == IF x.op = "all" THEN "no" ELSE "yes"
                otherwise == IF x.op = "all" THEN "yes" ELSE "no"
            IN  IF settles \in values THEN settles
                ELSE IF "unknown" \in values THEN "unknown" ELSE otherwise

RECURSIVE RequiresPolicy(_)
RequiresPolicy(x) ==
    CASE x.op = "may" -> TRUE
      [] x.op \in {"none", "is"} -> FALSE
      [] x.op = "not" -> RequiresPolicy(x.of)
      [] x.op \in {"all", "any"} -> \E k \in DOMAIN x.of : RequiresPolicy(x.of[k])

\* The array a mixed expression is projected to: one COALESCEd truth for each
\* database condition, depth first.
RECURSIVE Projection(_, _)
Projection(x, fact) ==
    CASE x.op = "may" -> <<>>
      [] x.op = "is" -> << fact[x.name] = "yes" >>
      [] x.op = "not" -> Projection(x.of, fact)
      [] x.op \in {"all", "any"} ->
            FlattenSeq([k \in DOMAIN x.of |-> Projection(x.of[k], fact)])

\* The conditions before child k of a group, which is where its own begin.
Before(x, k, fact) == Len(FlattenSeq([j \in 1 .. (k - 1) |-> Projection(x.of[j], fact)]))

\* Policy's evaluation of the original tree: each condition takes the next
\* boolean of the array, and no child is skipped.
RECURSIVE Matches(_, _, _, _)
Matches(x, access, array, fact) ==
    LET child(k) == Matches(x.of[k], access,
                            SubSeq(array, Before(x, k, fact) + 1, Len(array)), fact)
    IN  CASE x.op = "may" -> x.name \in access
          [] x.op = "is" -> Head(array)
          [] x.op = "not" -> ~Matches(x.of, access, array, fact)
          [] x.op = "all" -> \A k \in DOMAIN x.of : child(k)
          [] x.op = "any" -> \E k \in DOMAIN x.of : child(k)

\* What the caller may do with an entry: half of the entries are theirs to change.
AccessTo(e) == IF e % 2 = 0 THEN {"read", "write"} ELSE {"read"}

-----------------------------------------------------------------------------
ScanOrder(q) == IF q.take.end = "none" THEN q.sort ELSE q.take.end
RequiresReversal(q) == ScanOrder(q) # q.sort
Wanted(q) == IF q.take.end = "none" \/ q.take.count > q.limit THEN q.limit ELSE q.take.count

\* (updated_at, entry_id) in the direction of the scan.
Precedes(q, a, b) ==
    LET earlier(m, n) == m[1] < n[1] \/ (m[1] = n[1] /\ m[2] < n[2])
    IN  IF ScanOrder(q) = "oldest" THEN earlier(a, b) ELSE earlier(b, a)
Key(e) == <<stamp[e], e>>

\* Behind the cursor of the page before.
Behind(q, cursor, e) == cursor # ListingEnd => Precedes(q, cursor, Key(e))

\* What the WHERE clause leaves.
Candidates(q, cursor) ==
    {e \in live : /\ Behind(q, cursor, e)
                  /\ \/ q.expression.op = "none"
                     \/ RequiresPolicy(q.expression)
                     \/ SqlValue(q.expression, truths[e]) = "yes"}
FirstOf(s, n) == SubSeq(s, 1, IF Len(s) < n THEN Len(s) ELSE n)
Page(q, cursor, limit) ==
    LET sorted == SetToSortSeq(Candidates(q, cursor), LAMBDA a, b : Precedes(q, Key(a), Key(b)))
    IN  [items |-> FirstOf(sorted, limit),
         more |-> Len(sorted) > limit]

\* The candidates the service keeps: policy's half of a mixed filter, and what may be seen.
Kept(q, items) ==
    LET keeps(e) == /\ RequiresPolicy(q.expression) =>
                          Matches(q.expression, AccessTo(e),
                                  Projection(q.expression, truths[e]), truths[e])
                    /\ e \in readable
    IN  SelectSeq(items, keeps)

-----------------------------------------------------------------------------
NoWalk == [phase |-> "none", pages |-> <<>>]
ListingInit ==
    /\ stamp = [e \in Entries |-> e \div 2]
    /\ live \in {Entries, Entries \ {0}}
    /\ readable \in {Entries, {e \in Entries : e % 3 # 0}}
    /\ truths \in Catalogs
    /\ walk = NoWalk
    /\ disturbed = {}

\* list_entries for the first page.
Ask(q) ==
    /\ walk.phase = "none"
    /\ walk' = [phase |-> "reading", query |-> q, cursor |-> ListingEnd, limit |-> q.limit,
                items |-> <<>>, refills |-> 0, pages |-> <<>>]
    /\ disturbed' = {}
    /\ UNCHANGED <<stamp, live, readable, truths>>

\* The page is answered, in the order asked for.
Answer(items, cursor) ==
    LET shown == IF walk.query.take.end # "none" /\ RequiresReversal(walk.query)
                 THEN Reverse(items) ELSE items
    IN  [walk EXCEPT !.phase = IF cursor = ListingEnd THEN "complete" ELSE "answered",
                     !.cursor = cursor, !.items = <<>>, !.pages = Append(@, shown)]

\* The items of the request with those of one more round, up to what it wants.
Gathered(q, kept) == walk.items \o FirstOf(kept, Wanted(q) - Len(walk.items))

\* A refill of an ordinary listing asks only for what is still missing.
RefillsWholePages(q, remaining) == q.limit
RefillLimit(q, remaining) == IF q.take.end = "none" THEN remaining ELSE q.limit

\* An ordinary listing has a budget of refills; a chronological take has none.
GivesUp(q) == q.take.end = "none" /\ walk.refills >= Refills

\* One round of list_entries: a page, what policy leaves of it, and the
\* decision to answer or to ask for what is still missing.
ReadPage ==
    /\ walk.phase = "reading"
    /\ LET q == walk.query
           page == Page(q, walk.cursor, walk.limit)
           items == Gathered(q, Kept(q, page.items))
           cursor == IF page.more THEN Key(Last(page.items)) ELSE ListingEnd
           remaining == Wanted(q) - Len(items)
       IN  walk' = IF remaining = 0
                   THEN Answer(items, IF q.take.end = "none" THEN cursor ELSE ListingEnd)
                   ELSE IF cursor = ListingEnd \/ GivesUp(q) THEN Answer(items, cursor)
                   ELSE [walk EXCEPT !.items = items, !.cursor = cursor, !.refills = @ + 1,
                                     !.limit = RefillLimit(q, remaining)]
    /\ UNCHANGED <<stamp, live, readable, truths, disturbed>>

\* The client follows next_cursor.
Follow ==
    /\ walk.phase = "answered"
    /\ walk' = [walk EXCEPT !.phase = "reading", !.limit = walk.query.limit, !.refills = 0]
    /\ UNCHANGED <<stamp, live, readable, truths, disturbed>>

Walking == walk.phase \in {"reading", "answered"}
LastStamp == CHOOSE n \in {stamp[e] : e \in Entries} : \A e \in Entries : stamp[e] <= n

\* Another request writes a live entry: updated_at moves to now.
Touch(e) ==
    /\ Walking /\ e \in live /\ LastStamp < MaxStamp
    /\ stamp' = [stamp EXCEPT ![e] = LastStamp + 1]
    /\ disturbed' = disturbed \union {e}
    /\ UNCHANGED <<live, readable, truths, walk>>

\* Another request creates, deletes or restores an entry, which stamps it, or
\* gives or takes the caller's access to it, which does not.
Appear(e) ==
    /\ Walking /\ Cardinality(disturbed) < MaxTurns /\ e \notin live /\ LastStamp < MaxStamp
    /\ live' = live \union {e}
    /\ stamp' = [stamp EXCEPT ![e] = LastStamp + 1]
    /\ disturbed' = disturbed \union {e}
    /\ UNCHANGED <<readable, truths, walk>>
Vanish(e) ==
    /\ Walking /\ Cardinality(disturbed) < MaxTurns /\ e \in live
    /\ live' = live \ {e}
    /\ disturbed' = disturbed \union {e}
    /\ UNCHANGED <<stamp, readable, truths, walk>>
Reshare(e) ==
    /\ Walking /\ Cardinality(disturbed) < MaxTurns
    /\ readable' = IF e \in readable THEN readable \ {e} ELSE readable \union {e}
    /\ disturbed' = disturbed \union {e}
    /\ UNCHANGED <<stamp, live, truths, walk>>

ListingNext == \/ \E q \in Queries : Ask(q)
               \/ ReadPage \/ Follow
               \/ \E e \in Entries : Touch(e) \/ Appear(e) \/ Vanish(e) \/ Reshare(e)
ListingSpec == ListingInit /\ [][ListingNext]_listingVars

-----------------------------------------------------------------------------
\* The meaning of a filter: a condition the database cannot decide does not hold.
RECURSIVE Means(_, _)
Means(x, e) ==
    CASE x.op = "none" -> TRUE
      [] x.op = "may" -> x.name \in AccessTo(e)
      [] x.op = "is" -> truths[e][x.name] = "yes"
      [] x.op = "not" -> ~Means(x.of, e)
      [] x.op = "all" -> \A k \in DOMAIN x.of : Means(x.of[k], e)
      [] x.op = "any" -> \E k \in DOMAIN x.of : Means(x.of[k], e)

Shown == FlattenSeq(walk.pages)
Due == {e \in (live \intersect readable) \ disturbed : Means(walk.query.expression, e)}
Times(s, e) == Cardinality({k \in DOMAIN s : s[k] = e})
IndexIn(s, e) == CHOOSE k \in DOMAIN s : s[k] = e

\* Types of the walk: a request holds no more than it wants, and no answer more than a page.
ListingTypeOK ==
    /\ stamp \in [Entries -> 0 .. MaxStamp]
    /\ live \subseteq Entries /\ readable \subseteq Entries /\ disturbed \subseteq Entries
    /\ walk.phase \in {"none", "reading", "answered", "complete"}
    /\ \A k \in DOMAIN walk.pages : walk.pages[k] \in SeqOf(Entries, Wanted(walk.query))
    /\ walk.phase = "reading" => /\ Len(walk.items) < Wanted(walk.query)
                                 /\ walk.limit \in 1 .. walk.query.limit

\* A walk that follows its cursors to the end lists every entry that nobody
\* changed meanwhile, that the caller may see and that the filter means,
\* exactly once: no entry is lost between two pages or between two refills of
\* one, whatever happens to the others (entries.rs, MAX_PAGE_REFILLS).
WalkIsComplete ==
    walk.phase = "complete" /\ walk.query.take.end = "none" =>
        \A e \in Due : Times(Shown, e) = 1

\* Untouched entries come in the order asked for, across pages and refills.
WalkInOrder ==
    walk.phase # "none" /\ walk.query.take.end = "none" =>
        \A a, b \in {e \in Entries \ disturbed : Times(Shown, e) > 0} :
            Precedes(walk.query, Key(a), Key(b)) => IndexIn(Shown, a) < IndexIn(Shown, b)

\* last:N and first:N answer with the N entries at that end of the timeline
\* that the caller may see: an unchanged entry is left out only in favour of N
\* others, and no unchanged one of those lies behind it. They are shown in the
\* order of `sort`, whichever end they come from.
TakeIsTheEnd ==
    walk.phase = "complete" /\ walk.query.take.end # "none" =>
        LET q == walk.query
            taken == {e \in Entries \ disturbed : Times(Shown, e) > 0}
        IN  /\ \A e \in Due \ taken :
                  /\ Len(Shown) = Wanted(q)
                  /\ \A t \in taken : Precedes(q, Key(t), Key(e))
            /\ \A a, b \in taken :
                  (stamp[a] < stamp[b] /\ q.sort = "oldest") \/ (stamp[a] > stamp[b] /\ q.sort = "newest")
                      => IndexIn(Shown, a) < IndexIn(Shown, b)

\* Newest first, an entry that is written during the walk moves behind the
\* cursor: it may be missed but is never listed twice.
NewestNeverTwice ==
    walk.phase # "none" /\ ScanOrder(walk.query) = "newest" =>
        \A e \in Entries : Times(Shown \o walk.items, e) <= 1

\* What a client learns by following the cursors of a listing is right for
\* every entry that nobody touched on the way.
WalksAreFaithful == WalkIsComplete /\ WalkInOrder /\ TakeIsTheEnd /\ NewestNeverTwice

\* What the comment in entries.rs says of refills in either order: within one
\* answer "no entry is fetched twice".
NoEntryTwice == \A k \in DOMAIN walk.pages : IsInjective(walk.pages[k])
=============================================================================
