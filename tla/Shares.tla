-------------------------------- MODULE Shares --------------------------------
(***************************************************************************)
(* The shares of one entry: grants to accounts and legacy tags, permanent   *)
(* or expiring, and the link that anyone may open.  A change locks the      *)
(* entry for its transaction, but the clock goes on between its             *)
(* statements, and the sweep of the workers, which writes expiries into     *)
(* the log, locks only the rows it takes.                                   *)
(*                                                                          *)
(* Time is that of the database; 0 stands for NULL.  The rights a grant     *)
(* conveys are left out except for whether it holds below the entry, and    *)
(* so is everything but the end of a share in the log.                      *)
(***************************************************************************)
EXTENDS Naturals, Sequences, FiniteSets

CONSTANTS
    Principals,   \* accounts
    GrantIds,
    TagGrants,    \* grants to a tag: they are no longer made, but may exist
    Tag, NoOne,
    Lifetimes,    \* of expiring shares
    ShareBatch,   \* rows per statement of the sweep
    MaxShareTime, \* bound on the clock
    MaxChanges    \* bound on the changes begun

ASSUME SharesAssumption ==
    /\ TagGrants \subseteq GrantIds
    /\ NoOne \notin Principals /\ Tag \notin Principals /\ Tag # NoOne
    /\ Lifetimes \subseteq Nat \ {0}
    /\ ShareBatch \in Nat \ {0}
    /\ MaxShareTime \in Nat /\ MaxChanges \in Nat

VARIABLES
    now,      \* clock_timestamp()
    grant,    \* permission_grants and tag_permission_grants
    link,     \* link_public and link_expires_at of the entry
    change,   \* the transaction that holds the lock of the entry
    answered, \* the results of completed grant requests, for their retries
    gone,     \* accounts deleted
    ends,     \* history: the ends in the log, per grant
    linkEnds, \* history: the ends in the log, per expiring link so far
    changes   \* changes begun

sharesVars == <<now, grant, link, change, answered, gone, ends, linkEnds, changes>>

GrantTo(p, inherit, t) ==
    [holder |-> p, inherit |-> inherit, expires |-> t, revoked |-> FALSE, logged |-> FALSE]
NoGrant == GrantTo(NoOne, FALSE, 0)
NoChange == [op |-> "none"]

SharesInit ==
    /\ now = 1
    /\ grant \in {f \in [GrantIds -> {NoGrant} \cup {GrantTo(Tag, FALSE, t) :
                                                  t \in {0} \cup {now + l : l \in Lifetimes}}] :
                    /\ \A g \in GrantIds : f[g] = NoGrant <=> g \notin TagGrants
                    /\ \A g, h \in TagGrants : f[g].expires = 0 /\ f[h].expires = 0 => g = h}
    /\ link = [public |-> FALSE, expires |-> 0, period |-> 0]
    /\ change = NoChange
    /\ answered = {}
    /\ gone = {}
    /\ ends = [g \in GrantIds |-> <<>>]
    /\ linkEnds = [n \in {} |-> <<>>]
    /\ changes = 0

-----------------------------------------------------------------------------
Made(g) == grant[g].holder # NoOne
Expired(g) == grant[g].expires # 0 /\ grant[g].expires <= now
ShareLive(g) == Made(g) /\ ~grant[g].revoked /\ ~Expired(g)
Permanent(g) == ShareLive(g) /\ grant[g].expires = 0

\* The grants that share a holder and a table with g.
Beside(g, p) == {h \in GrantIds : grant[h].holder = p /\ (h \in TagGrants <=> g \in TagGrants)}

LinkLive == link.public /\ (link.expires = 0 \/ link.expires > now)

LocksGrant(g) == change.op \in {"revoke", "extend", "keep"} /\ change.grant = g

-----------------------------------------------------------------------------
(* Changes.  Each begins by locking the entry. *)

Begin ==
    /\ change = NoChange
    /\ changes < MaxChanges
    /\ changes' = changes + 1

\* A new identifier: which one makes no difference.
Fresh == CHOOSE g \in GrantIds \ TagGrants : g \notin answered

\* One statement; the retry of a completed request changes nothing.  The
\* recipient was resolved before, and may have been deleted since.
Grant(g, p, inherit, lifetime) ==
    /\ Begin
    /\ g \notin answered /\ g = Fresh
    /\ LET held == {h \in Beside(g, p) : Permanent(h)}
           row == GrantTo(p, inherit, IF lifetime = 0 THEN 0 ELSE now + lifetime)
       IN grant' = IF lifetime = 0 /\ held # {}
                   THEN [h \in GrantIds |-> IF h \in held THEN [grant[h] EXCEPT !.inherit = inherit]
                                            ELSE grant[h]]
                   ELSE [grant EXCEPT ![g] = row]
    /\ answered' = answered \cup {g}
    /\ UNCHANGED <<now, link, change, gone, ends, linkEnds>>

\* A grant to an account is locked and checked; one to a tag is only read.
BeginRevoke(g) ==
    /\ Begin
    /\ ShareLive(g)
    /\ change' = [op |-> IF g \in TagGrants THEN "revoke_tag" ELSE "revoke", grant |-> g]
    /\ UNCHANGED <<now, grant, link, answered, gone, ends, linkEnds>>

RevokeShare ==
    /\ change.op \in {"revoke", "revoke_tag"}
    /\ grant' = [grant EXCEPT ![change.grant].revoked = TRUE]
    /\ ends' = [ends EXCEPT ![change.grant] = Append(@, "revoked")]
    /\ change' = NoChange
    /\ UNCHANGED <<now, link, answered, gone, linkEnds, changes>>

\* A lifetime of 0 makes the share permanent.
BeginChange(g, lifetime) ==
    /\ Begin
    /\ ShareLive(g) /\ ~Permanent(g)
    /\ change' = [op |-> IF lifetime = 0 THEN "keep" ELSE "extend", grant |-> g, lifetime |-> lifetime]
    /\ UNCHANGED <<now, grant, link, answered, gone, ends, linkEnds>>

Extend ==
    /\ change.op = "extend"
    /\ grant' = [grant EXCEPT ![change.grant].expires = now + change.lifetime]
    /\ change' = NoChange
    /\ UNCHANGED <<now, link, answered, gone, ends, linkEnds, changes>>

FoldInto(g, h) == [grant EXCEPT ![h].inherit = @ \/ grant[g].inherit, ![g].revoked = TRUE]

\* The share becomes permanent, or folds into the permanent grant beside it.
Keep ==
    /\ change.op = "keep"
    /\ LET g == change.grant
           held == {h \in Beside(g, grant[g].holder) : Permanent(h)} IN
       IF held = {}
       THEN /\ grant' = [grant EXCEPT ![g].expires = 0]
            /\ UNCHANGED ends
       ELSE /\ \E h \in held : grant' = FoldInto(g, h)
            /\ ends' = [ends EXCEPT ![g] = Append(@, "folded")]
    /\ change' = NoChange
    /\ UNCHANGED <<now, link, answered, gone, linkEnds, changes>>

\* The setting is read first, the time of a change to it again for the log
\* and for the new setting.  An expiring link never shortens a permanent one.
BeginLink(enabled, lifetime) ==
    /\ Begin
    /\ lifetime # 0 => enabled
    /\ lifetime # 0 => ~(LinkLive /\ link.expires = 0)
    /\ change' = [op |-> "link", enabled |-> enabled, lifetime |-> lifetime,
                  previous |-> IF link.expires > now THEN link.period ELSE 0]
    /\ UNCHANGED <<now, grant, link, answered, gone, ends, linkEnds>>

RecordLinkEnd ==
    /\ change.op = "link"
    /\ change' = [op |-> "set", enabled |-> change.enabled, lifetime |-> change.lifetime,
                  previous |-> change.previous, expired |-> link.expires # 0 /\ link.expires <= now]
    /\ UNCHANGED <<now, grant, link, answered, gone, ends, linkEnds, changes>>

\* What the transaction has written of the period that the change ends.
EndsLink(n) ==
    (IF change.expired /\ n = link.period THEN <<"expired">> ELSE <<>>)
    \o (IF change.previous = n THEN <<"changed">> ELSE <<>>)

SetLink ==
    /\ change.op = "set"
    /\ linkEnds' = [n \in DOMAIN linkEnds \cup (IF change.lifetime = 0 THEN {} ELSE {changes}) |->
                        IF n \in DOMAIN linkEnds THEN linkEnds[n] \o EndsLink(n) ELSE <<>>]
    /\ link' = IF change.lifetime = 0
               THEN [public |-> change.enabled, expires |-> 0, period |-> 0]
               ELSE [public |-> TRUE, expires |-> now + change.lifetime, period |-> changes]
    /\ change' = NoChange
    /\ UNCHANGED <<now, grant, answered, gone, ends, changes>>

\* A change that fails, or a process that stops, takes nothing with it.
ChangeFails ==
    /\ change # NoChange
    /\ change' = NoChange
    /\ UNCHANGED <<now, grant, link, answered, gone, ends, linkEnds, changes>>

-----------------------------------------------------------------------------
(* The sweep: per table the rows that expired first, without waiting for    *)
(* locked ones, and the link unless the entry is locked.                    *)

IsDue(g) == Made(g) /\ Expired(g) /\ ~grant[g].logged /\ ~grant[g].revoked
DueAnyRow(table) == {g \in table : IsDue(g)}
DueShares(table) == {g \in table : IsDue(g) /\ ~LocksGrant(g)}

Swept(table) ==
    {S \in SUBSET DueShares(table) :
        /\ Cardinality(S) <= ShareBatch
        /\ S # DueShares(table) => Cardinality(S) = ShareBatch
        /\ \A g \in S, h \in DueShares(table) \ S : grant[g].expires <= grant[h].expires}

LinkDue == link.expires # 0 /\ link.expires <= now

ClearsLink == LinkDue /\ change = NoChange
ClearLink ==
    IF ClearsLink
    THEN /\ linkEnds' = [linkEnds EXCEPT ![link.period] = Append(@, "expired")]
         /\ link' = [public |-> FALSE, expires |-> 0, period |-> 0]
    ELSE UNCHANGED <<link, linkEnds>>

Sweep ==
    \E members \in Swept(GrantIds \ TagGrants), tags \in Swept(TagGrants) :
        LET swept == members \cup tags IN
        /\ swept # {} \/ ClearsLink
        /\ grant' = [g \in GrantIds |-> [grant[g] EXCEPT !.logged = @ \/ g \in swept]]
        /\ ends' = [g \in GrantIds |-> IF g \in swept THEN Append(ends[g], "expired") ELSE ends[g]]
        /\ ClearLink
        /\ UNCHANGED <<now, change, answered, gone, changes>>

\* The shares of a deleted account end with it.  The rows a change has locked
\* are waited for.
DeleteHolder(p) ==
    LET held == {g \in GrantIds \ TagGrants : grant[g].holder = p /\ ~grant[g].revoked} IN
    /\ p \notin gone
    /\ \A g \in held : ~LocksGrant(g)
    /\ gone' = gone \cup {p}
    /\ grant' = [g \in GrantIds |-> [grant[g] EXCEPT !.revoked = @ \/ g \in held]]
    /\ ends' = [g \in GrantIds |-> IF g \in held THEN Append(ends[g], "revoked") ELSE ends[g]]
    /\ UNCHANGED <<now, link, change, answered, linkEnds, changes>>

ShareTick ==
    /\ now < MaxShareTime
    /\ now' = now + 1
    /\ UNCHANGED <<grant, link, change, answered, gone, ends, linkEnds, changes>>

-----------------------------------------------------------------------------
\* The transaction that holds the lock of the entry goes on.
ChangeStep == RevokeShare \/ Extend \/ Keep \/ RecordLinkEnd \/ SetLink \/ ChangeFails

SharesNext ==
    \/ \E g \in GrantIds \ TagGrants, p \in Principals, i \in BOOLEAN, l \in {0} \cup Lifetimes :
        Grant(g, p, i, l)
    \/ \E g \in GrantIds :
        \/ BeginRevoke(g)
        \/ \E l \in {0} \cup Lifetimes : BeginChange(g, l)
    \/ \E e \in BOOLEAN, l \in {0} \cup Lifetimes : BeginLink(e, l)
    \/ ChangeStep
    \/ Sweep
    \/ \E p \in Principals : DeleteHolder(p)
    \/ ShareTick

\* Workers sweep on every poll, and a transaction ends.
SharesFairness ==
    /\ WF_sharesVars(Sweep)
    /\ WF_sharesVars(ChangeStep)

SharesSpec == SharesInit /\ [][SharesNext]_sharesVars /\ SharesFairness

-----------------------------------------------------------------------------
(* Properties. *)

\* The rows of the tables, with their CHECK constraints.
SharesTypeOK ==
    /\ now \in 1..MaxShareTime /\ changes \in 0..MaxChanges
    /\ \A g \in GrantIds :
        /\ grant[g].holder \in Principals \cup {NoOne, Tag}
        /\ grant[g].logged => grant[g].expires # 0
        /\ grant[g].expires \in 0..(MaxShareTime + MaxShareTime)
    /\ link.expires # 0 => link.public /\ link.period \in DOMAIN linkEnds
    /\ answered \subseteq GrantIds /\ gone \subseteq Principals

\* A principal has one permanent grant at most: no change of a share runs into
\* the unique index on those.
OnePermanent ==
    \A g \in GrantIds : Permanent(g) => {h \in Beside(g, grant[g].holder) : Permanent(h)} = {g}

\* The log names one end of a share, whether it expires, is revoked or is
\* folded into a permanent one.  (Not of a share to a tag, which is revoked
\* without a lock, nor of one to a deleted account, whose revocation includes
\* shares that have already expired.)
EndsRecordedOnce ==
    \A g \in GrantIds \ TagGrants : grant[g].holder \notin gone => Len(ends[g]) <= 1

\* A share whose end is in the log gives no access again: nobody extends it or
\* makes it permanent while the sweep writes it off.
EndedStaysEnded == \A g \in GrantIds : ends[g] # <<>> => ~ShareLive(g)

\* The log names an end of every expiring link that is no longer set, and its
\* expiry once at most, however a change of the link falls on its expiry.
LinkEndsRecorded ==
    \A n \in DOMAIN linkEnds :
        /\ n # link.period => linkEnds[n] # <<>>
        /\ Cardinality({i \in DOMAIN linkEnds[n] : linkEnds[n][i] = "expired"}) <= 1

\* A share or a link ends once, for good and with a word in the log, whatever
\* its owner does while the sweep writes it off.
SharesEndOnce == OnePermanent /\ EndsRecordedOnce /\ EndedStaysEnded /\ LinkEndsRecorded

\* What the grants of a holder convey: the entry, and what lies below it.
Conveyed(p) ==
    LET live == {g \in GrantIds : grant[g].holder = p /\ ShareLive(g)}
    IN {x \in {"entry", "below"} : \E g \in live : x = "below" => grant[g].inherit}

\* To make an expiring share permanent takes no access from anyone.
KeepingTakesNothing ==
    [][change.op = "keep" /\ change' = NoChange =>
        \A p \in Principals \cup {Tag} : Conveyed(p) \subseteq Conveyed(p)']_sharesVars

\* No share stays expired without a word in the log: the sweep writes it off,
\* unless it is revoked, or extended by a change that was under way.
ExpiriesRecorded ==
    \A g \in GrantIds : []<>(Made(g) /\ Expired(g) => grant[g].logged \/ grant[g].revoked)

\* A completed grant can be answered again from the grant it names.
GrantRetryAnswered == \A g \in answered : Made(g)
=============================================================================
