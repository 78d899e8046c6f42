---------------------------- MODULE Services_proofs ----------------------------
(***************************************************************************)
(* Safety of components that share no state, each for any number of its     *)
(* actors: the outbox and its hosts, the search index and its passes, the   *)
(* configurations of customer storage with their handlers, the shares of    *)
(* an entry with the sweep that writes them off, the command-line processes *)
(* that share a profile, and the copy of an object that a restore makes.    *)
(***************************************************************************)
EXTENDS Outbox, SearchIndex, StorageConfiguration, Shares, CommandLine, VersionCopy,
        FiniteSetTheorems, SequenceTheorems, WellFoundedInduction, TLAPS

-----------------------------------------------------------------------------
(* The outbox.  Every mail is paid for: by the delivery, or by a fault.  A   *)
(* host that is overtaken has the fault of its lapsed lease to spend, so the *)
(* hosts overdue are counted together with the mails.                        *)

\* One host moves on one event: the other hosts count as before.
LEMMA OneHostMoves ==
    ASSUME OutboxInductive, NEW e \in Events, NEW h \in Hosts,
           \A g \in Hosts \ {h} : work'[g][e] = work[g][e] /\ (InTime(g, e)' <=> InTime(g, e))
    PROVE  \E n \in Nat :
                /\ Cardinality(Overdue(e)) = n + (IF h \in Overdue(e) THEN 1 ELSE 0)
                /\ Cardinality(Overdue(e)') = n + (IF h \in Overdue(e)' THEN 1 ELSE 0)
<1> DEFINE rest == Overdue(e) \ {h}
<1>1. IsFiniteSet(Overdue(e)) /\ IsFiniteSet(Overdue(e)')
  BY OutboxAssumption, FS_Subset DEF Overdue
<1>2. rest = Overdue(e)' \ {h}
  BY DEF Overdue
<1>3. IsFiniteSet(rest) /\ Cardinality(rest) \in Nat
  BY <1>1, FS_Subset, FS_CardinalityType
<1>4. Cardinality(Overdue(e)) = Cardinality(rest) + (IF h \in Overdue(e) THEN 1 ELSE 0)
  BY <1>1, FS_RemoveElement, FS_CardinalityType
<1>5. Cardinality(Overdue(e)') = Cardinality(rest) + (IF h \in Overdue(e)' THEN 1 ELSE 0)
  <2>1. CASE h \in Overdue(e)'
    <3> SUFFICES ASSUME NEW T, T = Overdue(e)'
                 PROVE  Cardinality(T) = Cardinality(rest) + 1
      BY <2>1
    <3>1. IsFiniteSet(T) /\ h \in T /\ rest = T \ {h}
      BY <1>1, <1>2, <2>1
    <3> HIDE DEF rest
    <3>2. Cardinality(T) \in Nat
      BY <3>1, FS_CardinalityType
    <3>3. Cardinality(T \ {h}) = Cardinality(T) - 1
      BY <3>1, FS_RemoveElement
    <3> QED BY <3>1, <3>2, <3>3
  <2>2. CASE h \notin Overdue(e)'
    <3>1. Overdue(e)' = rest
      BY <1>2, <2>2
    <3> QED BY <2>2, <3>1, <1>3
  <2> QED BY <2>1, <2>2
<1> QED BY <1>3, <1>4, <1>5

\* An event that a step leaves alone stays paid for.
LEMMA UntouchedStaysPaid ==
    ASSUME NEW e \in Events, MailsPaid(e), event'[e] = event[e],
           \A h \in Hosts : work'[h][e] = work[h][e],
           mails'[e] = mails[e], faults'[e] = faults[e]
    PROVE  MailsPaid(e)'
<1>1. \A h \in Hosts : InTime(h, e)' <=> InTime(h, e)
  BY DEF InTime, Holds
<1>2. Overdue(e)' = Overdue(e)
  BY <1>1 DEF Overdue
<1>3. Delivering(e)' <=> Delivering(e)
  BY <1>1 DEF Delivering
<1> QED BY <1>2, <1>3 DEF MailsPaid

\* What a step of one host h on one event e has to show: the other hosts are
\* as they were, and what is newly mailed or overdue is paid for.
LEMMA OneEventPaid ==
    ASSUME OutboxInductive, EventRows', NEW e \in Events, NEW h \in Hosts,
           \A g \in Hosts \ {h} : work'[g][e] = work[g][e] /\ (InTime(g, e)' <=> InTime(g, e)),
           event'[e].status = "delivered" <=>
                (event[e].status = "delivered" \/ (work[h][e] = "sent" /\ Holds(h, e) /\ ~Holds(h, e)')),
           mails'[e] \in {mails[e], mails[e] + 1},
           faults'[e] \in {faults[e], faults[e] + 1},
           mails'[e] + (IF h \in Overdue(e)' THEN 1 ELSE 0)
                + (IF InTime(h, e) /\ work[h][e] = "sent" THEN 1 ELSE 0) + faults[e]
             <= mails[e] + (IF h \in Overdue(e) THEN 1 ELSE 0)
                + (IF \/ InTime(h, e)' /\ work'[h][e] = "sent"
                      \/ event'[e].status = "delivered" /\ event[e].status # "delivered"
                   THEN 1 ELSE 0) + faults'[e],
           work'[h][e] = "sent" => work[h][e] = "sent" \/ mails'[e] = mails[e] + 1
    PROVE  MailsPaid(e)'
<1>1. mails[e] \in Nat /\ faults[e] \in Nat
  BY DEF OutboxInductive, EventRows
<1>2. PICK n \in Nat :
        /\ Cardinality(Overdue(e)) = n + (IF h \in Overdue(e) THEN 1 ELSE 0)
        /\ Cardinality(Overdue(e)') = n + (IF h \in Overdue(e)' THEN 1 ELSE 0)
  BY OneHostMoves
<1>3. MailsPaid(e)
  BY DEF OutboxInductive
<1>4. \A g \in Hosts : InTime(h, e) /\ InTime(g, e) => g = h
  BY DEF InTime, Holds
<1>5. event[e].status = "delivered" => \A g \in Hosts : ~InTime(g, e)
  BY DEF InTime, Holds
<1>6. event'[e].status = "delivered" => \A g \in Hosts : ~InTime(g, e)'
  BY DEF InTime, Holds
<1> DEFINE before == InTime(h, e) /\ work[h][e] = "sent"
           after == \/ InTime(h, e)' /\ work'[h][e] = "sent"
                    \/ event'[e].status = "delivered" /\ event[e].status # "delivered"
<1>7. mails'[e] + Cardinality(Overdue(e)') <= faults'[e] + (IF Delivering(e)' THEN 1 ELSE 0)
  <2>1. before => Delivering(e)
    BY DEF Delivering
  <2>2. after => Delivering(e)'
    BY DEF Delivering
  <2>3. Delivering(e) /\ ~before => Delivering(e)' /\ ~after
    <3> SUFFICES ASSUME Delivering(e), ~before PROVE Delivering(e)' /\ ~after
      OBVIOUS
    <3>1. CASE event[e].status = "delivered"
      BY <3>1, <1>6 DEF Delivering
    <3>2. CASE event[e].status # "delivered"
      <4>1. PICK g \in Hosts : InTime(g, e) /\ work[g][e] = "sent"
        BY <3>2 DEF Delivering
      <4>2. g # h /\ InTime(g, e)' /\ work'[g][e] = "sent"
        BY <4>1
      <4>3. ~InTime(h, e)' /\ event'[e].status # "delivered"
        BY <4>2, <1>6 DEF InTime, Holds
      <4> QED BY <4>2, <4>3 DEF Delivering
    <3> QED BY <3>1, <3>2
  <2>4. mails[e] + Cardinality(Overdue(e)) <= faults[e] + (IF Delivering(e) THEN 1 ELSE 0)
    BY <1>3 DEF MailsPaid
  <2>5. mails'[e] + (IF h \in Overdue(e)' THEN 1 ELSE 0) + (IF before THEN 1 ELSE 0) + faults[e]
            <= mails[e] + (IF h \in Overdue(e) THEN 1 ELSE 0) + (IF after THEN 1 ELSE 0) + faults'[e]
    OBVIOUS
  <2> HIDE DEF before, after
  <2> QED BY <1>1, <1>2, <2>1, <2>2, <2>3, <2>4, <2>5
<1>8. event'[e].status = "delivered" \/ (\E g \in Hosts : work'[g][e] = "sent") => mails'[e] > 0
  BY <1>1, <1>3 DEF MailsPaid
<1> QED BY <1>7, <1>8 DEF MailsPaid

\* What a step of one host on one event leaves alone.
Elsewhere(h, e) ==
    /\ \A x \in Events \ {e} : event'[x] = event[x] /\ mails'[x] = mails[x] /\ faults'[x] = faults[x]
    /\ \A g \in Hosts, x \in Events : g # h \/ x # e => work'[g][x] = work[g][x]

\* So such a step keeps the invariant if it does for its own event.
LEMMA OwnEventDecides ==
    ASSUME OutboxInductive, EventRows', NEW h \in Hosts, NEW e \in Events,
           Elsewhere(h, e), MailsPaid(e)'
    PROVE  OutboxInductive'
<1>1. ASSUME NEW x \in Events, x # e PROVE MailsPaid(x)'
  BY <1>1, UntouchedStaysPaid DEF Elsewhere, OutboxInductive
<1> QED BY <1>1 DEF OutboxInductive

\* A host moves to another stage with an event whose row stays.
LEMMA StageKeepsRows ==
    ASSUME EventRows, NEW h \in Hosts, NEW e \in Events,
           NEW stage \in {"idle", "claimed", "posting", "sent", "failed"},
           At(h, e, stage)
    PROVE  /\ work' \in [Hosts -> [Events -> {"idle", "claimed", "posting", "sent", "failed"}]]
           /\ work'[h][e] = stage
           /\ \A g \in Hosts, x \in Events : g # h \/ x # e => work'[g][x] = work[g][x]
  BY DEF EventRows, At

\* A fault is counted for its event, within its bound.
LEMMA FaultCounts ==
    ASSUME EventRows, NEW e \in Events, Fault(e)
    PROVE  /\ faults' \in [Events -> 0..MaxFaults]
           /\ faults'[e] = faults[e] + 1
           /\ \A x \in Events \ {e} : faults'[x] = faults[x]
<1>1. faults[e] \in 0..MaxFaults /\ faults[e] < MaxFaults
  BY DEF EventRows, Fault
<1>2. faults[e] + 1 \in 0..MaxFaults
  BY <1>1, OutboxAssumption
<1> QED BY <1>2 DEF EventRows, Fault

\* Undeliverable, Post, Accept and Refuse: a mail is sent by a host that may
\* record its delivery, or is paid for.
LEMMA DispatchPaid ==
    ASSUME OutboxInductive, NEW h \in Hosts, NEW e \in Events,
           Undeliverable(h, e) \/ Post(h, e) \/ Accept(h, e) \/ Refuse(h, e)
    PROVE  OutboxInductive'
<1>0. EventRows /\ mails[e] \in Nat /\ faults[e] \in Nat
  BY DEF OutboxInductive, EventRows
<1>1. event' = event
  BY DEF Undeliverable, Post, Accept, Refuse
<1>2. \A g \in Hosts, x \in Events : InTime(g, x)' <=> InTime(g, x)
  BY <1>1 DEF InTime, Holds
<1>3. ASSUME NEW stage \in {"idle", "claimed", "posting", "sent", "failed"}, At(h, e, stage),
             work[h][e] \in {"claimed", "posting"}, stage = "sent" => mails'[e] = mails[e] + 1,
             \/ mails' = mails /\ faults' = faults
             \/ /\ mails' = [mails EXCEPT ![e] = @ + 1] /\ stage \in {"sent", "failed"}
                /\ IF stage = "sent" THEN faults' = faults ELSE Fault(e)
      PROVE  OutboxInductive'
  <2>1. /\ work' \in [Hosts -> [Events -> {"idle", "claimed", "posting", "sent", "failed"}]]
        /\ work'[h][e] = stage
        /\ \A g \in Hosts, x \in Events : g # h \/ x # e => work'[g][x] = work[g][x]
    BY <1>0, <1>3, StageKeepsRows
  <2>2. /\ mails' \in [Events -> Nat] /\ faults' \in [Events -> 0..MaxFaults]
        /\ \A x \in Events \ {e} : mails'[x] = mails[x] /\ faults'[x] = faults[x]
    <3>1. mails' \in [Events -> Nat] /\ \A x \in Events \ {e} : mails'[x] = mails[x]
      BY <1>0, <1>3 DEF EventRows
    <3>2. faults' \in [Events -> 0..MaxFaults] /\ \A x \in Events \ {e} : faults'[x] = faults[x]
      BY <1>0, <1>3, FaultCounts DEF EventRows
    <3> QED BY <3>1, <3>2
  <2>3. EventRows'
    BY <1>0, <1>1, <2>1, <2>2 DEF EventRows
  <2>4. Elsewhere(h, e)
    BY <1>1, <2>1, <2>2 DEF Elsewhere
  <2>5. \/ mails'[e] = mails[e] /\ faults'[e] = faults[e] /\ stage # "sent"
        \/ /\ mails'[e] = mails[e] + 1 /\ stage = "sent" /\ faults'[e] = faults[e]
        \/ /\ mails'[e] = mails[e] + 1 /\ stage = "failed" /\ faults'[e] = faults[e] + 1
    BY <1>0, <1>3 DEF EventRows, Fault
  <2>6. /\ h \in Overdue(e) <=> ~InTime(h, e)
        /\ h \in Overdue(e)' <=> stage \in {"claimed", "posting"} /\ ~InTime(h, e)
        /\ work[h][e] # "sent"
    BY <1>2, <1>3, <2>1 DEF Overdue
  <2>7. MailsPaid(e)'
    BY <1>0, <1>1, <1>2, <2>1, <2>3, <2>5, <2>6, OneEventPaid
  <2> QED BY <2>3, <2>4, <2>7, OwnEventDecides
<1>4. CASE Undeliverable(h, e)
  BY <1>3, <1>4 DEF Undeliverable
<1>5. CASE Post(h, e)
  BY <1>3, <1>5 DEF Post
<1>6. CASE Refuse(h, e)
  BY <1>3, <1>6 DEF Refuse
<1>7. CASE Accept(h, e)
  <2>1. mails' = [mails EXCEPT ![e] = @ + 1] /\ mails'[e] = mails[e] + 1
    BY <1>0, <1>7 DEF Accept, EventRows
  <2> QED BY <1>3, <1>7, <2>1 DEF Accept
<1> QED BY <1>4, <1>5, <1>6, <1>7

\* A host settles the row it holds: the row is consistent, and nobody holds it.
LEMMA EndedRow ==
    ASSUME EventRows, NEW e \in Events, NEW status \in {"pending"} \cup Final, EndsAs(e, status)
    PROVE  /\ event' \in [Events -> [status : {"none", "pending", "processing"} \cup Final,
                             attempts : 0..MaxAttempts,
                             holder : Hosts \cup {Nobody}, lease : {"none", "on", "over"}]]
           /\ \A x \in Events : event'[x].status = "processing" <=> event'[x].holder \in Hosts
           /\ event'[e].status = status
           /\ \A x \in Events \ {e} : event'[x] = event[x]
           /\ \A h \in Hosts : ~Holds(h, e)'
<1>1. event'[e] = [event[e] EXCEPT !.status = status, !.holder = Nobody, !.lease = "none"]
  BY DEF EventRows, EndsAs
<1>2. \A x \in Events \ {e} : event'[x] = event[x]
  BY DEF EventRows, EndsAs
<1>3. event'[e] \in [status : {"none", "pending", "processing"} \cup Final, attempts : 0..MaxAttempts,
                    holder : Hosts \cup {Nobody}, lease : {"none", "on", "over"}]
  <2>0. event[e] \in [status : {"none", "pending", "processing"} \cup Final, attempts : 0..MaxAttempts,
                     holder : Hosts \cup {Nobody}, lease : {"none", "on", "over"}]
    BY DEF EventRows
  <2>1. event'[e] = [status |-> status, attempts |-> event[e].attempts,
                     holder |-> Nobody, lease |-> "none"]
    BY <1>1, <2>0
  <2>2. event[e].attempts \in 0..MaxAttempts
    BY DEF EventRows
  <2> QED BY <2>1, <2>2
<1>4. event'[e].status = status /\ event'[e].holder = Nobody /\ status # "processing"
  BY <1>1 DEF EventRows, Final
<1>5. event' = [x \in Events |-> event'[x]]
  BY DEF EventRows, EndsAs
<1>6. event' \in [Events -> [status : {"none", "pending", "processing"} \cup Final,
                             attempts : 0..MaxAttempts,
                             holder : Hosts \cup {Nobody}, lease : {"none", "on", "over"}]]
  BY <1>2, <1>3, <1>5 DEF EventRows
<1>7. \A x \in Events : event'[x].status = "processing" <=> event'[x].holder \in Hosts
  BY <1>2, <1>4, OutboxAssumption DEF EventRows
<1> QED BY <1>2, <1>4, <1>6, <1>7 DEF Holds

\* MarkDelivered and ReleaseFailure: only a mail that was sent is recorded as
\* delivered, and only by the host that holds the row.
LEMMA SettlePaid ==
    ASSUME OutboxInductive, NEW h \in Hosts, NEW e \in Events,
           MarkDelivered(h, e) \/ ReleaseFailure(h, e)
    PROVE  OutboxInductive'
<1>0. EventRows /\ mails[e] \in Nat /\ faults[e] \in Nat
  BY DEF OutboxInductive, EventRows
<1>1. At(h, e, "idle") /\ mails' = mails /\ faults' = faults /\ work[h][e] \in {"sent", "failed"}
  BY DEF MarkDelivered, ReleaseFailure
<1>2. /\ work' \in [Hosts -> [Events -> {"idle", "claimed", "posting", "sent", "failed"}]]
      /\ work'[h][e] = "idle"
      /\ \A g \in Hosts, x \in Events : g # h \/ x # e => work'[g][x] = work[g][x]
  BY <1>0, <1>1, StageKeepsRows
<1>3. h \notin Overdue(e) /\ h \notin Overdue(e)'
  BY <1>1, <1>2 DEF Overdue
<1>4. CASE ~Holds(h, e)
  <2>1. event' = event
    BY <1>4 DEF MarkDelivered, ReleaseFailure
  <2>2. EventRows'
    BY <1>0, <1>1, <1>2, <2>1 DEF EventRows
  <2>3. \A g \in Hosts : InTime(g, e)' <=> InTime(g, e)
    BY <2>1 DEF InTime, Holds
  <2>4. ~InTime(h, e) /\ Elsewhere(h, e)
    BY <1>1, <1>2, <1>4, <2>1 DEF InTime, Elsewhere
  <2>5. MailsPaid(e)'
    BY <1>0, <1>1, <1>2, <1>3, <1>4, <2>1, <2>2, <2>3, <2>4, OneEventPaid
  <2> QED BY <2>2, <2>4, <2>5, OwnEventDecides
<1>5. CASE Holds(h, e)
  <2>1. PICK status \in {"pending"} \cup Final :
            EndsAs(e, status) /\ (status = "delivered" <=> work[h][e] = "sent")
    BY <1>5 DEF MarkDelivered, ReleaseFailure, Final
  <2>2. /\ event' \in [Events -> [status : {"none", "pending", "processing"} \cup Final,
                             attempts : 0..MaxAttempts,
                             holder : Hosts \cup {Nobody}, lease : {"none", "on", "over"}]]
        /\ \A x \in Events : event'[x].status = "processing" <=> event'[x].holder \in Hosts
        /\ event'[e].status = status
        /\ \A x \in Events \ {e} : event'[x] = event[x]
        /\ \A g \in Hosts : ~Holds(g, e)'
    BY <1>0, <2>1, EndedRow
  <2>3. EventRows'
    BY <1>0, <1>1, <1>2, <2>2 DEF EventRows
  <2>4. \A g \in Hosts \ {h} : ~InTime(g, e) /\ ~InTime(g, e)'
    BY <1>5, <2>2 DEF InTime, Holds
  <2>5. ~InTime(h, e)' /\ event[e].status # "delivered" /\ Elsewhere(h, e)
    BY <1>1, <1>2, <1>5, <2>2 DEF InTime, Elsewhere, Holds
  <2>6. MailsPaid(e)'
    BY <1>0, <1>1, <1>2, <1>3, <1>5, <2>1, <2>2, <2>3, <2>4, <2>5, OneEventPaid
  <2> QED BY <2>3, <2>5, <2>6, OwnEventDecides
<1> QED BY <1>4, <1>5

\* LeaseLost and StatementFails: a host drops an event, whose request may still
\* be taken; the lapsed lease or the failed statement pays for that mail.
LEMMA DropPaid ==
    ASSUME OutboxInductive, NEW h \in Hosts, NEW e \in Events,
           LeaseLost(h, e) \/ StatementFails(h, e)
    PROVE  OutboxInductive'
<1>0. EventRows /\ mails[e] \in Nat /\ faults[e] \in Nat
  BY DEF OutboxInductive, EventRows
<1>1. /\ At(h, e, "idle") /\ event' = event /\ work[h][e] # "idle"
      /\ mails' \in {mails, IF work[h][e] = "posting" THEN [mails EXCEPT ![e] = @ + 1] ELSE mails}
      /\ (faults' = faults /\ ~InTime(h, e)) \/ Fault(e)
  BY DEF LeaseLost, StatementFails, Orphaned, InTime
<1>2. /\ work' \in [Hosts -> [Events -> {"idle", "claimed", "posting", "sent", "failed"}]]
      /\ work'[h][e] = "idle"
      /\ \A g \in Hosts, x \in Events : g # h \/ x # e => work'[g][x] = work[g][x]
  BY <1>0, <1>1, StageKeepsRows
<1>3. /\ mails' \in [Events -> Nat] /\ \A x \in Events \ {e} : mails'[x] = mails[x]
      /\ mails'[e] = mails[e] \/ (mails'[e] = mails[e] + 1 /\ work[h][e] = "posting")
  <2>1. CASE mails' = mails
    BY <1>0, <2>1 DEF EventRows
  <2>2. CASE mails' # mails
    <3>1. mails' = [mails EXCEPT ![e] = @ + 1] /\ work[h][e] = "posting"
      BY <1>1, <2>2
    <3> QED BY <1>0, <3>1 DEF EventRows
  <2> QED BY <2>1, <2>2
<1>4. /\ faults' \in [Events -> 0..MaxFaults] /\ \A x \in Events \ {e} : faults'[x] = faults[x]
      /\ (faults'[e] = faults[e] /\ ~InTime(h, e)) \/ faults'[e] = faults[e] + 1
  BY <1>0, <1>1, FaultCounts DEF EventRows
<1>5. EventRows' /\ Elsewhere(h, e)
  BY <1>0, <1>1, <1>2, <1>3, <1>4 DEF EventRows, Elsewhere
<1>6. \A g \in Hosts : InTime(g, e)' <=> InTime(g, e)
  BY <1>1 DEF InTime, Holds
<1>7. /\ h \notin Overdue(e)'
      /\ h \in Overdue(e) <=> work[h][e] \in {"claimed", "posting"} /\ ~InTime(h, e)
  BY <1>2 DEF Overdue
<1>8. event'[e].status = "delivered" <=>
        (event[e].status = "delivered" \/ (work[h][e] = "sent" /\ Holds(h, e) /\ ~Holds(h, e)'))
  BY <1>1 DEF Holds
<1>9. MailsPaid(e)'
  BY <1>0, <1>1, <1>2, <1>3, <1>4, <1>5, <1>6, <1>7, <1>8, OneEventPaid
<1> QED BY <1>5, <1>9, OwnEventDecides

\* LeaseEnds: if the holder is at work, it is overdue from now on, and the lapse
\* is the fault that pays for what it may still send.
LEMMA LapsePaid ==
    ASSUME OutboxInductive, NEW e \in Events, LeaseEnds(e)
    PROVE  OutboxInductive'
<1> SUFFICES ASSUME NEW h \in Hosts, h = event[e].holder PROVE OutboxInductive'
  BY DEF OutboxInductive, EventRows, LeaseEnds
<1>0. EventRows /\ mails[e] \in Nat /\ faults[e] \in Nat
  BY DEF OutboxInductive, EventRows
<1>1. /\ InTime(h, e) /\ mails' = mails /\ work' = work
      /\ event' = [event EXCEPT ![e].lease = "over"]
      /\ IF work[h][e] # "idle" THEN Fault(e) ELSE faults' = faults
  BY DEF LeaseEnds, InTime, Holds
<1>2. /\ event'[e].status = event[e].status /\ event'[e].holder = event[e].holder
      /\ event'[e].lease = "over" /\ \A x \in Events \ {e} : event'[x] = event[x]
      /\ event' \in [Events -> [status : {"none", "pending", "processing"} \cup Final,
                             attempts : 0..MaxAttempts,
                             holder : Hosts \cup {Nobody}, lease : {"none", "on", "over"}]]
  BY <1>0, <1>1 DEF EventRows
<1>3. /\ faults' \in [Events -> 0..MaxFaults] /\ \A x \in Events \ {e} : faults'[x] = faults[x]
      /\ faults'[e] = faults[e] + (IF work[h][e] # "idle" THEN 1 ELSE 0)
  BY <1>0, <1>1, FaultCounts DEF EventRows
<1>4. EventRows' /\ Elsewhere(h, e)
  BY <1>0, <1>1, <1>2, <1>3 DEF EventRows, Elsewhere
<1>5. ~InTime(h, e)' /\ \A g \in Hosts \ {h} : ~InTime(g, e) /\ ~InTime(g, e)'
  BY <1>1, <1>2 DEF InTime, Holds
<1>6. /\ h \notin Overdue(e)
      /\ h \in Overdue(e)' <=> work[h][e] \in {"claimed", "posting"}
  BY <1>1, <1>5 DEF Overdue
<1>7. event'[e].status = "delivered" <=>
        (event[e].status = "delivered" \/ (work[h][e] = "sent" /\ Holds(h, e) /\ ~Holds(h, e)'))
  BY <1>2 DEF Holds
<1>8. event[e].status # "delivered"
  BY <1>1 DEF InTime, Holds
<1>9. MailsPaid(e)'
  BY <1>0, <1>1, <1>2, <1>3, <1>4, <1>5, <1>6, <1>7, <1>8, OneEventPaid
<1> QED BY <1>4, <1>9, OwnEventDecides

\* A claim is made by a host at rest, of events that nobody holds in time.
LEMMA ClaimPaid ==
    ASSUME OutboxInductive, NEW h \in Hosts, Claim(h) \/ ClaimLost(h)
    PROVE  OutboxInductive'
<1>0. EventRows
  BY DEF OutboxInductive
<1>1. /\ Idle(h) /\ mails' = mails
      /\ event' = [e \in Events |-> IF e \in Batch
            THEN [status |-> "processing", attempts |-> NextAttempt(event[e].attempts),
                  holder |-> h, lease |-> "on"]
            ELSE event[e]]
  BY DEF Claim, ClaimLost, ClaimFor
<1>2. \A e \in Batch : Claimable(e)
  BY DEF Batch
<1> HIDE DEF Batch
<1>3. /\ work' \in [Hosts -> [Events -> {"idle", "claimed", "posting", "sent", "failed"}]]
      /\ \A g \in Hosts \ {h}, e \in Events : work'[g][e] = work[g][e]
      /\ \A e \in Events : work'[h][e] = "idle" \/ (work'[h][e] = "claimed" /\ e \in Batch)
  BY <1>0, <1>1 DEF Claim, ClaimLost, EventRows, Idle
<1>4. \A e \in Events : NextAttempt(event[e].attempts) \in 0..MaxAttempts
  BY <1>0, OutboxAssumption DEF NextAttempt, EventRows
<1>5. /\ faults' \in [Events -> 0..MaxFaults]
      /\ \A e \in Events : faults'[e] >= faults[e] /\ faults[e] \in Nat /\ faults'[e] \in Nat
  <2>1. CASE Claim(h)
    BY <1>0, <2>1, OutboxAssumption DEF Claim, EventRows
  <2>2. CASE ClaimLost(h)
    <3>1. \A e \in Events : faults[e] \in 0..MaxFaults /\ (e \in Batch => faults[e] < MaxFaults)
      BY <1>0, <2>2 DEF ClaimLost, EventRows
    <3>2. faults' = [e \in Events |-> IF e \in Batch THEN faults[e] + 1 ELSE faults[e]]
      BY <2>2 DEF ClaimLost
    <3> QED BY <3>1, <3>2, OutboxAssumption
  <2> QED BY <2>1, <2>2
<1>6. EventRows'
  BY <1>0, <1>1, <1>3, <1>4, <1>5 DEF EventRows
<1>7. ASSUME NEW e \in Events PROVE MailsPaid(e)'
  <2>1. MailsPaid(e) /\ mails[e] \in Nat
    BY <1>0 DEF OutboxInductive, EventRows
  <2>2. work[h][e] = "idle"
    BY <1>1 DEF Idle
  <2>3. CASE e \in Batch
    <3>1. /\ event'[e].status = "processing" /\ event'[e].holder = h /\ event'[e].lease = "on"
          /\ event[e].status # "delivered"
      BY <1>1, <1>2, <2>3 DEF Claimable
    <3>2. \A g \in Hosts : ~InTime(g, e) /\ (InTime(g, e)' <=> g = h)
      BY <1>2, <2>3, <3>1 DEF Claimable, InTime, Holds
    <3>3. Overdue(e)' = Overdue(e)
      BY <1>3, <2>2, <3>2 DEF Overdue
    <3>4. ~Delivering(e) /\ ~Delivering(e)'
      BY <1>3, <3>1, <3>2 DEF Delivering
    <3>5. mails'[e] + Cardinality(Overdue(e)') <= faults'[e]
      <4>1. IsFiniteSet(Overdue(e)) /\ Cardinality(Overdue(e)) \in Nat
        BY OutboxAssumption, FS_Subset, FS_CardinalityType DEF Overdue
      <4>2. faults[e] \in Nat /\ faults'[e] \in Nat /\ faults[e] <= faults'[e]
        BY <1>5
      <4>3. mails[e] + Cardinality(Overdue(e)) <= faults[e]
        BY <2>1, <3>4, <4>1, <4>2 DEF MailsPaid
      <4> SUFFICES ASSUME NEW T, T = Overdue(e)' PROVE mails'[e] + Cardinality(T) <= faults'[e]
        OBVIOUS
      <4>4. T = Overdue(e) /\ mails'[e] = mails[e]
        BY <1>1, <3>3
      <4> HIDE DEF Overdue
      <4> QED BY <2>1, <4>1, <4>2, <4>3, <4>4
    <3> QED BY <1>1, <1>3, <1>5, <2>1, <2>2, <3>1, <3>4, <3>5 DEF MailsPaid
  <2>4. CASE e \notin Batch
    <3>1. event'[e] = event[e] /\ mails'[e] = mails[e] /\ work'[h][e] = "idle"
      BY <1>1, <1>3, <2>4
    <3>2. faults'[e] = faults[e]
      BY <1>0, <2>4 DEF Claim, ClaimLost, EventRows
    <3> QED BY <1>3, <2>1, <2>2, <3>1, <3>2, UntouchedStaysPaid
  <2> QED BY <2>3, <2>4
<1> QED BY <1>6, <1>7 DEF OutboxInductive

\* A host that stops leaves a fault for every event it was at.
LEMMA StopPaid ==
    ASSUME OutboxInductive, NEW h \in Hosts, HostStops(h)
    PROVE  OutboxInductive'
<1>0. EventRows
  BY DEF OutboxInductive
<1>1. /\ event' = event
      /\ work' = [work EXCEPT ![h] = [e \in Events |-> "idle"]]
      /\ faults' = [e \in Events |-> IF work[h][e] # "idle" THEN faults[e] + 1 ELSE faults[e]]
      /\ \A e \in Events : work[h][e] # "idle" => faults[e] < MaxFaults
  BY DEF HostStops
<1>2. PICK taken \in SUBSET {e \in Events : work[h][e] = "posting"} :
        mails' = [e \in Events |-> IF e \in taken THEN mails[e] + 1 ELSE mails[e]]
  BY DEF HostStops
<1>3. /\ work' \in [Hosts -> [Events -> {"idle", "claimed", "posting", "sent", "failed"}]]
      /\ \A g \in Hosts \ {h} : work'[g] = work[g]
      /\ \A e \in Events : work'[h][e] = "idle"
  BY <1>0, <1>1 DEF EventRows
<1>4. \A e \in Events : faults[e] \in 0..MaxFaults /\ mails[e] \in Nat
  BY <1>0 DEF EventRows
<1>5. faults' \in [Events -> 0..MaxFaults] /\ mails' \in [Events -> Nat]
  BY <1>1, <1>2, <1>4, OutboxAssumption
<1>6. EventRows'
  BY <1>0, <1>1, <1>3, <1>5 DEF EventRows
<1>7. ASSUME NEW e \in Events PROVE MailsPaid(e)'
  <2>1. \A g \in Hosts : InTime(g, e)' <=> InTime(g, e)
    BY <1>1 DEF InTime, Holds
  <2>2. mails'[e] = mails[e] \/ (mails'[e] = mails[e] + 1 /\ work[h][e] = "posting")
    BY <1>2
  <2>3. faults'[e] = faults[e] + (IF work[h][e] # "idle" THEN 1 ELSE 0)
    BY <1>1, <1>4
  <2>4. h \notin Overdue(e)' /\ (h \in Overdue(e) => work[h][e] # "idle")
    BY <1>3 DEF Overdue
  <2>5. event'[e].status = "delivered" <=>
            (event[e].status = "delivered" \/ (work[h][e] = "sent" /\ Holds(h, e) /\ ~Holds(h, e)'))
    BY <1>1 DEF Holds
  <2>6. work[h][e] = "posting" => (IF InTime(h, e) /\ work[h][e] = "sent" THEN 1 ELSE 0) = 0
    OBVIOUS
  <2> QED BY <1>1, <1>3, <1>4, <1>6, <2>1, <2>2, <2>3, <2>4, <2>5, OneEventPaid
<1> QED BY <1>6, <1>7 DEF OutboxInductive

\* An event is written, or becomes due again: no host is at work on it.
LEMMA EnqueuePaid ==
    ASSUME OutboxInductive, NEW e \in Events, Enqueue(e) \/ RetryDue(e)
    PROVE  OutboxInductive'
<1>0. EventRows
  BY DEF OutboxInductive
<1>1. /\ work' = work /\ mails' = mails /\ faults' = faults
      /\ \/ event' = event
         \/ event[e].status = "none" /\ event' = [event EXCEPT ![e].status = "pending"]
  BY DEF Enqueue, RetryDue
<1>2. EventRows'
  <2>1. CASE event' = event
    BY <1>0, <1>1, <2>1 DEF EventRows
  <2>2. CASE event[e].status = "none" /\ event' = [event EXCEPT ![e].status = "pending"]
    <3>1. event'[e] = [event[e] EXCEPT !.status = "pending"] /\ event[e].holder \notin Hosts
      BY <1>0, <2>2 DEF EventRows
    <3>2. /\ event'[e] \in [status : {"none", "pending", "processing"} \cup Final,
                            attempts : 0..MaxAttempts,
                            holder : Hosts \cup {Nobody}, lease : {"none", "on", "over"}]
          /\ event'[e].status = "pending" /\ event'[e].holder \notin Hosts
      BY <1>0, <3>1 DEF EventRows
    <3> HIDE DEF Final
    <3> QED BY <1>0, <1>1, <2>2, <3>2 DEF EventRows
  <2> QED BY <1>1, <2>1, <2>2
<1>3. \A h \in Hosts, x \in Events : InTime(h, x)' <=> InTime(h, x)
  BY <1>0, <1>1 DEF InTime, Holds, EventRows
<1>4. \A x \in Events : event'[x].status = "delivered" <=> event[x].status = "delivered"
  BY <1>0, <1>1 DEF EventRows
<1>5. ASSUME NEW x \in Events PROVE MailsPaid(x)'
  <2>1. Overdue(x)' = Overdue(x) /\ (Delivering(x)' <=> Delivering(x)) /\ MailsPaid(x)
    BY <1>1, <1>3, <1>4 DEF Overdue, Delivering, OutboxInductive
  <2> QED BY <1>1, <1>4, <2>1 DEF MailsPaid
<1> QED BY <1>2, <1>5 DEF OutboxInductive

\* Every step of the outbox keeps its mails paid for.
LEMMA OutboxStep == OutboxInductive /\ [OutboxNext]_outboxVars => OutboxInductive'
<1> SUFFICES ASSUME OutboxInductive, [OutboxNext]_outboxVars PROVE OutboxInductive'
  OBVIOUS
<1>1. CASE UNCHANGED outboxVars
  BY <1>1 DEF outboxVars, OutboxInductive, EventRows, MailsPaid, Overdue, Delivering, InTime, Holds
<1>2. ASSUME NEW h \in Hosts, NEW e \in Events,
             Dispatch(h, e) \/ LeaseLost(h, e) \/ StatementFails(h, e)
      PROVE  OutboxInductive'
  BY <1>2, DispatchPaid, SettlePaid, DropPaid DEF Dispatch
<1> QED BY <1>1, <1>2, EnqueuePaid, LapsePaid, ClaimPaid, StopPaid DEF OutboxNext

\* Nothing has been sent at the start.
LEMMA OutboxStart == OutboxInit => OutboxInductive
<1> SUFFICES ASSUME OutboxInit PROVE OutboxInductive
  OBVIOUS
<1>1. EventRows
  BY OutboxAssumption DEF OutboxInit, Unsent, EventRows, Final
<1>2. ASSUME NEW e \in Events PROVE MailsPaid(e)
  <2>1. Overdue(e) = {} /\ ~Delivering(e)
    BY DEF OutboxInit, Unsent, Overdue, Delivering, InTime, Holds
  <2> QED BY <2>1, FS_EmptySet DEF OutboxInit, Unsent, MailsPaid
<1> QED BY <1>1, <1>2 DEF OutboxInductive

\* What the outbox says of a mail is so, and every mail but that of a delivery is
\* paid for by a fault: for any number of events, hosts, attempts and faults.
THEOREM MailsAlwaysAccountedFor == OutboxSpec => []MailsAccountedFor
<1>1. OutboxInductive => MailsAccountedFor
  <2> SUFFICES ASSUME OutboxInductive, NEW e \in Events
               PROVE  /\ mails[e] <= 1 + faults[e]
                      /\ event[e].status = "delivered" => mails[e] > 0
                      /\ event[e].status = "dead_letter" => mails[e] <= faults[e]
    BY DEF MailsAccountedFor, MailedOncePerFault, OutcomeIsTrue
  <2>1. mails[e] \in Nat /\ faults[e] \in Nat /\ MailsPaid(e)
    BY DEF OutboxInductive, EventRows
  <2>2. Cardinality(Overdue(e)) \in Nat
    BY OutboxAssumption, FS_Subset, FS_CardinalityType DEF Overdue
  <2>3. event[e].status = "dead_letter" => ~Delivering(e)
    BY DEF Delivering, InTime, Holds
  <2> QED BY <2>1, <2>2, <2>3 DEF MailsPaid
<1> QED BY <1>1, OutboxStart, OutboxStep, PTL DEF OutboxSpec

\* A host that was overtaken, or comes back late, changes no settled event.
THEOREM OutcomeNeverChanges == OutboxSpec => OutcomeStays
<1>1. OutboxInductive /\ [OutboxNext]_outboxVars =>
        \A e \in Events : event[e].status \in Final => event'[e] = event[e]
  <2> SUFFICES ASSUME OutboxInductive, [OutboxNext]_outboxVars, NEW x \in Events,
                      event[x].status \in Final, event'[x] # event[x]
               PROVE  FALSE
    OBVIOUS
  <2>0. EventRows
    BY DEF OutboxInductive
  <2>1. event' # event /\ event[x].status \notin {"none", "pending", "processing"}
    BY DEF Final
  <2>2. ASSUME NEW h \in Hosts, ClaimFor(h) PROVE FALSE
    <3>1. x \in Batch
      BY <2>2 DEF ClaimFor
    <3> QED BY <2>1, <3>1 DEF Batch, Claimable
  <2>3. ASSUME NEW e \in Events, event[e].status \in {"none", "pending", "processing"},
               \A y \in Events \ {e} : event'[y] = event[y]
        PROVE  FALSE
    BY <2>1, <2>3
  <2>4. ASSUME NEW e \in Events, Enqueue(e) \/ RetryDue(e) \/ LeaseEnds(e) PROVE FALSE
    BY <2>0, <2>1, <2>3, <2>4 DEF Enqueue, RetryDue, LeaseEnds, EventRows
  <2>5. ASSUME NEW h \in Hosts, NEW e \in Events, MarkDelivered(h, e) \/ ReleaseFailure(h, e)
        PROVE  FALSE
    BY <2>0, <2>1, <2>3, <2>5 DEF MarkDelivered, ReleaseFailure, EndsAs, Holds, EventRows
  <2> QED
    BY <2>1, <2>2, <2>4, <2>5 DEF OutboxNext, outboxVars, Claim, ClaimLost, HostStops, Dispatch,
       Undeliverable, Post, Accept, Refuse, LeaseLost, StatementFails
<1> QED BY <1>1, OutboxStart, OutboxStep, PTL DEF OutboxSpec, OutcomeStays

-----------------------------------------------------------------------------
(* The search index.  A pass that has listed a file knows its current version  *)
(* until the version changes, and then the file counts as overtaken.           *)

\* Nothing is indexed or listed at the start.
LEMMA SearchStart == SearchInit => SearchInductive
<1> SUFFICES ASSUME SearchInit PROVE SearchInductive
  OBVIOUS
<1>1. NoName \in 0..NoName /\ 0 \in 0..MaxVersion
  BY SearchAssumption DEF NoName
<1>2. SearchRows
  <2>1. listed \in [Passes -> Seq([file : SearchFiles, version : 0..MaxVersion])]
    BY DEF SearchInit
  <2> QED BY <1>1, <2>1 DEF SearchInit, SearchRows, Absent, NoDocument, NoSweep, Settled
<1>3. ListedRowsCurrent /\ IndexedIsCurrentUnlessOvertaken
  BY DEF SearchInit, ListedRowsCurrent, IndexedIsCurrentUnlessOvertaken, NoDocument
<1> QED BY <1>2, <1>3 DEF SearchInductive

\* What a pass does to its list: rows are taken from the front, or dropped.
LEMMA ShorterList ==
    ASSUME SearchRows, NEW p \in Passes, listed[p] # <<>>,
           NextRow(p) \/ listed' = [listed EXCEPT ![p] = <<>>]
    PROVE  /\ listed' \in [Passes -> Seq([file : SearchFiles, version : 0..MaxVersion])]
           /\ Head(listed[p]) = listed[p][1] /\ 1 \in DOMAIN listed[p]
           /\ listed[p][1] \in [file : SearchFiles, version : 0..MaxVersion]
           /\ \A q \in Passes : \A i \in DOMAIN listed'[q] :
                \E j \in DOMAIN listed[q] : listed'[q][i] = listed[q][j]
<1> DEFINE Rows == [file : SearchFiles, version : 0..MaxVersion]
<1>1. listed \in [Passes -> Seq(Rows)]
  BY DEF SearchRows
<1> HIDE DEF Rows
<1>2. listed[p] \in Seq(Rows) /\ Len(listed[p]) \in Nat \ {0}
  BY <1>1
<1>3. /\ Head(listed[p]) = listed[p][1] /\ 1 \in DOMAIN listed[p] /\ listed[p][1] \in Rows
      /\ Tail(listed[p]) \in Seq(Rows) /\ DOMAIN Tail(listed[p]) = 1..(Len(listed[p]) - 1)
      /\ \A i \in 1..(Len(listed[p]) - 1) :
            i + 1 \in DOMAIN listed[p] /\ Tail(listed[p])[i] = listed[p][i + 1]
  BY <1>2
<1>4. <<>> \in Seq(Rows) /\ DOMAIN <<>> = {}
  OBVIOUS
<1>5. listed' \in [Passes -> Seq(Rows)] /\ \A q \in Passes \ {p} : listed'[q] = listed[q]
  BY <1>1, <1>3, <1>4 DEF NextRow
<1>6. ASSUME NEW i \in DOMAIN listed'[p] PROVE \E j \in DOMAIN listed[p] : listed'[p][i] = listed[p][j]
  <2>1. CASE NextRow(p)
    <3>1. listed'[p] = Tail(listed[p])
      BY <1>1, <2>1 DEF NextRow
    <3>2. i \in 1..(Len(listed[p]) - 1)
      BY <1>3, <1>6, <3>1
    <3>3. i + 1 \in DOMAIN listed[p] /\ listed'[p][i] = listed[p][i + 1]
      BY <1>3, <3>1, <3>2
    <3> QED BY <3>3
  <2>2. CASE listed' = [listed EXCEPT ![p] = <<>>]
    BY <1>1, <1>4, <1>6, <2>2
  <2> QED BY <2>1, <2>2
<1>7. \A q \in Passes : \A i \in DOMAIN listed'[q] :
            \E j \in DOMAIN listed[q] : listed'[q][i] = listed[q][j]
  BY <1>5, <1>6
<1> QED BY <1>3, <1>5, <1>7 DEF Rows

\* The requests: a version that changes is overtaken if a pass has it listed,
\* and its document is reset if there is one.
LEMMA RequestKeepsIndex ==
    ASSUME SearchInductive, NEW f \in SearchFiles,
           \/ CreateFile(f) \/ Rename(f) \/ PublishNextVersion(f)
           \/ RestoreVersion(f) \/ DeleteFile(f) \/ RestoreFile(f)
    PROVE  SearchInductive'
<1>0. SearchRows /\ ListedRowsCurrent /\ IndexedIsCurrentUnlessOvertaken
  BY DEF SearchInductive
<1>1. /\ file[f] \in [state : {"absent", "live", "deleted"}, name : 0..NoName, version : 0..MaxVersion]
      /\ document[f] \in [name : 0..NoName, status : Settled \cup {"none", "pending"},
                          text : 0..MaxVersion]
  BY <1>0 DEF SearchRows
<1>2. listed' = listed /\ sweep' = sweep
  BY DEF CreateFile, Rename, PublishNextVersion, VersionChanges, RestoreVersion, DeleteFile, RestoreFile
<1>3. ASSUME NEW entry \in [state : {"absent", "live", "deleted"}, name : 0..NoName,
                          version : 0..MaxVersion],
             NEW doc \in [name : 0..NoName, status : Settled \cup {"none", "pending"},
                          text : 0..MaxVersion],
             file' = [file EXCEPT ![f] = entry], document' = [document EXCEPT ![f] = doc],
             entry.state # "absent",
             \/ overtaken' = overtaken
             \/ overtaken' = overtaken \cup {f},
             \/ f \in overtaken'
             \/ entry.version = file[f].version /\ doc = document[f]
             \/ doc.status # "indexed" /\ (~InHand(f) \/ file[f].state = "absent")
      PROVE  SearchInductive'
  <2>1. file'[f] = entry /\ document'[f] = doc
    BY <1>0, <1>3 DEF SearchRows
  <2>2. \A g \in SearchFiles \ {f} : file'[g] = file[g] /\ document'[g] = document[g]
    BY <1>0, <1>3 DEF SearchRows
  <2>3. SearchRows'
    BY <1>0, <1>2, <1>3 DEF SearchRows
  <2>4. ASSUME NEW p \in Passes, NEW i \in DOMAIN listed[p]
        PROVE  /\ file'[listed[p][i].file].state # "absent"
               /\ listed[p][i].file \notin overtaken' =>
                    listed[p][i].version = file'[listed[p][i].file].version
    <3>1. listed[p][i].file \in SearchFiles
      <4> DEFINE Rows == [file : SearchFiles, version : 0..MaxVersion]
      <4>1. listed[p] \in Seq(Rows)
        BY <1>0 DEF SearchRows
      <4> HIDE DEF Rows
      <4>2. listed[p][i] \in Rows
        BY <2>4, <4>1
      <4> QED BY <4>2 DEF Rows
    <3>2. /\ file[listed[p][i].file].state # "absent"
          /\ listed[p][i].file \notin overtaken =>
                listed[p][i].version = file[listed[p][i].file].version
      BY <1>0 DEF ListedRowsCurrent
    <3>3. CASE listed[p][i].file # f
      BY <1>3, <2>2, <3>1, <3>2, <3>3
    <3>4. CASE listed[p][i].file = f
      <4>1. InHand(f)
        BY <3>4 DEF InHand
      <4> QED BY <1>3, <2>1, <3>2, <3>4, <4>1
    <3> QED BY <3>3, <3>4
  <2>5. ListedRowsCurrent'
    BY <1>2, <2>4 DEF ListedRowsCurrent
  <2>6. IndexedIsCurrentUnlessOvertaken'
    BY <1>0, <1>3, <2>1, <2>2 DEF IndexedIsCurrentUnlessOvertaken
  <2> QED BY <2>3, <2>5, <2>6 DEF SearchInductive
<1>4. document' = document => document' = [document EXCEPT ![f] = document[f]]
  BY <1>0 DEF SearchRows
<1>5. CASE CreateFile(f)
  <2>1. /\ [state |-> "live", name |-> 0, version |-> 1] \in
                [state : {"absent", "live", "deleted"}, name : 0..NoName, version : 0..MaxVersion]
        /\ [name |-> 0, status |-> "pending", text |-> 0] \in
                [name : 0..NoName, status : Settled \cup {"none", "pending"}, text : 0..MaxVersion]
    BY SearchAssumption DEF NoName
  <2> QED BY <1>3, <1>5, <2>1 DEF CreateFile, Write
<1>6. CASE PublishNextVersion(f)
  <2> DEFINE entry == [file[f] EXCEPT !.version = file[f].version + 1]
  <2>1. file' = [file EXCEPT ![f] = entry] /\ entry.state = "live"
        /\ entry \in [state : {"absent", "live", "deleted"}, name : 0..NoName, version : 0..MaxVersion]
    <3>1. file[f].state = "live" /\ file[f].version < MaxVersion
          /\ file' = [file EXCEPT ![f].version = file[f].version + 1]
      BY <1>6 DEF PublishNextVersion, VersionChanges, Live
    <3>2. file[f].version + 1 \in 0..MaxVersion
      BY <1>1, <3>1, SearchAssumption
    <3>3. entry = [state |-> "live", name |-> file[f].name, version |-> file[f].version + 1]
      BY <1>1, <3>1
    <3>4. file' = [file EXCEPT ![f] = entry]
      BY <3>1
    <3> QED BY <1>1, <3>2, <3>3, <3>4
  <2>2. overtaken' = overtaken \cup {f} \/ (overtaken' = overtaken /\ ~InHand(f))
    BY <1>6 DEF PublishNextVersion, VersionChanges
  <2> HIDE DEF entry
  <2>3. CASE document[f] # NoDocument
    <3> DEFINE doc == [document[f] EXCEPT !.status = "pending", !.text = 0]
    <3>1. 0 \in 0..MaxVersion /\ "pending" \in Settled \cup {"none", "pending"}
      BY SearchAssumption
    <3>2. ASSUME NEW Names, NEW Statuses, NEW Texts, 0 \in Texts, "pending" \in Statuses,
                 document[f] \in [name : Names, status : Statuses, text : Texts]
          PROVE  doc \in [name : Names, status : Statuses, text : Texts] /\ doc.status = "pending"
      BY <3>2
    <3>3. doc \in [name : 0..NoName, status : Settled \cup {"none", "pending"}, text : 0..MaxVersion]
          /\ doc.status = "pending"
      BY <1>1, <3>1, <3>2
    <3>4. document' = [document EXCEPT ![f] = doc]
      BY <1>6, <2>3 DEF PublishNextVersion, Write
    <3> HIDE DEF doc
    <3> QED BY <1>3, <2>1, <2>2, <3>3, <3>4
  <2>4. CASE document[f] = NoDocument
    BY ZenonT(40), <1>1, <1>3, <1>4, <1>6, <2>1, <2>2, <2>4 DEF PublishNextVersion, NoDocument
  <2> QED BY <2>3, <2>4
<1>7. CASE RestoreVersion(f)
  <2> DEFINE entry == [file[f] EXCEPT !.version = file[f].version + 1]
  <2>1. file' = [file EXCEPT ![f] = entry] /\ entry.state = "live"
        /\ entry \in [state : {"absent", "live", "deleted"}, name : 0..NoName, version : 0..MaxVersion]
    <3>1. file[f].state = "live" /\ file[f].version < MaxVersion
          /\ file' = [file EXCEPT ![f].version = file[f].version + 1]
      BY <1>7 DEF RestoreVersion, Live
    <3>2. file[f].version + 1 \in 0..MaxVersion
      BY <1>1, <3>1, SearchAssumption
    <3>3. entry = [state |-> "live", name |-> file[f].name, version |-> file[f].version + 1]
      BY <1>1, <3>1
    <3>4. file' = [file EXCEPT ![f] = entry]
      BY <3>1
    <3> QED BY <1>1, <3>2, <3>3, <3>4
  <2> HIDE DEF entry
  <2> QED BY <1>1, <1>3, <1>4, <1>7, <2>1 DEF RestoreVersion
<1>8. CASE Rename(f)
  <2> DEFINE entry == [file[f] EXCEPT !.name = file[f].name + 1]
  <2>1. file' = [file EXCEPT ![f] = entry] /\ entry.state = "live" /\ entry.version = file[f].version
        /\ entry \in [state : {"absent", "live", "deleted"}, name : 0..NoName, version : 0..MaxVersion]
    <3>1. file[f].state = "live" /\ file[f].name < MaxRenames
          /\ file' = [file EXCEPT ![f].name = file[f].name + 1]
      BY <1>8 DEF Rename, Live
    <3>2. file[f].name + 1 \in 0..NoName
      BY <1>1, <3>1, SearchAssumption DEF NoName
    <3>3. entry = [state |-> "live", name |-> file[f].name + 1, version |-> file[f].version]
      BY <1>1, <3>1
    <3>4. file' = [file EXCEPT ![f] = entry]
      BY <3>1
    <3> QED BY <1>1, <3>2, <3>3, <3>4
  <2> HIDE DEF entry
  <2> QED BY <1>1, <1>3, <1>4, <1>8, <2>1 DEF Rename
<1>9. CASE DeleteFile(f) \/ RestoreFile(f)
  <2>1. PICK s \in {"live", "deleted"} : file' = [file EXCEPT ![f].state = s]
    BY <1>9 DEF DeleteFile, RestoreFile
  <2> DEFINE entry == [file[f] EXCEPT !.state = s]
  <2>2. file' = [file EXCEPT ![f] = entry] /\ entry.state = s /\ entry.version = file[f].version
        /\ entry \in [state : {"absent", "live", "deleted"}, name : 0..NoName, version : 0..MaxVersion]
    <3>1. entry = [state |-> s, name |-> file[f].name, version |-> file[f].version]
      BY <1>1
    <3> QED BY <1>1, <2>1, <3>1
  <2> HIDE DEF entry
  <2> QED BY <1>1, <1>3, <1>4, <1>9, <2>2 DEF DeleteFile, RestoreFile
<1> QED BY <1>5, <1>6, <1>7, <1>8, <1>9

\* Maintenance removes, renames and adds documents, but indexes none.
LEMMA MaintenanceKeepsIndex ==
    ASSUME SearchInductive, ReadNames \/ CommitMaintenance \/ MaintenanceFails
    PROVE  SearchInductive'
<1>0. SearchRows /\ ListedRowsCurrent /\ IndexedIsCurrentUnlessOvertaken
  BY DEF SearchInductive
<1>1. file' = file /\ listed' = listed /\ overtaken' = overtaken
  BY DEF ReadNames, CommitMaintenance, MaintenanceFails
<1>2. ListedRowsCurrent'
  BY <1>0, <1>1 DEF ListedRowsCurrent
<1>3. 0 \in 0..NoName /\ NoName \in 0..NoName /\ 0 \in 0..MaxVersion
  BY SearchAssumption DEF NoName
<1>4. CASE ReadNames \/ MaintenanceFails
  <2>1. document' = document
    BY <1>4 DEF ReadNames, MaintenanceFails
  <2>2. sweep' \in [on : BOOLEAN, names : [SearchFiles -> 0..NoName]]
    <3>1. NoSweep \in [on : BOOLEAN, names : [SearchFiles -> 0..NoName]]
      BY <1>3 DEF NoSweep
    <3>2. CASE MaintenanceFails
      BY <3>1, <3>2 DEF MaintenanceFails
    <3>3. CASE ReadNames
      <4> DEFINE read == [f \in SearchFiles |-> IF Live(f) THEN file[f].name ELSE NoName]
      <4>1. read \in [SearchFiles -> 0..NoName]
        BY <1>0, <1>3 DEF SearchRows
      <4>2. sweep' = [on |-> TRUE, names |-> read]
        BY <3>3 DEF ReadNames, NoSweep
      <4> HIDE DEF read
      <4> QED BY <4>1, <4>2
    <3> QED BY <1>4, <3>2, <3>3
  <2>3. SearchRows' /\ IndexedIsCurrentUnlessOvertaken'
    BY <1>0, <1>1, <2>1, <2>2 DEF SearchRows, IndexedIsCurrentUnlessOvertaken
  <2> QED BY <1>2, <2>3 DEF SearchInductive
<1>5. CASE CommitMaintenance
  <2>1. document' = [f \in SearchFiles |-> Maintained(f)] /\ sweep' = NoSweep
    BY <1>5 DEF CommitMaintenance
  <2>2. NoSweep \in [on : BOOLEAN, names : [SearchFiles -> 0..NoName]]
    BY <1>3 DEF NoSweep
  <2>3. ASSUME NEW f \in SearchFiles
        PROVE  /\ Maintained(f) \in [name : 0..NoName, status : Settled \cup {"none", "pending"},
                                     text : 0..MaxVersion]
               /\ Maintained(f).status = "indexed" =>
                    document[f].status = "indexed" /\ Maintained(f).text = document[f].text
    <3>1. /\ document[f] \in [name : 0..NoName, status : Settled \cup {"none", "pending"},
                              text : 0..MaxVersion]
          /\ sweep.names[f] \in 0..NoName
      BY <1>0 DEF SearchRows
    <3>2. CASE ~Live(f)
      BY <1>3, <3>2 DEF Maintained, NoDocument
    <3>3. CASE Live(f) /\ sweep.names[f] = NoName
      BY <3>1, <3>3 DEF Maintained
    <3>4. CASE Live(f) /\ sweep.names[f] # NoName /\ document[f] = NoDocument
      <4>1. Maintained(f) = [name |-> sweep.names[f], status |-> "pending", text |-> 0]
        BY <3>4 DEF Maintained
      <4> QED BY <1>3, <3>1, <4>1
    <3>5. CASE Live(f) /\ sweep.names[f] # NoName /\ document[f] # NoDocument
      <4>1. Maintained(f) = [document[f] EXCEPT !.name = sweep.names[f]]
        BY <3>5 DEF Maintained
      <4>2. Maintained(f) = [name |-> sweep.names[f], status |-> document[f].status,
                             text |-> document[f].text]
        BY <3>1, <4>1
      <4> QED BY <3>1, <4>2
    <3> QED BY <3>2, <3>3, <3>4, <3>5
  <2>4. SearchRows'
    BY <1>0, <1>1, <2>1, <2>2, <2>3 DEF SearchRows
  <2>5. IndexedIsCurrentUnlessOvertaken'
    BY <1>0, <1>1, <2>1, <2>3 DEF IndexedIsCurrentUnlessOvertaken
  <2> QED BY <1>2, <2>4, <2>5 DEF SearchInductive
<1> QED BY <1>4, <1>5

\* A pass lists pending files with the versions they have.
LEMMA ListingKeepsIndex ==
    ASSUME SearchInductive, NEW p \in Passes, ListPending(p)
    PROVE  SearchInductive'
<1>0. SearchRows /\ ListedRowsCurrent /\ IndexedIsCurrentUnlessOvertaken
  BY DEF SearchInductive
<1>1. PICK batch \in Oldest :
        listed' = [listed EXCEPT ![p] =
            [i \in DOMAIN batch |-> [file |-> batch[i], version |-> file[batch[i]].version]]]
  BY DEF ListPending
<1>2. PICK n \in Nat : batch \in [1..n -> Pending]
  <2>1. Cardinality(Pending) \in Nat
    BY SearchAssumption, FS_Subset, FS_CardinalityType DEF Pending
  <2> QED BY <2>1, SearchAssumption DEF Oldest
<1> DEFINE rows == [i \in 1..n |-> [file |-> batch[i], version |-> file[batch[i]].version]]
<1>3. listed' = [listed EXCEPT ![p] = rows]
  BY <1>1, <1>2
<1>4. \A i \in 1..n : /\ batch[i] \in SearchFiles /\ file[batch[i]].state = "live"
                      /\ file[batch[i]].version \in 0..MaxVersion
  BY <1>0, <1>2 DEF Pending, Live, SearchRows
<1>5. rows \in Seq([file : SearchFiles, version : 0..MaxVersion]) /\ DOMAIN rows = 1..n
  BY <1>4
<1>6. \A i \in 1..n : rows[i].file = batch[i] /\ rows[i].version = file[batch[i]].version
  OBVIOUS
<1> HIDE DEF rows
<1>7. /\ listed' \in [Passes -> Seq([file : SearchFiles, version : 0..MaxVersion])]
      /\ listed'[p] = rows /\ \A q \in Passes \ {p} : listed'[q] = listed[q]
  BY <1>0, <1>3, <1>5 DEF SearchRows
<1>8. file' = file /\ document' = document /\ overtaken' = overtaken /\ sweep' = sweep
  BY DEF ListPending
<1>9. SearchRows' /\ IndexedIsCurrentUnlessOvertaken'
  BY <1>0, <1>7, <1>8 DEF SearchRows, IndexedIsCurrentUnlessOvertaken
<1>10. ListedRowsCurrent'
  <2> SUFFICES ASSUME NEW q \in Passes, NEW i \in DOMAIN listed'[q]
               PROVE  /\ file[listed'[q][i].file].state # "absent"
                      /\ listed'[q][i].file \notin overtaken =>
                            listed'[q][i].version = file[listed'[q][i].file].version
    BY <1>8 DEF ListedRowsCurrent
  <2>1. CASE q # p
    BY <1>0, <1>7, <2>1 DEF ListedRowsCurrent
  <2>2. CASE q = p
    <3>1. i \in 1..n /\ listed'[q][i] = rows[i]
      BY <1>5, <1>7, <2>2
    <3> QED BY <1>4, <1>6, <3>1
  <2> QED BY <2>1, <2>2
<1> QED BY <1>9, <1>10 DEF SearchInductive

\* A pass settles a document with the text of the version it has listed.
LEMMA ExtractionKeepsIndex ==
    ASSUME SearchInductive, NEW p \in Passes, Extract(p) \/ Defer(p) \/ PassEnds(p)
    PROVE  SearchInductive'
<1>0. SearchRows /\ ListedRowsCurrent /\ IndexedIsCurrentUnlessOvertaken
  BY DEF SearchInductive
<1>1. /\ listed[p] # <<>> /\ file' = file /\ overtaken' = overtaken /\ sweep' = sweep
      /\ NextRow(p) \/ listed' = [listed EXCEPT ![p] = <<>>]
  BY DEF Extract, Defer, PassEnds
<1>2. /\ listed' \in [Passes -> Seq([file : SearchFiles, version : 0..MaxVersion])]
      /\ Head(listed[p]) = listed[p][1] /\ 1 \in DOMAIN listed[p]
      /\ listed[p][1] \in [file : SearchFiles, version : 0..MaxVersion]
      /\ \A q \in Passes : \A i \in DOMAIN listed'[q] :
            \E j \in DOMAIN listed[q] : listed'[q][i] = listed[q][j]
  BY <1>0, <1>1, ShorterList
<1>3. ListedRowsCurrent'
  <2> SUFFICES ASSUME NEW q \in Passes, NEW i \in DOMAIN listed'[q]
               PROVE  /\ file[listed'[q][i].file].state # "absent"
                      /\ listed'[q][i].file \notin overtaken =>
                            listed'[q][i].version = file[listed'[q][i].file].version
    BY <1>1 DEF ListedRowsCurrent
  <2>1. PICK j \in DOMAIN listed[q] : listed'[q][i] = listed[q][j]
    BY <1>2
  <2> QED BY <1>0, <2>1 DEF ListedRowsCurrent
<1>4. CASE document' = document
  BY <1>0, <1>1, <1>2, <1>3, <1>4 DEF SearchInductive, SearchRows, IndexedIsCurrentUnlessOvertaken
<1>5. CASE document' # document
  <2> SUFFICES ASSUME NEW entry, entry = listed[p][1] PROVE SearchInductive'
    OBVIOUS
  <2>1. entry.file \in SearchFiles /\ entry.version \in 0..MaxVersion /\ 0 \in 0..MaxVersion
    BY <1>2, SearchAssumption
  <2>2. entry.file \notin overtaken => entry.version = file[entry.file].version
    BY <1>0, <1>2 DEF ListedRowsCurrent
  <2>3. PICK status \in Settled, text \in 0..MaxVersion :
            /\ document' = [document EXCEPT ![entry.file] =
                                [document[entry.file] EXCEPT !.status = status, !.text = text]]
            /\ status = "indexed" => text = entry.version
    BY <1>1, <1>2, <1>5, <2>1 DEF Extract, Defer, PassEnds, Settle, Write, Settled
  <2>4. document[entry.file] \in [name : 0..NoName, status : Settled \cup {"none", "pending"},
                                text : 0..MaxVersion]
    BY <1>0, <2>1 DEF SearchRows
  <2>5. document'[entry.file] \in [name : 0..NoName, status : Settled \cup {"none", "pending"},
                                 text : 0..MaxVersion]
        /\ document'[entry.file].status = status /\ document'[entry.file].text = text
    <3>1. document'[entry.file] = [document[entry.file] EXCEPT !.status = status, !.text = text]
      BY <1>0, <2>1, <2>3 DEF SearchRows
    <3> QED BY <2>4, <3>1
  <2>6. \A f \in SearchFiles \ {entry.file} : document'[f] = document[f]
    BY <1>0, <2>3 DEF SearchRows
  <2>7. document' \in [SearchFiles -> [name : 0..NoName,
                                       status : Settled \cup {"none", "pending"}, text : 0..MaxVersion]]
    BY <1>0, <2>1, <2>3, <2>5 DEF SearchRows
  <2>8. SearchRows' /\ IndexedIsCurrentUnlessOvertaken'
    BY ZenonT(40), <1>0, <1>1, <1>2, <2>2, <2>3, <2>5, <2>6, <2>7 DEF SearchRows, IndexedIsCurrentUnlessOvertaken
  <2> QED BY <1>3, <2>8 DEF SearchInductive
<1> QED BY <1>4, <1>5

\* Every step of requests, maintenance and passes keeps the invariant.
LEMMA SearchStep == SearchInductive /\ [SearchNext]_searchVars => SearchInductive'
<1> SUFFICES ASSUME SearchInductive, [SearchNext]_searchVars PROVE SearchInductive'
  OBVIOUS
<1>1. CASE UNCHANGED searchVars
  BY ZenonT(40), <1>1 DEF searchVars, SearchInductive, SearchRows, ListedRowsCurrent,
     IndexedIsCurrentUnlessOvertaken
<1> QED BY <1>1, RequestKeepsIndex, MaintenanceKeepsIndex, ListingKeepsIndex,
           ExtractionKeepsIndex DEF SearchNext

\* The text a document is indexed with is that of the current version, unless a
\* version was restored or was published while a pass had the file listed: for
\* any number of files and passes, whatever maintenance does meanwhile.
THEOREM IndexStaysCurrent == SearchSpec => []IndexedIsCurrentUnlessOvertaken
<1>1. SearchInductive => IndexedIsCurrentUnlessOvertaken
  BY DEF SearchInductive
<1> QED BY <1>1, SearchStart, SearchStep, PTL DEF SearchSpec

-----------------------------------------------------------------------------
(* Customer buckets.  A configuration is active only after its bucket has   *)
(* accepted the drive, and trust policies stay; so it is enough that what   *)
(* is written names a described row of its bucket.                          *)

Taken == {"active", "superseded"}
Told(c) ==
    IF config[c] \in Taken THEN {TRUE} ELSE IF config[c] = "failed" THEN {FALSE} ELSE {}

\* Configurations, their records and their rows.
Configured ==
    /\ created \in Seq(Configurations)
    /\ config[Legacy] \in Taken \cup {"none"}
    /\ \A c \in Configurations :
        /\ config[c] \in Taken => Accepted(c)
        /\ answers[c] \subseteq Told(c)
        /\ c \notin Unkeyed \cup {Legacy} =>
             (record[c] = "completed" <=> config[c] \in Taken \cup {"failed"})
    /\ \A c, d \in Active : c = d

\* A handler works on a row that is there, and goes on to activate it only if
\* the probe passed.
Handled ==
    \A h \in Configurers : handler[h].at # "idle" =>
        /\ handler[h].of # Legacy /\ config[handler[h].of] # "none"
        /\ handler[h].at # "probing" /\ handler[h].at # "failed" => Accepted(handler[h].of)

\* The rows that transactions replace are active, and no two replace the same.
Apart(h, rows) ==
    \A g \in Configurers \ {h} : handler[g].at = "tx replaced" => handler[g].replaces \cap rows = {}
Replacing ==
    \A h \in Configurers : handler[h].at = "tx replaced" =>
        handler[h].replaces \subseteq Active /\ Apart(h, handler[h].replaces)

\* What is written to a customer's bucket can be identified, and is.
Identified ==
    \A w \in Writes :
        /\ write[w].at = "writing" /\ write[w].bucket # Platform =>
             \E c \in Configurations : config[c] # "none" /\ BucketOf[c] = write[w].bucket
        /\ write[w].at = "published" =>
             \/ write[w].bucket = Platform /\ write[w].of = Platform
             \/ /\ write[w].of \in Configurations /\ config[write[w].of] # "none"
                /\ BucketOf[write[w].of] = write[w].bucket

StorageInductive == StorageTypeOK /\ Configured /\ Handled /\ Replacing /\ Identified

\* The greatest of some positions of a sequence.
LEMMA GreatestPosition ==
    ASSUME NEW n \in Nat, NEW T, T \subseteq 1..n, T # {}
    PROVE  \E i \in T : \A j \in T : j <= i
<1> DEFINE back == {n - i : i \in T}
           R == OpToRel(<, Nat)
<1>1. IsWellFoundedOn(R, Nat)
  BY NatLessThanWellFounded
<1>2. \A x, y \in Nat : x < y => <<x, y>> \in R
  BY DEF OpToRel
<1>3. back \subseteq Nat /\ back # {}
  <2>1. \A i \in T : n - i \in Nat
    OBVIOUS
  <2> QED BY <2>1
<1> HIDE DEF R
<1>4. PICK x \in back : \A y \in back : ~(<<y, x>> \in R)
  <2> HIDE DEF back
  <2> QED BY <1>1, <1>3, WFMin
<1>5. \A y \in back : ~(y < x)
  BY <1>2, <1>3, <1>4
<1>6. PICK i \in T : x = n - i
  BY <1>4
<1>7. ASSUME NEW j \in T PROVE j <= i
  <2>1. n - j \in back /\ ~(n - j < n - i)
    BY <1>5, <1>6
  <2> QED BY <2>1
<1> QED BY <1>7

\* A bucket that a row describes is identified by a row that describes it.
LEMMA TargetDescribes ==
    ASSUME NEW bucket, bucket # Platform, created \in Seq(Configurations),
           NEW c \in Configurations, c \in ToSet(created), BucketOf[c] = bucket
    PROVE  /\ IdentifyStorageTarget(bucket) \in ToSet(created)
           /\ BucketOf[IdentifyStorageTarget(bucket)] = bucket
<1> DEFINE described == {i \in DOMAIN created : BucketOf[created[i]] = bucket}
<1>1. DOMAIN created = 1..Len(created) /\ Len(created) \in Nat
  OBVIOUS
<1>2. described \subseteq 1..Len(created) /\ described # {}
  BY <1>1 DEF ToSet
<1>3. \E i \in described : \A j \in described : j <= i
  <2> HIDE DEF described
  <2> QED BY <1>1, <1>2, GreatestPosition
<1> DEFINE newest == CHOOSE i \in described : \A j \in described : j <= i
<1>4. newest \in described
  BY <1>3
<1>5. IdentifyStorageTarget(bucket) = created[newest]
  BY DEF IdentifyStorageTarget
<1> QED BY <1>4, <1>5 DEF ToSet

LEMMA StorageStart == StorageInit => StorageInductive
<1> SUFFICES ASSUME StorageInit PROVE StorageInductive
  OBVIOUS
<1> USE StorageAssumption
<1>1. /\ config \in [Configurations -> {"none", "active"}]
      /\ \A c \in Configurations : config[c] # "none" => c = Legacy
      /\ config[Legacy] = "active" => Accepted(Legacy)
      /\ created \in Seq(Configurations)
      /\ ToSet(created) = {c \in Configurations : config[c] # "none"}
  <2>1. CASE created = <<>> /\ config = [c \in Configurations |-> "none"]
    BY <2>1 DEF ToSet
  <2>2. CASE /\ created = <<Legacy>>
             /\ config = [c \in Configurations |-> IF c = Legacy THEN "active" ELSE "none"]
    <3>1. created \in Seq(Configurations) /\ ToSet(created) = {Legacy}
      BY <2>2 DEF ToSet
    <3> QED BY <2>2, <3>1 DEF StorageInit
  <2> QED BY <2>1, <2>2 DEF StorageInit
<1>2. /\ record = [c \in Configurations |-> IF c = Legacy THEN "completed" ELSE "none"]
      /\ handler = [h \in Configurers |-> Resting]
      /\ answers = [c \in Configurations |-> {}]
      /\ trusts \in [Buckets -> SUBSET {"handle", "drive"}]
      /\ write = [w \in Writes |-> [at |-> "none", bucket |-> Platform, of |-> Platform]]
  BY DEF StorageInit
<1>3. StorageTypeOK
  BY <1>1, <1>2 DEF StorageTypeOK, Resting, Stages
<1>4. Configured
  BY <1>1, <1>2 DEF Configured, Taken, Told, Active
<1>5. Handled /\ Replacing /\ Identified
  BY <1>2 DEF Handled, Replacing, Apart, Identified, Resting
<1> QED BY <1>3, <1>4, <1>5 DEF StorageInductive

\* Nobody but the handlers changes what they hold.
LEMMA HandlersRest ==
    ASSUME StorageTypeOK, Handled, Replacing, UNCHANGED <<handler, trusts>>,
           \A c \in Configurations : config[c] # "none" => config'[c] # "none",
           Active \subseteq Active'
    PROVE  Handled' /\ Replacing'
<1>1. Handled'
  BY DEF StorageTypeOK, Handled, Accepted
<1>2. Replacing'
  BY DEF Replacing, Apart
<1> QED BY <1>1, <1>2

\* A handler that goes on, and changes nothing but what it holds.
LEMMA HandlerGoesOn ==
    ASSUME StorageInductive, NEW h \in Configurers, NEW at \in Stages, NEW of \in Configurations,
           NEW replaces \in SUBSET Configurations,
           handler' = [handler EXCEPT ![h] = [at |-> at, of |-> of, replaces |-> replaces]],
           UNCHANGED <<created, answers, trusts, write, record, config>>,
           at # "idle" => of # Legacy /\ config[of] # "none",
           at \in {"passed", "tx looked", "tx replaced"} => Accepted(of),
           at = "tx replaced" => replaces \subseteq Active /\ Apart(h, replaces)
    PROVE  StorageInductive'
<1>0. StorageTypeOK /\ Configured /\ Handled /\ Replacing /\ Identified
  BY DEF StorageInductive
<1>1. /\ handler'[h].at = at /\ handler'[h].of = of /\ handler'[h].replaces = replaces
      /\ \A g \in Configurers \ {h} : handler'[g] = handler[g]
      /\ handler' \in [Configurers -> [at : Stages, of : Configurations,
                                       replaces : SUBSET Configurations]]
  BY <1>0 DEF StorageTypeOK
<1>2. StorageTypeOK'
  BY <1>0, <1>1 DEF StorageTypeOK
<1>3. Configured' /\ Identified'
  <2>1. Configured'
    BY <1>0 DEF Configured, Told, Active, Accepted
  <2>2. Identified'
    BY <1>0 DEF Identified
  <2> QED BY <2>1, <2>2
<1>4. Handled'
  BY <1>0, <1>1 DEF Handled, Accepted, Stages
<1>5. Replacing'
  BY ZenonT(40), <1>0, <1>1 DEF Replacing, Apart, Active
<1> QED BY <1>2, <1>3, <1>4, <1>5 DEF StorageInductive

LEMMA PrepareKeeps ==
    ASSUME StorageInductive, NEW h \in Configurers, NEW c \in Configurations,
           PrepareConfiguration(h, c)
    PROVE  StorageInductive'
<1> USE StorageAssumption
<1>0. StorageTypeOK /\ Configured /\ Handled /\ Replacing /\ Identified
  BY DEF StorageInductive
<1>1. config' = [config EXCEPT ![c] = "validating"] /\ config[c] \in {"none", "validating"}
      /\ c # Legacy /\ UNCHANGED <<answers, trusts, write>>
  BY DEF PrepareConfiguration
<1>2. created' \in Seq(Configurations) /\ ToSet(created') = ToSet(created) \cup {c}
  <2>1. CASE config[c] = "none"
    <3>1. created' = Append(created, c)
      BY <2>1 DEF PrepareConfiguration
    <3> QED BY <1>0, <3>1 DEF Configured, ToSet
  <2>2. CASE config[c] = "validating"
    <3>1. created' = created /\ c \in ToSet(created)
      BY <1>0, <2>2 DEF PrepareConfiguration, StorageTypeOK
    <3> QED BY <1>0, <3>1 DEF Configured
  <2> QED BY <1>1, <2>1, <2>2
<1>3. handler' = [handler EXCEPT ![h] = [at |-> "probing", of |-> c, replaces |-> {}]]
  BY DEF PrepareConfiguration
<1>4. /\ handler'[h].at = "probing" /\ handler'[h].of = c
      /\ \A g \in Configurers \ {h} : handler'[g] = handler[g]
      /\ handler' \in [Configurers -> [at : Stages, of : Configurations,
                                       replaces : SUBSET Configurations]]
  BY <1>0, <1>3 DEF StorageTypeOK, Stages
<1>5. record' = (IF c \in Unkeyed THEN record ELSE [record EXCEPT ![c] = "leased"])
  BY DEF PrepareConfiguration
<1>6. /\ config'[c] = "validating" /\ \A d \in Configurations \ {c} : config'[d] = config[d]
      /\ config' \in [Configurations -> {"none", "validating", "active", "superseded", "failed"}]
      /\ record' \in [Configurations -> {"none", "leased", "lapsed", "completed"}]
  BY <1>0, <1>1, <1>5 DEF StorageTypeOK
<1>7. StorageTypeOK'
  <2>1. ToSet(created') = {d \in Configurations : config'[d] # "none"}
    BY <1>0, <1>2, <1>6 DEF StorageTypeOK
  <2> QED BY <1>0, <1>1, <1>4, <1>6, <2>1 DEF StorageTypeOK
<1>8. Active' = Active
  BY <1>1, <1>6 DEF Active
<1>9. Configured'
  <2>1. \A d \in Configurations : (config'[d] \in Taken <=> config[d] \in Taken) /\ Told(d)' = Told(d)
    BY <1>1, <1>6 DEF Told, Taken
  <2>2. \A d \in Configurations \ (Unkeyed \cup {Legacy}) :
          record'[d] = "completed" <=> config'[d] \in Taken \cup {"failed"}
    BY <1>0, <1>1, <1>5, <1>6 DEF Configured, StorageTypeOK, Taken
  <2>3. created' \in Seq(Configurations) /\ config'[Legacy] \in Taken \cup {"none"}
    BY <1>0, <1>1, <1>2, <1>6 DEF Configured
  <2>4. \A d \in Configurations : (config'[d] \in Taken => Accepted(d)') /\ answers'[d] \subseteq Told(d)'
    BY <1>0, <1>1, <2>1 DEF Configured, Accepted
  <2> QED BY <1>0, <1>8, <2>2, <2>3, <2>4 DEF Configured
<1>10. Handled'
  BY <1>0, <1>1, <1>4, <1>6 DEF Handled, Accepted
<1>11. Replacing'
  BY <1>0, <1>4, <1>8 DEF Replacing, Apart
<1>12. Identified'
  BY <1>0, <1>1, <1>6 DEF Identified
<1> QED BY <1>7, <1>9, <1>10, <1>11, <1>12 DEF StorageInductive

LEMMA ReplayKeeps ==
    ASSUME StorageInductive, NEW c \in Configurations, ReplayConfiguration(c)
    PROVE  StorageInductive'
<1>0. StorageTypeOK /\ Configured /\ Handled /\ Replacing /\ Identified
  BY DEF StorageInductive
<1>1. /\ answers' = [answers EXCEPT ![c] = answers[c] \cup {config[c] # "failed"}]
      /\ config[c] \in Taken \cup {"failed"}
      /\ UNCHANGED <<config, created, record, handler, trusts, write>>
  BY DEF ReplayConfiguration, Taken
<1>2. answers[c] \cup {config[c] # "failed"} \subseteq Told(c)
  <2>1. CASE config[c] = "failed"
    BY <1>0, <2>1 DEF Configured, Told, Taken
  <2>2. CASE config[c] # "failed"
    BY <1>0, <1>1, <2>2 DEF Configured, Told, Taken
  <2> QED BY <2>1, <2>2
<1>3. answers' \in [Configurations -> SUBSET BOOLEAN]
      /\ \A d \in Configurations : answers'[d] \subseteq Told(d)
  <2>1. \A d \in Configurations : answers[d] \subseteq Told(d) /\ Told(d) \subseteq BOOLEAN
    BY <1>0 DEF Configured, Told
  <2>2. answers \in [Configurations -> SUBSET BOOLEAN]
    BY <1>0 DEF StorageTypeOK
  <2> QED BY <1>1, <1>2, <2>1, <2>2
<1>4. StorageTypeOK'
  BY <1>0, <1>1, <1>3 DEF StorageTypeOK
<1>5. Configured'
  BY <1>0, <1>1, <1>3 DEF Configured, Told, Active, Accepted
<1>6. Handled' /\ Replacing' /\ Identified'
  BY <1>0, <1>1 DEF Handled, Replacing, Apart, Identified, Accepted, Active
<1> QED BY <1>4, <1>5, <1>6 DEF StorageInductive

LEMMA HandlerKeeps ==
    ASSUME StorageInductive, NEW h \in Configurers,
           Probe(h) \/ LookForActive(h) \/ Supersede(h) \/ GiveUp(h)
    PROVE  StorageInductive'
<1>0. StorageTypeOK /\ Handled /\ Replacing
  BY DEF StorageInductive
<1> DEFINE r == handler[h]
           Held(at, rows) == handler' = [handler EXCEPT ![h] = [at |-> at, of |-> r.of, replaces |-> rows]]
<1>1. UNCHANGED <<config, created, record, answers, trusts, write>>
  BY DEF Probe, LookForActive, Supersede, GiveUp
<1>2. handler \in [Configurers -> [at : Stages, of : Configurations, replaces : SUBSET Configurations]]
      /\ r.of \in Configurations /\ r.replaces \in SUBSET Configurations
      /\ r = [at |-> r.at, of |-> r.of, replaces |-> r.replaces]
  BY <1>0 DEF StorageTypeOK
<1>3. \A at : [r EXCEPT !.at = at] = [at |-> at, of |-> r.of, replaces |-> r.replaces]
  BY <1>2
<1>5. CASE Probe(h)
  <2>1. PICK at \in {"passed", "failed"} :
            Held(at, r.replaces) /\ (at = "passed" => Accepted(r.of)) /\ r.at = "probing"
    BY <1>3, <1>5 DEF Probe, Move
  <2>2. at \in Stages /\ at \notin {"idle", "tx looked", "tx replaced"}
    BY DEF Stages
  <2>3. r.of # Legacy /\ config[r.of] # "none"
    BY <1>0, <2>1 DEF Handled
  <2> QED BY <1>1, <1>2, <2>1, <2>2, <2>3, HandlerGoesOn
<1>6. CASE LookForActive(h)
  <2>1. PICK at \in {"tx looked"}, rows \in SUBSET Configurations : Held(at, rows)
    BY <1>6 DEF LookForActive, Active
  <2>2. at \in Stages /\ at \notin {"idle", "tx replaced"} /\ r.at = "passed"
    BY <1>6 DEF LookForActive, Stages
  <2>3. r.of # Legacy /\ config[r.of] # "none" /\ Accepted(r.of)
    BY <1>0, <2>2 DEF Handled
  <2> QED BY <1>1, <1>2, <2>1, <2>2, <2>3, HandlerGoesOn
<1>7. CASE Supersede(h)
  <2>1. PICK at \in {"tx replaced"}, rows \in SUBSET Configurations :
            Held(at, rows) /\ rows = r.replaces \cap Active
    BY <1>2, <1>7 DEF Supersede
  <2>2. at \in Stages /\ at # "idle" /\ r.at = "tx looked" /\ rows \subseteq Active
    BY <1>7, <2>1 DEF Supersede, Stages
  <2>3. r.of # Legacy /\ config[r.of] # "none" /\ Accepted(r.of)
    BY <1>0, <2>2 DEF Handled
  <2>4. Apart(h, rows)
    BY <1>7, <2>1 DEF Supersede, Apart
  <2> QED BY <1>1, <1>2, <2>1, <2>2, <2>3, <2>4, HandlerGoesOn
<1>8. CASE GiveUp(h)
  <2>1. PICK at \in {"idle"}, c \in Configurations, rows \in SUBSET Configurations :
            handler' = [handler EXCEPT ![h] = [at |-> at, of |-> c, replaces |-> rows]]
    BY <1>8, StorageAssumption DEF GiveUp, Leave, Resting
  <2>2. at \in Stages /\ at \notin {"passed", "tx looked", "tx replaced"}
    BY DEF Stages
  <2> QED BY <1>1, <2>1, <2>2, HandlerGoesOn, StorageAssumption
<1> QED BY <1>5, <1>6, <1>7, <1>8

LEMMA ActivateKeeps ==
    ASSUME StorageInductive, NEW h \in Configurers, Activate(h)
    PROVE  StorageInductive' /\ Active' = {handler[h].of}
<1> USE StorageAssumption
<1>0. StorageTypeOK /\ Configured /\ Handled /\ Replacing /\ Identified
  BY DEF StorageInductive
<1> SUFFICES ASSUME NEW c \in Configurations, c = handler[h].of
             PROVE  StorageInductive' /\ Active' = {c}
  BY <1>0 DEF StorageTypeOK
<1>1. /\ handler[h].at = "tx replaced" /\ config[c] = "validating"
      /\ Active \subseteq handler[h].replaces
      /\ config' = [d \in Configurations |->
                      IF d = c THEN "active"
                      ELSE IF d \in handler[h].replaces THEN "superseded" ELSE config[d]]
      /\ record' = CompletedRecord(c) /\ Answered(c, TRUE)
      /\ handler' = [handler EXCEPT ![h] = Resting]
      /\ UNCHANGED <<created, trusts, write>>
  BY DEF Activate, IndexAccepts, Leave
<1>2. handler[h].replaces = Active /\ c \notin Active /\ Accepted(c) /\ c # Legacy
  <2>1. handler[h].replaces \subseteq Active
    BY <1>0, <1>1 DEF Replacing
  <2> QED BY <1>0, <1>1, <2>1 DEF Handled, Active
<1>3. /\ config'[c] = "active"
      /\ \A d \in Configurations \ {c} :
            config'[d] = (IF config[d] = "active" THEN "superseded" ELSE config[d])
      /\ config' \in [Configurations -> {"none", "validating", "active", "superseded", "failed"}]
  BY <1>0, <1>1, <1>2 DEF StorageTypeOK, Active
<1>4. Active' = {c}
  BY <1>3 DEF Active
<1>5. /\ answers' \in [Configurations -> SUBSET BOOLEAN]
      /\ answers[c] = {} /\ answers'[c] \subseteq {TRUE}
      /\ \A d \in Configurations \ {c} : answers'[d] = answers[d]
  <2>1. answers[c] = {} /\ answers \in [Configurations -> SUBSET BOOLEAN]
    BY <1>0, <1>1 DEF Configured, Told, Taken, StorageTypeOK
  <2>2. CASE answers' = answers
    BY <2>1, <2>2
  <2>3. CASE answers' = [answers EXCEPT ![c] = answers[c] \cup {TRUE}]
    BY <2>1, <2>3
  <2> QED BY <1>1, <2>2, <2>3 DEF Answered
<1>6. /\ record' \in [Configurations -> {"none", "leased", "lapsed", "completed"}]
      /\ c \notin Unkeyed => record'[c] = "completed"
      /\ \A d \in Configurations \ {c} : record'[d] = record[d]
  BY <1>0, <1>1 DEF StorageTypeOK, CompletedRecord
<1>7. /\ handler' \in [Configurers -> [at : Stages, of : Configurations,
                                      replaces : SUBSET Configurations]]
      /\ handler'[h].at = "idle" /\ \A g \in Configurers \ {h} : handler'[g] = handler[g]
  BY <1>0, <1>1 DEF StorageTypeOK, Resting, Stages
<1>8. StorageTypeOK'
  <2>1. \A d \in Configurations : config'[d] # "none" <=> config[d] # "none"
    BY <1>1, <1>3
  <2>2. ToSet(created') = {d \in Configurations : config'[d] # "none"}
    <3>1. created' = created /\ ToSet(created) = {d \in Configurations : config[d] # "none"}
      BY <1>0, <1>1 DEF StorageTypeOK
    <3> QED BY <2>1, <3>1
  <2> QED BY <1>0, <1>1, <1>3, <1>5, <1>6, <1>7, <2>2 DEF StorageTypeOK
<1>9. Configured'
  <2>1. \A d \in Configurations : (config'[d] \in Taken => Accepted(d)') /\ answers'[d] \subseteq Told(d)'
    BY <1>0, <1>1, <1>2, <1>3, <1>5 DEF Configured, Accepted, Told, Taken
  <2>2. \A d \in Configurations \ (Unkeyed \cup {Legacy}) :
          record'[d] = "completed" <=> config'[d] \in Taken \cup {"failed"}
    BY <1>0, <1>3, <1>6 DEF Configured, Taken
  <2>3. created' \in Seq(Configurations) /\ config'[Legacy] \in Taken \cup {"none"}
    BY <1>0, <1>1, <1>2, <1>3 DEF Configured, Taken
  <2> QED BY <1>4, <2>1, <2>2, <2>3 DEF Configured
<1>10. Handled'
  <2>1. \A d \in Configurations : config[d] # "none" => config'[d] # "none"
    BY <1>3
  <2> QED BY <1>0, <1>1, <1>7, <2>1 DEF StorageTypeOK, Handled, Accepted
<1>11. Replacing'
  <2> SUFFICES ASSUME NEW g \in Configurers, handler'[g].at = "tx replaced"
               PROVE  handler'[g].replaces = {}
    BY DEF Replacing, Apart
  <2>1. g # h /\ handler[g] = handler'[g]
    BY <1>7
  <2> QED BY <1>0, <1>1, <1>2, <2>1 DEF Replacing, Apart
<1>12. Identified'
  BY ZenonT(40), <1>0, <1>1, <1>3 DEF Identified
<1> QED BY <1>4, <1>8, <1>9, <1>10, <1>11, <1>12 DEF StorageInductive

LEMMA WriteOffKeeps ==
    ASSUME StorageInductive, NEW h \in Configurers, WriteOff(h)
    PROVE  StorageInductive' /\ Active' = Active
<1> USE StorageAssumption
<1>0. StorageTypeOK /\ Configured /\ Handled /\ Replacing /\ Identified
  BY DEF StorageInductive
<1> SUFFICES ASSUME NEW c \in Configurations, c = handler[h].of
             PROVE  StorageInductive' /\ Active' = Active
  BY <1>0 DEF StorageTypeOK
<1>1. /\ handler[h].at = "failed" /\ config[c] = "validating"
      /\ config' = [config EXCEPT ![c] = "failed"]
      /\ record' = CompletedRecord(c) /\ Answered(c, FALSE)
      /\ handler' = [handler EXCEPT ![h] = Resting]
      /\ UNCHANGED <<created, trusts, write>>
  BY DEF WriteOff, Leave
<1>2. c # Legacy
  BY <1>0, <1>1 DEF Handled
<1>3. /\ config'[c] = "failed" /\ \A d \in Configurations \ {c} : config'[d] = config[d]
      /\ config' \in [Configurations -> {"none", "validating", "active", "superseded", "failed"}]
  BY <1>0, <1>1 DEF StorageTypeOK
<1>4. Active' = Active
  BY <1>1, <1>3 DEF Active
<1>5. /\ answers' \in [Configurations -> SUBSET BOOLEAN]
      /\ answers[c] = {} /\ answers'[c] \subseteq {FALSE}
      /\ \A d \in Configurations \ {c} : answers'[d] = answers[d]
  <2>1. answers[c] = {} /\ answers \in [Configurations -> SUBSET BOOLEAN]
    BY <1>0, <1>1 DEF Configured, Told, Taken, StorageTypeOK
  <2>2. CASE answers' = answers
    BY <2>1, <2>2
  <2>3. CASE answers' = [answers EXCEPT ![c] = answers[c] \cup {FALSE}]
    BY <2>1, <2>3
  <2> QED BY <1>1, <2>2, <2>3 DEF Answered
<1>6. /\ record' \in [Configurations -> {"none", "leased", "lapsed", "completed"}]
      /\ c \notin Unkeyed => record'[c] = "completed"
      /\ \A d \in Configurations \ {c} : record'[d] = record[d]
  BY <1>0, <1>1 DEF StorageTypeOK, CompletedRecord
<1>7. /\ handler' \in [Configurers -> [at : Stages, of : Configurations,
                                      replaces : SUBSET Configurations]]
      /\ handler'[h].at = "idle" /\ \A g \in Configurers \ {h} : handler'[g] = handler[g]
  BY <1>0, <1>1 DEF StorageTypeOK, Resting, Stages
<1>8. StorageTypeOK'
  <2>1. \A d \in Configurations : config'[d] # "none" <=> config[d] # "none"
    BY <1>1, <1>3
  <2>2. ToSet(created') = {d \in Configurations : config'[d] # "none"}
    <3>1. created' = created /\ ToSet(created) = {d \in Configurations : config[d] # "none"}
      BY <1>0, <1>1 DEF StorageTypeOK
    <3> QED BY <2>1, <3>1
  <2> QED BY <1>0, <1>1, <1>3, <1>5, <1>6, <1>7, <2>2 DEF StorageTypeOK
<1>9. Configured'
  <2>1. ASSUME NEW d \in Configurations
        PROVE  (config'[d] \in Taken => Accepted(d)') /\ answers'[d] \subseteq Told(d)'
    <3>1. CASE d = c
      <4>1. config'[d] \notin Taken /\ Told(d)' = {FALSE}
        BY <1>3, <3>1 DEF Told, Taken
      <4> QED BY <1>5, <3>1, <4>1
    <3>2. CASE d # c
      <4>1. config'[d] = config[d] /\ answers'[d] = answers[d] /\ trusts' = trusts
        BY <1>1, <1>3, <1>5, <3>2
      <4>2. (config[d] \in Taken => Accepted(d)) /\ answers[d] \subseteq Told(d)
        BY <1>0 DEF Configured
      <4> QED BY <4>1, <4>2 DEF Accepted, Told
    <3> QED BY <3>1, <3>2
  <2>2. \A d \in Configurations \ (Unkeyed \cup {Legacy}) :
          record'[d] = "completed" <=> config'[d] \in Taken \cup {"failed"}
    BY <1>0, <1>3, <1>6 DEF Configured, Taken
  <2>3. created' \in Seq(Configurations) /\ config'[Legacy] \in Taken \cup {"none"}
    BY <1>0, <1>1, <1>2, <1>3 DEF Configured
  <2> QED BY <1>0, <1>4, <2>1, <2>2, <2>3 DEF Configured
<1>10. Handled'
  BY <1>0, <1>1, <1>3, <1>7 DEF StorageTypeOK, Handled, Accepted
<1>11. Replacing'
  BY <1>0, <1>4, <1>7 DEF Replacing, Apart
<1>12. Identified'
  BY <1>0, <1>1, <1>3 DEF Identified
<1> QED BY <1>4, <1>8, <1>9, <1>10, <1>11, <1>12 DEF StorageInductive

LEMMA WriteKeeps ==
    ASSUME StorageInductive, NEW w \in Writes, BeginWrite(w) \/ PublishWrite(w)
    PROVE  StorageInductive'
<1> USE StorageAssumption
<1>0. StorageTypeOK /\ Configured /\ Handled /\ Replacing /\ Identified
  BY DEF StorageInductive
<1> DEFINE Row == [at : {"none", "writing", "published"}, bucket : Buckets \cup {Platform},
                   of : Configurations \cup {Platform}]
<1>1. UNCHANGED <<config, created, record, handler, answers, trusts>>
  BY DEF BeginWrite, PublishWrite
<1>2. write \in [Writes -> Row] /\ write[w] \in Row
  BY <1>0 DEF StorageTypeOK
<1>3. PICK entry \in Row :
        /\ write' = [write EXCEPT ![w] = entry]
        /\ entry.at = "writing" /\ entry.bucket # Platform =>
             \E c \in Configurations : config[c] # "none" /\ BucketOf[c] = entry.bucket
        /\ entry.at = "published" =>
             \/ entry.bucket = Platform /\ entry.of = Platform
             \/ /\ entry.of \in Configurations /\ config[entry.of] # "none"
                /\ BucketOf[entry.of] = entry.bucket
  <2>1. CASE BeginWrite(w)
    <3>1. PICK bucket \in Buckets \cup {Platform} :
            /\ write' = [write EXCEPT ![w] = [at |-> "writing", bucket |-> bucket, of |-> Platform]]
            /\ bucket # Platform => \E c \in Active : BucketOf[c] = bucket
      BY <2>1 DEF BeginWrite, Active
    <3> DEFINE entry == [at |-> "writing", bucket |-> bucket, of |-> Platform]
    <3>2. entry \in Row /\ entry.at = "writing" /\ entry.bucket = bucket
      BY <1>2
    <3>3. write' = [write EXCEPT ![w] = entry]
      BY <1>2, <3>1
    <3>4. bucket # Platform => \E c \in Configurations : config[c] # "none" /\ BucketOf[c] = bucket
      BY <3>1 DEF Active
    <3> HIDE DEF entry
    <3> QED BY <3>2, <3>3, <3>4
  <2>2. CASE PublishWrite(w)
    <3> DEFINE bucket == write[w].bucket
               entry == [at |-> "published", bucket |-> bucket, of |-> IdentifyStorageTarget(bucket)]
    <3>1. write' = [write EXCEPT ![w] = entry] /\ write[w].at = "writing"
      BY <1>2, <2>2 DEF PublishWrite
    <3>2. CASE bucket = Platform
      <4>1. IdentifyStorageTarget(bucket) = Platform
        BY <3>2 DEF IdentifyStorageTarget
      <4>2. entry \in Row /\ entry.at = "published" /\ entry.bucket = Platform /\ entry.of = Platform
        BY <1>2, <3>2, <4>1
      <4> HIDE DEF entry
      <4> QED BY <3>1, <4>2
    <3>3. CASE bucket # Platform
      <4>1. PICK c \in Configurations : config[c] # "none" /\ BucketOf[c] = bucket
        BY <1>0, <3>1, <3>3 DEF Identified
      <4>2. ToSet(created) = {d \in Configurations : config[d] # "none"}
        BY <1>0 DEF StorageTypeOK
      <4>3. /\ IdentifyStorageTarget(bucket) \in ToSet(created)
            /\ BucketOf[IdentifyStorageTarget(bucket)] = bucket
        BY <1>0, <3>3, <4>1, <4>2, TargetDescribes DEF Configured
      <4>4. /\ entry \in Row /\ entry.at = "published" /\ entry.bucket = bucket
            /\ entry.of \in Configurations /\ config[entry.of] # "none" /\ BucketOf[entry.of] = bucket
        BY <1>2, <4>2, <4>3
      <4> HIDE DEF entry
      <4> QED BY <3>1, <4>4
    <3> QED BY <3>2, <3>3
  <2> QED BY <2>1, <2>2
<1>4. write' \in [Writes -> Row] /\ write'[w] = entry /\ \A x \in Writes \ {w} : write'[x] = write[x]
  BY <1>2, <1>3
<1>5. StorageTypeOK'
  BY <1>0, <1>1, <1>4 DEF StorageTypeOK
<1>6. Configured'
  BY <1>0, <1>1 DEF Configured, Told, Active, Accepted
<1>7. Handled' /\ Replacing'
  <2>1. Active' = Active
    BY <1>1 DEF Active
  <2> QED BY <1>0, <1>1, <2>1, HandlersRest
<1>8. Identified'
  BY <1>0, <1>1, <1>3, <1>4 DEF Identified
<1> QED BY <1>5, <1>6, <1>7, <1>8 DEF StorageInductive

\* Every step of requests and of uploads keeps the invariant.
LEMMA StorageStep == StorageInductive /\ [StorageNext]_storageVars => StorageInductive'
<1> SUFFICES ASSUME StorageInductive, [StorageNext]_storageVars PROVE StorageInductive'
  OBVIOUS
<1>0. StorageTypeOK /\ Configured /\ Handled /\ Replacing /\ Identified
  BY DEF StorageInductive
<1>1. ASSUME UNCHANGED <<config, created, handler, answers, trusts, write>>,
             record' \in [Configurations -> {"none", "leased", "lapsed", "completed"}],
             \A c \in Configurations : record'[c] = "completed" <=> record[c] = "completed"
      PROVE  StorageInductive'
  <2>1. StorageTypeOK'
    BY <1>0, <1>1 DEF StorageTypeOK
  <2>2. Configured'
    BY <1>0, <1>1 DEF Configured, Told, Active, Accepted
  <2>3. Handled' /\ Replacing'
    <3>1. Active' = Active
      BY <1>1 DEF Active
    <3> QED BY <1>0, <1>1, <3>1, HandlersRest
  <2>4. Identified'
    BY <1>0, <1>1 DEF Identified
  <2> QED BY <2>1, <2>2, <2>3, <2>4 DEF StorageInductive
<1>2. ASSUME NEW c \in Configurations, RecordLapses(c) PROVE StorageInductive'
  BY <1>0, <1>1, <1>2 DEF RecordLapses, StorageTypeOK
<1>3. CASE UNCHANGED storageVars
  BY <1>0, <1>1, <1>3 DEF storageVars, StorageTypeOK
<1> QED BY <1>2, <1>3, PrepareKeeps, ReplayKeeps, HandlerKeeps, ActivateKeeps, WriteOffKeeps,
           WriteKeeps DEF StorageNext

\* No request is answered both ways, no drive writes to two buckets at once, and
\* what is published can be found: for any number of configurations, requests
\* and uploads.
THEOREM StorageAlwaysHolds == StorageSpec => []StorageHolds
<1>1. StorageInductive => StorageHolds
  <2> SUFFICES ASSUME StorageInductive PROVE StorageHolds
    OBVIOUS
  <2>0. StorageTypeOK /\ Configured /\ Identified
    BY DEF StorageInductive
  <2>1. OneDestination
    <3>1. CASE Active = {}
      BY <3>1, FS_EmptySet DEF OneDestination
    <3>2. CASE Active # {}
      <4>1. PICK c \in Active : Active = {c}
        BY <2>0, <3>2 DEF Configured
      <4> QED BY <4>1, FS_Singleton DEF OneDestination
    <3> QED BY <3>1, <3>2
  <2>2. OneOutcome
    <3>1. ASSUME NEW c \in Configurations PROVE Cardinality(answers[c]) <= 1
      <4>1. answers[c] = {} \/ answers[c] = {TRUE} \/ answers[c] = {FALSE}
        BY <2>0 DEF Configured, Told
      <4>2. \A S : S = {} \/ (\E x : S = {x}) => Cardinality(S) <= 1
        BY FS_EmptySet, FS_Singleton
      <4> QED BY <4>1, <4>2
    <3> QED BY <2>0, <3>1 DEF Configured, OneOutcome, Taken
  <2>3. VersionsNameTheirBucket
    <3> SUFFICES ASSUME NEW w \in Writes, write[w].at = "published"
                 PROVE  \/ CanRead(w)
                        \/ /\ write[w].of # Platform /\ BucketOf[write[w].of] = write[w].bucket
                           /\ config[write[w].of] \in {"validating", "failed"}
      BY DEF VersionsNameTheirBucket
    <3> QED BY <2>0, StorageAssumption
       DEF Identified, Configured, CanRead, StorageTypeOK, Taken
  <2> QED BY <2>1, <2>2, <2>3 DEF StorageHolds
<1> QED BY <1>1, StorageStart, StorageStep, PTL DEF StorageSpec

\* A drive with a bucket of its own is never without one, through every switch.
THEOREM DestinationAlwaysStays == StorageSpec => DestinationStays
<1>1. ASSUME StorageInductive, [StorageNext]_storageVars PROVE Active # {} => Active' # {}
  <2>0. StorageTypeOK
    BY <1>1 DEF StorageInductive
  <2>1. ASSUME NEW h \in Configurers, NEW c \in Configurations, PrepareConfiguration(h, c)
        PROVE  Active' = Active
    BY <2>0, <2>1 DEF PrepareConfiguration, StorageTypeOK, Active
  <2>2. CASE config' = config
    BY <2>2 DEF Active
  <2>3. ASSUME config' # config
        PROVE  \E h \in Configurers :
                 \/ \E c \in Configurations : PrepareConfiguration(h, c)
                 \/ Activate(h) \/ WriteOff(h)
    BY <1>1, <2>3 DEF StorageNext, storageVars, ReplayConfiguration, Probe, LookForActive, Supersede,
       GiveUp, RecordLapses, BeginWrite, PublishWrite
  <2> QED BY <1>1, <2>1, <2>2, <2>3, ActivateKeeps, WriteOffKeeps
<1>2. StorageInductive /\ [StorageNext]_storageVars => [Active # {} => Active' # {}]_storageVars
  BY <1>1
<1> QED BY <1>2, StorageStart, StorageStep, PTL DEF StorageSpec, DestinationStays

-----------------------------------------------------------------------------
(* Shares.  A row whose end is in the log is revoked, or was written off     *)
(* after it had expired; and a change that may revive a row holds its lock,  *)
(* which it took while the row was live and which keeps the sweep away.      *)

GrantRows ==
    [holder : Principals \cup {NoOne, Tag}, inherit : BOOLEAN, expires : Nat,
     revoked : BOOLEAN, logged : BOOLEAN]
EndWords == {"expired", "revoked", "folded"}

SharesTyped ==
    /\ now \in Nat \ {0}
    /\ grant \in [GrantIds -> GrantRows] /\ ends \in [GrantIds -> Seq(EndWords)]

GoodRow(g) ==
    /\ g \notin TagGrants \cup answered => grant[g].holder = NoOne
    /\ grant[g].holder = NoOne => ~grant[g].revoked /\ ~grant[g].logged
    /\ ends[g] # <<>> => grant[g].revoked \/ grant[g].logged
    /\ grant[g].logged /\ ~grant[g].revoked => grant[g].expires # 0 /\ grant[g].expires <= now
    /\ LocksGrant(g) =>
         ends[g] = <<>> /\ grant[g].holder # NoOne /\ ~grant[g].revoked /\ ~grant[g].logged
    /\ g \notin TagGrants /\ grant[g].holder \notin gone => Len(ends[g]) <= 1

\* Permanent rows of one holder in one table are one row.
Lasting(g) == grant[g].holder # NoOne /\ ~grant[g].revoked /\ grant[g].expires = 0
Single ==
    \A g, h \in GrantIds :
        /\ Lasting(g) /\ Lasting(h) /\ grant[g].holder = grant[h].holder
        /\ g \in TagGrants <=> h \in TagGrants
        => g = h

\* A change of a grant names one, and one that gives it another term found it expiring.
ChangeNames ==
    /\ change.op \in {"revoke", "revoke_tag", "keep", "extend"} =>
         change.grant \in GrantIds /\ grant[change.grant].holder # NoOne
    /\ change.op = "revoke_tag" => change.grant \in TagGrants
    /\ change.op \in {"keep", "extend"} => grant[change.grant].expires # 0
    /\ change.op = "extend" => change.lifetime \in Nat \ {0}

GrantsInductive ==
    SharesTyped /\ (\A g \in GrantIds : GoodRow(g)) /\ Single /\ ChangeNames

LEMMA PermanentIsLasting ==
    ASSUME NEW g PROVE Permanent(g) <=> Lasting(g)
BY DEF Permanent, ShareLive, Made, Expired, Lasting

\* What remains of a row of which one field changes.
LEMMA RowChanges ==
    ASSUME NEW r \in GrantRows, NEW b, NEW t
    PROVE  /\ [r EXCEPT !.revoked = b] = [holder |-> r.holder, inherit |-> r.inherit,
                                          expires |-> r.expires, revoked |-> b, logged |-> r.logged]
           /\ [r EXCEPT !.logged = b] = [holder |-> r.holder, inherit |-> r.inherit,
                                         expires |-> r.expires, revoked |-> r.revoked, logged |-> b]
           /\ [r EXCEPT !.inherit = b] = [holder |-> r.holder, inherit |-> b,
                                          expires |-> r.expires, revoked |-> r.revoked, logged |-> r.logged]
           /\ [r EXCEPT !.expires = t] = [holder |-> r.holder, inherit |-> r.inherit,
                                          expires |-> t, revoked |-> r.revoked, logged |-> r.logged]
BY DEF GrantRows

\* A step leaves a row alone, except for what it conveys below the entry.
Rests(g) ==
    /\ grant'[g].holder = grant[g].holder /\ grant'[g].expires = grant[g].expires
    /\ grant'[g].revoked = grant[g].revoked /\ grant'[g].logged = grant[g].logged
    /\ ends'[g] = ends[g]

\* Such a row stays good.
LEMMA RowRests ==
    ASSUME SharesTyped, NEW g \in GrantIds, GoodRow(g), Rests(g),
           now' \in Nat, now <= now', gone \subseteq gone', answered \subseteq answered',
           LocksGrant(g)' => LocksGrant(g)
    PROVE  GoodRow(g)'
<1>1. grant[g].expires \in Nat /\ now \in Nat
  BY DEF SharesTyped, GrantRows
<1> QED BY <1>1 DEF GoodRow, Rests

\* No row becomes permanent: there is still one.
LEMMA StaysSingle ==
    ASSUME Single,
           \A g \in GrantIds : Lasting(g)' => Lasting(g) /\ grant'[g].holder = grant[g].holder
    PROVE  Single'
BY DEF Single

LEMMA GrantsStart == SharesInit => GrantsInductive
<1> SUFFICES ASSUME SharesInit PROVE GrantsInductive
  OBVIOUS
<1> USE SharesAssumption
<1>1. PICK f \in [GrantIds -> {NoGrant} \cup {GrantTo(Tag, FALSE, t) :
                                                  t \in {0} \cup {now + l : l \in Lifetimes}}] :
        /\ grant = f
        /\ \A g \in GrantIds : f[g] = NoGrant <=> g \notin TagGrants
        /\ \A g, h \in TagGrants : f[g].expires = 0 /\ f[h].expires = 0 => g = h
  BY DEF SharesInit
<1>3. now = 1 /\ change = NoChange /\ ends = [g \in GrantIds |-> <<>>]
  BY DEF SharesInit
<1>4. ASSUME NEW g \in GrantIds
      PROVE  /\ grant[g] \in GrantRows /\ ~grant[g].revoked /\ ~grant[g].logged
             /\ g \notin TagGrants <=> grant[g].holder = NoOne
             /\ g \in TagGrants => grant[g].holder = Tag
  <2>1. NoGrant \in GrantRows /\ ~NoGrant.revoked /\ ~NoGrant.logged /\ NoGrant.holder = NoOne
    BY DEF NoGrant, GrantTo, GrantRows
  <2>2. CASE grant[g] = NoGrant
    BY <1>1, <2>1, <2>2
  <2>3. CASE grant[g] # NoGrant
    <3>1. PICK t \in {0} \cup {now + l : l \in Lifetimes} : grant[g] = GrantTo(Tag, FALSE, t)
      BY <1>1, <2>3
    <3>2. t \in Nat
      BY <1>3
    <3> QED BY <1>1, <2>3, <3>1, <3>2 DEF GrantRows, GrantTo
  <2> QED BY <2>2, <2>3
<1>5. grant \in [GrantIds -> GrantRows]
  BY <1>1, <1>4
<1>6. SharesTyped
  <2>1. \A g \in GrantIds : ends[g] \in Seq(EndWords)
    BY <1>3
  <2> QED BY <1>3, <1>5, <2>1 DEF SharesTyped
<1>7. ASSUME NEW g \in GrantIds PROVE GoodRow(g)
  <2>1. ends[g] = <<>> /\ Len(ends[g]) = 0 /\ ~LocksGrant(g)
    BY <1>3 DEF LocksGrant, NoChange
  <2> QED BY <1>4, <2>1 DEF GoodRow
<1>8. Single
  BY <1>1, <1>4 DEF Single, Lasting
<1>9. ChangeNames
  BY <1>3 DEF ChangeNames, NoChange
<1> QED BY <1>6, <1>7, <1>8, <1>9 DEF GrantsInductive

LEMMA GrantKeeps ==
    ASSUME GrantsInductive, NEW g \in GrantIds \ TagGrants, NEW p \in Principals,
           NEW inherit \in BOOLEAN, NEW lifetime \in {0} \cup Lifetimes,
           Grant(g, p, inherit, lifetime)
    PROVE  GrantsInductive'
<1> USE SharesAssumption
<1>0. SharesTyped /\ (\A h \in GrantIds : GoodRow(h)) /\ Single
  BY DEF GrantsInductive
<1> DEFINE held == {h \in Beside(g, p) : Permanent(h)}
           entry == [holder |-> p, inherit |-> inherit,
                   expires |-> IF lifetime = 0 THEN 0 ELSE now + lifetime,
                   revoked |-> FALSE, logged |-> FALSE]
<1>1. /\ change = NoChange /\ g \notin answered /\ answered' = answered \cup {g}
      /\ UNCHANGED <<now, link, change, gone, ends, linkEnds>>
  BY DEF Grant, Begin
<1>3. grant' = IF lifetime = 0 /\ held # {}
               THEN [h \in GrantIds |-> IF h \in held THEN [grant[h] EXCEPT !.inherit = inherit]
                                        ELSE grant[h]]
               ELSE [grant EXCEPT ![g] = entry]
  BY DEF Grant, GrantTo
<1>4. entry \in GrantRows /\ entry.holder = p /\ ~entry.revoked /\ ~entry.logged
      /\ (entry.expires = 0 <=> lifetime = 0)
  BY <1>0 DEF SharesTyped, GrantRows
<1>5. grant[g].holder = NoOne /\ ends[g] = <<>> /\ Len(<<>>) = 0
  BY <1>0, <1>1 DEF GoodRow
<1>6. \A h \in GrantIds : ~LocksGrant(h) /\ ~LocksGrant(h)'
  BY <1>1 DEF LocksGrant, NoChange
<1> HIDE DEF entry, held
<1>7. CASE lifetime = 0 /\ held # {}
  <2>1. ASSUME NEW h \in GrantIds
        PROVE  /\ grant'[h] \in GrantRows /\ grant'[h].holder = grant[h].holder
               /\ grant'[h].expires = grant[h].expires /\ grant'[h].revoked = grant[h].revoked
               /\ grant'[h].logged = grant[h].logged
    <3>1. grant[h] \in GrantRows
      BY <1>0 DEF SharesTyped
    <3>2. CASE h \in held
      <4>1. grant'[h] = [holder |-> grant[h].holder, inherit |-> inherit, expires |-> grant[h].expires,
                         revoked |-> grant[h].revoked, logged |-> grant[h].logged]
        BY <1>3, <1>7, <3>1, <3>2, RowChanges
      <4> QED BY <3>1, <4>1 DEF GrantRows
    <3>3. CASE h \notin held
      BY <1>3, <1>7, <3>1, <3>3
    <3> QED BY <3>2, <3>3
  <2>2. SharesTyped'
    BY <1>0, <1>1, <1>3, <1>7, <2>1 DEF SharesTyped
  <2>3. ASSUME NEW h \in GrantIds PROVE GoodRow(h)'
    BY <1>0, <1>1, <1>6, <2>1 DEF GoodRow
  <2>4. Single'
    BY <1>0, <2>1 DEF Single, Lasting
  <2>5. ChangeNames'
    BY <1>1 DEF ChangeNames, NoChange
  <2> QED BY <2>2, <2>3, <2>4, <2>5 DEF GrantsInductive
<1>8. CASE ~(lifetime = 0 /\ held # {})
  <2>1. grant'[g] = entry /\ \A h \in GrantIds \ {g} : grant'[h] = grant[h]
    BY <1>0, <1>3, <1>8 DEF SharesTyped
  <2>2. SharesTyped'
    BY <1>0, <1>1, <1>3, <1>4, <1>8 DEF SharesTyped
  <2>3. ASSUME NEW h \in GrantIds PROVE GoodRow(h)'
    <3>1. CASE h = g
      BY <1>1, <1>4, <1>5, <1>6, <2>1, <3>1 DEF GoodRow
    <3>2. CASE h # g
      <4>1. now' \in Nat /\ now <= now' /\ gone \subseteq gone' /\ answered \subseteq answered'
        BY <1>0, <1>1 DEF SharesTyped
      <4> QED BY <1>0, <1>1, <1>6, <2>1, <3>2, <4>1, RowRests DEF Rests
    <3> QED BY <3>1, <3>2
  <2>4. Single'
    <3>1. ASSUME NEW h \in GrantIds, h # g, Lasting(h)', Lasting(g)',
                 grant'[h].holder = p, h \notin TagGrants
          PROVE  FALSE
      <4>1. lifetime = 0 /\ h \in held
        BY <1>4, <2>1, <3>1, PermanentIsLasting DEF Lasting, held, Beside
      <4> QED BY <1>8, <4>1
    <3> QED BY <1>0, <1>4, <2>1, <3>1 DEF Single, Lasting
  <2>5. ChangeNames'
    BY <1>1 DEF ChangeNames, NoChange
  <2> QED BY <2>2, <2>3, <2>4, <2>5 DEF GrantsInductive
<1> QED BY <1>7, <1>8

\* Steps that leave the rows and their ends alone.
LEMMA GrantsRest ==
    ASSUME GrantsInductive, UNCHANGED <<grant, ends>>, now' \in Nat \ {0}, now <= now',
           gone \subseteq gone', answered \subseteq answered', ChangeNames',
           \A g \in GrantIds : LocksGrant(g)' => LocksGrant(g)
    PROVE  GrantsInductive'
<1>1. SharesTyped'
  BY DEF GrantsInductive, SharesTyped
<1>2. ASSUME NEW g \in GrantIds PROVE GoodRow(g)'
  BY RowRests DEF GrantsInductive, Rests
<1>3. Single'
  BY StaysSingle DEF GrantsInductive, Lasting
<1> QED BY <1>1, <1>2, <1>3 DEF GrantsInductive

\* A live row has no end in the log.
LEMMA LiveIsUnended ==
    ASSUME SharesTyped, NEW g \in GrantIds, GoodRow(g), ShareLive(g)
    PROVE  ends[g] = <<>> /\ grant[g].holder # NoOne /\ ~grant[g].revoked /\ ~grant[g].logged
BY DEF GoodRow, ShareLive, Made, Expired

LEMMA BeginKeeps ==
    ASSUME GrantsInductive, NEW g \in GrantIds,
           BeginRevoke(g) \/ \E l \in {0} \cup Lifetimes : BeginChange(g, l)
    PROVE  GrantsInductive'
<1> USE SharesAssumption
<1>0. SharesTyped /\ (\A h \in GrantIds : GoodRow(h)) /\ Single
  BY DEF GrantsInductive
<1>1. /\ ShareLive(g) /\ grant[g].holder # NoOne /\ UNCHANGED <<now, grant, answered, gone, ends>>
  BY DEF BeginRevoke, BeginChange, ShareLive, Made
<1>2. ChangeNames' /\ change'.grant = g
  <2>1. CASE BeginRevoke(g)
    BY <1>1, <2>1 DEF BeginRevoke, ChangeNames
  <2>2. ASSUME NEW l \in {0} \cup Lifetimes, BeginChange(g, l)
        PROVE  ChangeNames' /\ change'.grant = g
    <3>1. grant[g].expires # 0 /\ grant' = grant
      BY <2>2 DEF BeginChange, Permanent
    <3>2. change' = [op |-> IF l = 0 THEN "keep" ELSE "extend", grant |-> g, lifetime |-> l]
      BY <2>2 DEF BeginChange
    <3> QED BY <1>1, <3>1, <3>2 DEF ChangeNames
  <2> QED BY <2>1, <2>2
<1>3. \A h \in GrantIds : LocksGrant(h)' => h = g
  BY <1>2 DEF LocksGrant
<1>4. SharesTyped'
  BY <1>0, <1>1 DEF SharesTyped
<1>5. ASSUME NEW h \in GrantIds PROVE GoodRow(h)'
  <2>1. now' \in Nat /\ now <= now' /\ gone \subseteq gone' /\ answered \subseteq answered'
    BY <1>0, <1>1 DEF SharesTyped
  <2>2. CASE h # g
    BY <1>0, <1>1, <1>3, <2>1, <2>2, RowRests DEF Rests
  <2>3. CASE h = g
    <3>1. ends[g] = <<>> /\ grant[g].holder # NoOne /\ ~grant[g].revoked /\ ~grant[g].logged
      BY <1>0, <1>1, LiveIsUnended
    <3> QED BY <1>0, <1>1, <2>3, <3>1 DEF GoodRow
  <2> QED BY <2>2, <2>3
<1>6. Single'
  BY <1>0, <1>1, StaysSingle DEF Lasting
<1> QED BY <1>2, <1>4, <1>5, <1>6 DEF GrantsInductive

\* A step that ends a row and leaves the others alone.
OnlyEnds(g, word) ==
    /\ grant' \in [GrantIds -> GrantRows]
    /\ grant'[g].revoked /\ grant'[g].holder = grant[g].holder
    /\ ends' = [ends EXCEPT ![g] = Append(@, word)]
    /\ \A h \in GrantIds \ {g} : Rests(h)

LEMMA RowEnds ==
    ASSUME GrantsInductive, NEW g \in GrantIds, NEW word \in EndWords, OnlyEnds(g, word),
           g \in TagGrants \/ LocksGrant(g), grant[g].holder # NoOne, change' = NoChange,
           UNCHANGED <<now, answered, gone>>
    PROVE  GrantsInductive'
<1>0. SharesTyped /\ (\A h \in GrantIds : GoodRow(h)) /\ Single
  BY DEF GrantsInductive
<1>1. /\ ends'[g] = Append(ends[g], word) /\ Len(ends'[g]) = Len(ends[g]) + 1
      /\ ends' \in [GrantIds -> Seq(EndWords)]
  BY <1>0 DEF SharesTyped, OnlyEnds
<1>2. SharesTyped'
  BY <1>0, <1>1 DEF SharesTyped, OnlyEnds
<1>3. ASSUME NEW h \in GrantIds PROVE GoodRow(h)'
  <2>1. ~LocksGrant(h)'
    BY DEF LocksGrant, NoChange
  <2>2. CASE h # g
    <3>1. now' \in Nat /\ now <= now' /\ gone \subseteq gone' /\ answered \subseteq answered'
      BY <1>0 DEF SharesTyped
    <3> QED BY <1>0, <2>1, <2>2, <3>1, RowRests DEF OnlyEnds
  <2>3. CASE h = g
    <3>1. g \notin TagGrants => Len(ends'[g]) = 1
      <4>1. g \notin TagGrants => ends[g] = <<>> /\ Len(<<>>) = 0
        BY <1>0 DEF GoodRow
      <4> QED BY <1>1, <4>1
    <3> QED BY <1>0, <2>1, <2>3, <3>1 DEF GoodRow, OnlyEnds
  <2> QED BY <2>2, <2>3
<1>4. Single'
  BY <1>0, StaysSingle DEF Lasting, OnlyEnds, Rests
<1>5. ChangeNames'
  BY DEF ChangeNames, NoChange
<1> QED BY <1>2, <1>3, <1>4, <1>5 DEF GrantsInductive

LEMMA RevokeShareKeeps == GrantsInductive /\ RevokeShare => GrantsInductive'
<1> SUFFICES ASSUME GrantsInductive, RevokeShare PROVE GrantsInductive'
  OBVIOUS
<1>1. PICK g \in GrantIds : g = change.grant
  BY DEF GrantsInductive, ChangeNames, RevokeShare
<1>2. PICK word \in EndWords : ends' = [ends EXCEPT ![g] = Append(@, word)]
  BY <1>1 DEF RevokeShare, EndWords
<1>3. /\ grant' = [grant EXCEPT ![g].revoked = TRUE] /\ grant[g].holder # NoOne
      /\ g \in TagGrants \/ LocksGrant(g)
      /\ change' = NoChange /\ UNCHANGED <<now, answered, gone>>
  BY <1>1 DEF RevokeShare, GrantsInductive, ChangeNames, LocksGrant
<1>4. grant \in [GrantIds -> GrantRows] /\ grant[g] \in GrantRows /\ ends \in [GrantIds -> Seq(EndWords)]
  BY DEF GrantsInductive, SharesTyped
<1>5. grant'[g] = [holder |-> grant[g].holder, inherit |-> grant[g].inherit,
                   expires |-> grant[g].expires, revoked |-> TRUE, logged |-> grant[g].logged]
      /\ grant' = [grant EXCEPT ![g] = grant'[g]]
  BY <1>3, <1>4, RowChanges
<1>6. grant'[g] \in GrantRows /\ grant'[g].revoked /\ grant'[g].holder = grant[g].holder
  BY <1>4, <1>5 DEF GrantRows
<1>7. OnlyEnds(g, word)
  BY <1>2, <1>4, <1>5, <1>6 DEF OnlyEnds, Rests
<1> QED BY <1>2, <1>3, <1>7, RowEnds

\* A locked row is given another term.
LEMMA TermKeeps ==
    ASSUME GrantsInductive, NEW g \in GrantIds, NEW t \in Nat, LocksGrant(g),
           grant' = [grant EXCEPT ![g].expires = t], change' = NoChange,
           t # 0 \/ {h \in Beside(g, grant[g].holder) : Permanent(h)} = {},
           UNCHANGED <<now, answered, gone, ends>>
    PROVE  GrantsInductive'
<1>0. SharesTyped /\ (\A h \in GrantIds : GoodRow(h)) /\ Single
  BY DEF GrantsInductive
<1>1. /\ grant[g] \in GrantRows
      /\ grant'[g] = [holder |-> grant[g].holder, inherit |-> grant[g].inherit,
                      expires |-> t, revoked |-> grant[g].revoked, logged |-> grant[g].logged]
      /\ grant' = [grant EXCEPT ![g] = grant'[g]]
  <2>1. grant[g] \in GrantRows
    BY <1>0 DEF SharesTyped
  <2>2. grant'[g] = [grant[g] EXCEPT !.expires = t] /\ grant' = [grant EXCEPT ![g] = grant'[g]]
    BY <1>0 DEF SharesTyped
  <2> QED BY <2>1, <2>2, RowChanges
<1>2. /\ grant'[g] \in GrantRows /\ grant'[g].holder = grant[g].holder /\ grant'[g].expires = t
      /\ grant'[g].revoked = grant[g].revoked /\ grant'[g].logged = grant[g].logged
      /\ \A h \in GrantIds \ {g} : grant'[h] = grant[h]
  BY <1>0, <1>1 DEF SharesTyped, GrantRows
<1>3. SharesTyped'
  BY <1>0, <1>1, <1>2 DEF SharesTyped
<1>4. ASSUME NEW h \in GrantIds PROVE GoodRow(h)'
  <2>1. ~LocksGrant(h)'
    BY DEF LocksGrant, NoChange
  <2>2. CASE h # g
    <3>1. now' \in Nat /\ now <= now' /\ gone \subseteq gone' /\ answered \subseteq answered'
      BY <1>0 DEF SharesTyped
    <3> QED BY <1>0, <1>2, <2>1, <2>2, <3>1, RowRests DEF Rests
  <2>3. CASE h = g
    BY <1>0, <1>2, <2>1, <2>3 DEF GoodRow
  <2> QED BY <2>2, <2>3
<1>5. Single'
  <2>1. ASSUME NEW h \in GrantIds, h # g, Lasting(h)', Lasting(g)',
               grant'[h].holder = grant'[g].holder, g \in TagGrants <=> h \in TagGrants
        PROVE  FALSE
    <3>1. t = 0 /\ Lasting(h) /\ h \in Beside(g, grant[g].holder)
      BY <1>2, <2>1 DEF Lasting, Beside
    <3> QED BY <3>1, PermanentIsLasting
  <2> QED BY <1>0, <1>2, <2>1 DEF Single, Lasting
<1>6. ChangeNames'
  BY DEF ChangeNames, NoChange
<1> QED BY <1>3, <1>4, <1>5, <1>6 DEF GrantsInductive

LEMMA ExtendKeeps == GrantsInductive /\ Extend => GrantsInductive'
<1> SUFFICES ASSUME GrantsInductive, Extend PROVE GrantsInductive'
  OBVIOUS
<1>1. PICK g \in GrantIds : g = change.grant
  BY DEF GrantsInductive, ChangeNames, Extend
<1>2. PICK t \in Nat \ {0} : grant' = [grant EXCEPT ![g].expires = t]
  <2>1. now + change.lifetime \in Nat \ {0}
    BY DEF GrantsInductive, SharesTyped, ChangeNames, Extend
  <2> QED BY <1>1, <2>1 DEF Extend
<1>3. LocksGrant(g) /\ change' = NoChange /\ UNCHANGED <<now, answered, gone, ends>>
  BY <1>1 DEF Extend, LocksGrant
<1> QED BY <1>2, <1>3, TermKeeps

\* A share that folds into a permanent one ends, and leaves it what it conveyed.
LEMMA KeepFolds ==
    ASSUME GrantsInductive, Keep, NEW g \in GrantIds, g = change.grant,
           {h \in Beside(g, grant[g].holder) : Permanent(h)} # {}
    PROVE  \E h \in GrantIds \ {g} :
             /\ Lasting(h) /\ grant[h].holder = grant[g].holder
             /\ OnlyEnds(g, "folded")
             /\ grant'[h].inherit = (grant[h].inherit \/ grant[g].inherit)
             /\ \A x \in GrantIds \ {g, h} : grant'[x] = grant[x]
<1>0. SharesTyped
  BY DEF GrantsInductive
<1> DEFINE held == {h \in Beside(g, grant[g].holder) : Permanent(h)}
<1>1. PICK h \in held : /\ grant' = FoldInto(g, h)
                        /\ ends' = [ends EXCEPT ![g] = Append(@, "folded")]
  BY DEF Keep
<1>2. h \in GrantIds /\ h # g /\ Lasting(h) /\ grant[h].holder = grant[g].holder
  <2>1. h \in GrantIds /\ Lasting(h) /\ grant[h].holder = grant[g].holder
    BY PermanentIsLasting DEF Beside
  <2>2. grant[g].expires # 0
    BY DEF GrantsInductive, ChangeNames, Keep
  <2> QED BY <2>1, <2>2 DEF Lasting
<1>3. grant \in [GrantIds -> GrantRows] /\ grant[g] \in GrantRows /\ grant[h] \in GrantRows
      /\ ends \in [GrantIds -> Seq(EndWords)]
  BY <1>0, <1>2 DEF SharesTyped
<1> DEFINE below == grant[h].inherit \/ grant[g].inherit
           kept == [holder |-> grant[h].holder, inherit |-> below, expires |-> grant[h].expires,
                    revoked |-> grant[h].revoked, logged |-> grant[h].logged]
           ended == [holder |-> grant[g].holder, inherit |-> grant[g].inherit,
                     expires |-> grant[g].expires, revoked |-> TRUE, logged |-> grant[g].logged]
<1>4. [grant[h] EXCEPT !.inherit = below] = kept /\ [grant[g] EXCEPT !.revoked = TRUE] = ended
  <2> HIDE DEF below
  <2> QED BY <1>3, RowChanges
<1>5. grant' = [[grant EXCEPT ![h] = kept] EXCEPT ![g] = ended]
  <2>1. grant' = [[grant EXCEPT ![h].inherit = below] EXCEPT ![g].revoked = TRUE]
    BY <1>1 DEF FoldInto
  <2>2. [grant EXCEPT ![h].inherit = below] = [grant EXCEPT ![h] = kept]
    <3> HIDE DEF below, kept
    <3> QED BY <1>2, <1>3, <1>4
  <2> DEFINE middle == [grant EXCEPT ![h] = kept]
  <2>3. grant' = [middle EXCEPT ![g].revoked = TRUE]
    BY <2>1, <2>2
  <2>4. middle[g] = grant[g] /\ middle = [x \in GrantIds |-> middle[x]]
    BY <1>2, <1>3
  <2> HIDE DEF middle, ended
  <2>5. grant' = [middle EXCEPT ![g] = ended]
    BY <1>4, <2>3, <2>4
  <2> QED BY <2>5 DEF middle
<1>6. kept \in GrantRows /\ ended \in GrantRows /\ ended.revoked /\ ended.holder = grant[g].holder
      /\ kept.holder = grant[h].holder /\ kept.expires = grant[h].expires
      /\ kept.revoked = grant[h].revoked /\ kept.logged = grant[h].logged
  BY <1>3 DEF GrantRows
<1>9. kept.inherit = below
  OBVIOUS
<1> HIDE DEF kept, ended
<1>7. grant' \in [GrantIds -> GrantRows] /\ grant'[g] = ended /\ grant'[h] = kept
      /\ \A x \in GrantIds \ {g, h} : grant'[x] = grant[x]
  BY <1>2, <1>3, <1>5, <1>6
<1>8. OnlyEnds(g, "folded")
  BY <1>1, <1>2, <1>3, <1>6, <1>7 DEF OnlyEnds, Rests
<1> QED BY <1>2, <1>7, <1>8, <1>9

LEMMA KeepKeeps == GrantsInductive /\ Keep => GrantsInductive'
<1> SUFFICES ASSUME GrantsInductive, Keep PROVE GrantsInductive'
  OBVIOUS
<1>0. SharesTyped /\ (\A h \in GrantIds : GoodRow(h)) /\ Single
  BY DEF GrantsInductive
<1>1. PICK g \in GrantIds : g = change.grant
  BY DEF GrantsInductive, ChangeNames, Keep
<1>2. LocksGrant(g) /\ change' = NoChange /\ UNCHANGED <<now, answered, gone>>
  BY <1>1 DEF Keep, LocksGrant
<1> DEFINE held == {h \in Beside(g, grant[g].holder) : Permanent(h)}
<1>3. CASE held = {}
  <2>1. grant' = [grant EXCEPT ![g].expires = 0] /\ ends' = ends
    BY <1>1, <1>3 DEF Keep
  <2>2. PICK t \in Nat : grant' = [grant EXCEPT ![g].expires = t]
    BY <2>1
  <2> QED BY <1>2, <1>3, <2>1, <2>2, TermKeeps
<1>4. CASE held # {}
  <2>1. PICK h \in GrantIds \ {g} : Lasting(h) /\ grant[h].holder = grant[g].holder /\ OnlyEnds(g, "folded")
    BY <1>1, <1>4, KeepFolds
  <2>2. "folded" \in EndWords /\ grant[g].holder # NoOne
    BY <2>1 DEF EndWords, Lasting
  <2> QED BY <1>2, <2>1, <2>2, RowEnds
<1> QED BY <1>3, <1>4

LEMMA LinkChangeKeeps ==
    ASSUME GrantsInductive,
           \/ \E enabled \in BOOLEAN, l \in {0} \cup Lifetimes : BeginLink(enabled, l)
           \/ RecordLinkEnd \/ SetLink \/ ChangeFails \/ ShareTick
    PROVE  GrantsInductive'
<1>1. UNCHANGED <<grant, ends, answered, gone>> /\ now' \in Nat \ {0} /\ now <= now'
  BY DEF GrantsInductive, SharesTyped, BeginLink, RecordLinkEnd, SetLink, ChangeFails, ShareTick
<1>2. change' = change \/ change' = NoChange \/ change'.op \in {"link", "set"}
  BY DEF BeginLink, RecordLinkEnd, SetLink, ChangeFails, ShareTick
<1>3. ChangeNames' /\ \A g \in GrantIds : LocksGrant(g)' => LocksGrant(g)
  BY <1>1, <1>2 DEF GrantsInductive, ChangeNames, LocksGrant, NoChange
<1> QED BY <1>1, <1>3, GrantsRest

\* The sweep, or a deletion: rows are written off or revoked with a word in the log.
LEMMA SweepKeeps == GrantsInductive /\ Sweep => GrantsInductive'
<1> SUFFICES ASSUME GrantsInductive, Sweep PROVE GrantsInductive'
  OBVIOUS
<1>0. SharesTyped /\ (\A h \in GrantIds : GoodRow(h)) /\ Single
  BY DEF GrantsInductive
<1>1. PICK members \in Swept(GrantIds \ TagGrants), tags \in Swept(TagGrants) :
        /\ grant' = [g \in GrantIds |-> [grant[g] EXCEPT !.logged = @ \/ g \in members \cup tags]]
        /\ ends' = [g \in GrantIds |-> IF g \in members \cup tags THEN Append(ends[g], "expired")
                                     ELSE ends[g]]
        /\ UNCHANGED <<now, change, answered, gone>>
  BY DEF Sweep
<1> DEFINE swept == members \cup tags
<1>2. \A g \in swept : IsDue(g) /\ ~LocksGrant(g)
  BY DEF Swept, DueShares
<1>3. ASSUME NEW g \in GrantIds
      PROVE  /\ grant'[g] \in GrantRows /\ grant'[g].holder = grant[g].holder
             /\ grant'[g].expires = grant[g].expires /\ grant'[g].revoked = grant[g].revoked
             /\ grant'[g].logged = (grant[g].logged \/ g \in swept)
             /\ ends'[g] = IF g \in swept THEN Append(ends[g], "expired") ELSE ends[g]
             /\ ends'[g] \in Seq(EndWords)
  <2>1. grant[g] \in GrantRows /\ ends[g] \in Seq(EndWords)
    BY <1>0 DEF SharesTyped
  <2>2. ends'[g] = IF g \in swept THEN Append(ends[g], "expired") ELSE ends[g]
    BY <1>1
  <2>3. ends'[g] \in Seq(EndWords)
    BY <2>1, <2>2 DEF EndWords
  <2> DEFINE off == grant[g].logged \/ g \in swept
  <2>4. off \in BOOLEAN /\ grant'[g] = [grant[g] EXCEPT !.logged = off]
    BY <1>1
  <2> HIDE DEF off
  <2>5. grant'[g] = [holder |-> grant[g].holder, inherit |-> grant[g].inherit,
                     expires |-> grant[g].expires, revoked |-> grant[g].revoked, logged |-> off]
    BY <2>1, <2>4, RowChanges
  <2>6. /\ grant'[g] \in GrantRows /\ grant'[g].holder = grant[g].holder
        /\ grant'[g].expires = grant[g].expires /\ grant'[g].revoked = grant[g].revoked
        /\ grant'[g].logged = off
    BY <2>1, <2>4, <2>5 DEF GrantRows
  <2> QED BY <2>2, <2>3, <2>6 DEF off
<1> HIDE DEF swept
<1>4. SharesTyped'
  <2>1. grant' = [g \in GrantIds |-> grant'[g]] /\ ends' = [g \in GrantIds |-> ends'[g]]
    BY <1>1
  <2> QED BY <1>0, <1>1, <1>3, <2>1 DEF SharesTyped
<1>5. ASSUME NEW g \in GrantIds PROVE GoodRow(g)'
  <2>1. LocksGrant(g)' => LocksGrant(g)
    BY <1>1 DEF LocksGrant
  <2>2. CASE g \notin swept
    <3>1. now' \in Nat /\ now <= now' /\ gone \subseteq gone' /\ answered \subseteq answered'
      BY <1>0, <1>1 DEF SharesTyped
    <3>2. Rests(g)
      BY <1>0, <1>3, <2>2 DEF Rests, SharesTyped, GrantRows
    <3> QED BY <1>0, <2>1, <3>1, <3>2, RowRests
  <2>3. CASE g \in swept
    <3>1. /\ grant[g].holder # NoOne /\ grant[g].expires # 0 /\ grant[g].expires <= now
          /\ ~grant[g].logged /\ ~grant[g].revoked /\ ~LocksGrant(g)
      BY <1>2, <2>3 DEF IsDue, Made, Expired
    <3>2. ends[g] = <<>> /\ Len(ends[g]) = 0
      BY <1>0, <3>1 DEF GoodRow
    <3>3. Len(ends'[g]) = 1
      <4>1. ends[g] \in Seq(EndWords) /\ ends'[g] = Append(ends[g], "expired")
        BY <1>0, <1>3, <2>3 DEF SharesTyped
      <4> QED BY <3>2, <4>1
    <3>4. /\ grant'[g].holder = grant[g].holder /\ grant'[g].expires = grant[g].expires
          /\ grant'[g].logged /\ grant'[g].revoked = grant[g].revoked
      BY <1>3, <2>3
    <3> QED BY <1>0, <1>1, <2>1, <3>1, <3>3, <3>4 DEF GoodRow
  <2> QED BY <2>2, <2>3
<1>6. Single'
  BY <1>0, <1>3, StaysSingle DEF Lasting
<1>7. ChangeNames'
  BY <1>1, <1>3 DEF GrantsInductive, ChangeNames
<1> QED BY <1>4, <1>5, <1>6, <1>7 DEF GrantsInductive

LEMMA DeleteHolderKeeps ==
    ASSUME GrantsInductive, NEW p \in Principals, DeleteHolder(p)
    PROVE  GrantsInductive'
<1>0. SharesTyped /\ (\A h \in GrantIds : GoodRow(h)) /\ Single
  BY DEF GrantsInductive
<1> DEFINE held == {g \in GrantIds \ TagGrants : grant[g].holder = p /\ ~grant[g].revoked}
<1>1. /\ \A g \in held : ~LocksGrant(g)
      /\ gone' = gone \cup {p}
      /\ grant' = [g \in GrantIds |-> [grant[g] EXCEPT !.revoked = @ \/ g \in held]]
      /\ ends' = [g \in GrantIds |-> IF g \in held THEN Append(ends[g], "revoked") ELSE ends[g]]
      /\ UNCHANGED <<now, change, answered>>
  BY DEF DeleteHolder
<1>2. \A g \in held : grant[g].holder = p /\ g \in GrantIds \ TagGrants
  OBVIOUS
<1> HIDE DEF held
<1>3. ASSUME NEW g \in GrantIds
      PROVE  /\ grant'[g] \in GrantRows /\ grant'[g].holder = grant[g].holder
             /\ grant'[g].expires = grant[g].expires /\ grant'[g].logged = grant[g].logged
             /\ grant'[g].revoked = (grant[g].revoked \/ g \in held)
             /\ ends'[g] = IF g \in held THEN Append(ends[g], "revoked") ELSE ends[g]
             /\ ends'[g] \in Seq(EndWords)
  <2>1. grant[g] \in GrantRows /\ ends[g] \in Seq(EndWords)
    BY <1>0 DEF SharesTyped
  <2>2. ends'[g] = IF g \in held THEN Append(ends[g], "revoked") ELSE ends[g]
    BY <1>1
  <2>3. ends'[g] \in Seq(EndWords)
    BY <2>1, <2>2 DEF EndWords
  <2> DEFINE off == grant[g].revoked \/ g \in held
  <2>4. off \in BOOLEAN /\ grant'[g] = [grant[g] EXCEPT !.revoked = off]
    BY <1>1
  <2> HIDE DEF off
  <2>5. grant'[g] = [holder |-> grant[g].holder, inherit |-> grant[g].inherit,
                     expires |-> grant[g].expires, revoked |-> off, logged |-> grant[g].logged]
    BY <2>1, <2>4, RowChanges
  <2>6. /\ grant'[g] \in GrantRows /\ grant'[g].holder = grant[g].holder
        /\ grant'[g].expires = grant[g].expires /\ grant'[g].logged = grant[g].logged
        /\ grant'[g].revoked = off
    BY <2>1, <2>4, <2>5 DEF GrantRows
  <2> QED BY <2>2, <2>3, <2>6 DEF off
<1>4. SharesTyped'
  <2>1. grant' = [g \in GrantIds |-> grant'[g]] /\ ends' = [g \in GrantIds |-> ends'[g]]
    BY <1>1
  <2> QED BY <1>0, <1>1, <1>3, <2>1 DEF SharesTyped
<1>5. ASSUME NEW g \in GrantIds PROVE GoodRow(g)'
  <2>1. LocksGrant(g)' => LocksGrant(g)
    BY <1>1 DEF LocksGrant
  <2>2. CASE g \notin held
    <3>1. now' \in Nat /\ now <= now' /\ gone \subseteq gone' /\ answered \subseteq answered'
      BY <1>0, <1>1 DEF SharesTyped
    <3>2. Rests(g)
      BY <1>0, <1>3, <2>2 DEF Rests, SharesTyped, GrantRows
    <3> QED BY <1>0, <2>1, <3>1, <3>2, RowRests
  <2>3. CASE g \in held
    <3>1. grant[g].holder = p /\ p # NoOne /\ ~LocksGrant(g)
      BY <1>1, <1>2, <2>3, SharesAssumption
    <3>2. grant'[g].holder = grant[g].holder /\ grant'[g].revoked
      BY <1>3, <2>3
    <3> QED BY <1>0, <1>1, <1>2, <2>1, <2>3, <3>1, <3>2 DEF GoodRow
  <2> QED BY <2>2, <2>3
<1>6. Single'
  BY <1>0, <1>3, StaysSingle DEF Lasting
<1>7. ChangeNames'
  BY <1>1, <1>3 DEF GrantsInductive, ChangeNames
<1> QED BY <1>4, <1>5, <1>6, <1>7 DEF GrantsInductive

LEMMA GrantsStep == GrantsInductive /\ [SharesNext]_sharesVars => GrantsInductive'
<1> SUFFICES ASSUME GrantsInductive, [SharesNext]_sharesVars PROVE GrantsInductive'
  OBVIOUS
<1>1. CASE UNCHANGED sharesVars
  <2>1. UNCHANGED <<now, grant, change, answered, gone, ends>>
    BY <1>1 DEF sharesVars
  <2>2. ChangeNames' /\ (\A g \in GrantIds : LocksGrant(g)' => LocksGrant(g))
    BY <2>1 DEF GrantsInductive, ChangeNames, LocksGrant
  <2>3. now' \in Nat \ {0} /\ now <= now'
    BY <2>1 DEF GrantsInductive, SharesTyped
  <2> QED BY <2>1, <2>2, <2>3, GrantsRest
<1> QED BY <1>1, GrantKeeps, BeginKeeps, RevokeShareKeeps, ExtendKeeps, KeepKeeps, LinkChangeKeeps,
           SweepKeeps, DeleteHolderKeeps DEF SharesNext, ChangeStep

-----------------------------------------------------------------------------
(* The link.  A period that goes on has no end in the log, one that is over *)
(* has one; a change of the link knows whether the period it ends is over.  *)

Periods == {<<>>, <<"expired">>, <<"changed">>, <<"expired", "changed">>}

LinkInductive ==
    /\ now \in Nat \ {0} /\ changes \in Nat
    /\ linkEnds \in [DOMAIN linkEnds -> Periods]
    /\ \A n \in DOMAIN linkEnds :
        /\ n \in Nat \ {0} /\ n <= changes /\ (change.op \in {"link", "set"} => n < changes)
        /\ linkEnds[n] = <<>> <=> n = link.period
    /\ link.expires \in Nat /\ link.period \in Nat
    /\ link.expires # 0 <=> link.period # 0
    /\ link.period # 0 => link.period \in DOMAIN linkEnds
    /\ change.op \in {"link", "set"} =>
         changes # 0 /\ change.lifetime \in Nat /\ change.previous \in {0, link.period}
    /\ change.op = "link" /\ link.period # 0 =>
         change.previous = link.period \/ link.expires <= now
    /\ change.op = "set" => /\ change.expired => link.expires # 0
                            /\ link.period # 0 => change.previous = link.period \/ change.expired
                            /\ change.expired \in BOOLEAN

\* What one change, or one sweep, writes.
LEMMA PeriodWords ==
    /\ Periods \subseteq Seq({"expired", "changed"})
    /\ <<>> \o <<>> = <<>> /\ <<"expired">> \o <<>> = <<"expired">>
    /\ <<>> \o <<"changed">> = <<"changed">>
    /\ <<"expired">> \o <<"changed">> = <<"expired", "changed">>
<1> DEFINE W == {"expired", "changed"}
<1>1. <<>> \in Seq(W) /\ <<"expired">> \in Seq(W) /\ <<"changed">> \in Seq(W)
      /\ <<"expired", "changed">> \in Seq(W)
  OBVIOUS
<1>2. <<>> \o <<>> = <<>> /\ <<"expired">> \o <<>> = <<"expired">>
      /\ <<>> \o <<"changed">> = <<"changed">>
  BY <1>1, ConcatEmptySeq
<1>3. <<"expired">> \o <<"changed">> = <<"expired", "changed">>
  <2>1. Append(<<"expired">>, "changed") = <<"expired">> \o <<"changed">>
    <3> DEFINE one == <<"expired">>
    <3>1. one \in Seq(W) /\ "changed" \in W
      BY <1>1
    <3> HIDE DEF one
    <3>2. Append(one, "changed") = one \o <<"changed">>
      BY <3>1, AppendIsConcat
    <3> QED BY <3>2 DEF one
  <2>2. Append(<<"expired">>, "changed") = <<"expired", "changed">>
    <3> DEFINE one == <<"expired">>
               two == <<"expired", "changed">>
    <3>1. one \in Seq(W) /\ "changed" \in W /\ Len(one) = 1 /\ one[1] = "expired"
      BY <1>1
    <3>2. two \in Seq(W) /\ Len(two) = 2 /\ two[1] = "expired" /\ two[2] = "changed"
      BY <1>1
    <3> HIDE DEF one, two, W
    <3>0. PICK word \in W : word = "changed"
      BY <3>1
    <3> DEFINE full == Append(one, word)
    <3>3. /\ full \in Seq(W) /\ Len(full) = Len(one) + 1
          /\ \A i \in 1..Len(one) : full[i] = one[i]
          /\ full[Len(one) + 1] = word
      <4>1. one \in Seq(W) /\ word \in W
        BY <3>0, <3>1
      <4> HIDE DEF full
      <4>2. Append(one, word) \in Seq(W)
        BY <4>1, AppendProperties
      <4>3. Len(Append(one, word)) = Len(one) + 1
        BY <4>1, AppendProperties
      <4>4. \A i \in 1..Len(one) : Append(one, word)[i] = one[i]
        BY <4>1, AppendProperties
      <4>5. Append(one, word)[Len(one) + 1] = word
        BY <4>1, AppendProperties
      <4> QED BY <4>2, <4>3, <4>4, <4>5 DEF full
    <3> HIDE DEF full
    <3>4. full \in Seq(W) /\ Len(full) = 2 /\ full[1] = "expired" /\ full[2] = "changed"
      BY <3>0, <3>1, <3>3
    <3>5. \A i \in 1..Len(full) : full[i] = two[i]
      BY <3>2, <3>4
    <3>6. full = two
      BY <3>2, <3>4, <3>5, SeqEqual
    <3> QED BY <3>0, <3>6 DEF one, two, full
  <2> QED BY <2>1, <2>2
<1> QED BY <1>1, <1>2, <1>3 DEF Periods

LEMMA LinkStart == SharesInit => LinkInductive
BY DEF SharesInit, LinkInductive, NoChange

LEMMA SetLinkKeeps == LinkInductive /\ SetLink => LinkInductive'
<1> SUFFICES ASSUME LinkInductive, SetLink PROVE LinkInductive'
  OBVIOUS
<1> DEFINE begun == IF change.lifetime = 0 THEN {} ELSE {changes}
           new == [n \in DOMAIN linkEnds \cup begun |->
                     IF n \in DOMAIN linkEnds THEN linkEnds[n] \o EndsLink(n) ELSE <<>>]
<1>1. /\ change.op = "set" /\ linkEnds' = new /\ change' = NoChange
      /\ link' = IF change.lifetime = 0
                 THEN [public |-> change.enabled, expires |-> 0, period |-> 0]
                 ELSE [public |-> TRUE, expires |-> now + change.lifetime, period |-> changes]
      /\ UNCHANGED <<now, changes>>
  BY DEF SetLink
<1>2. ASSUME NEW n \in DOMAIN linkEnds
      PROVE  n # changes /\ new[n] \in Periods \ {<<>>}
  <2>1. new[n] = linkEnds[n] \o EndsLink(n) /\ linkEnds[n] \in Periods /\ n # changes
    BY <1>1 DEF LinkInductive
  <2>2. CASE n # link.period
    <3>1. EndsLink(n) = <<>> \o <<>>
      BY <1>1, <2>2 DEF LinkInductive, EndsLink
    <3>2. linkEnds[n] # <<>> /\ linkEnds[n] \in Seq({"expired", "changed"})
      BY <2>1, <2>2, PeriodWords DEF LinkInductive
    <3> QED BY <2>1, <3>1, <3>2, ConcatEmptySeq
  <2>3. CASE n = link.period
    <3>1. linkEnds[n] = <<>> /\ n # 0 /\ (change.previous = n \/ change.expired)
      BY <1>1, <2>3 DEF LinkInductive
    <3>2. EndsLink(n) \in Periods \ {<<>>}
      <4>1. CASE change.expired /\ change.previous = n
        <5>1. EndsLink(n) = <<"expired">> \o <<"changed">>
          BY <2>3, <4>1 DEF EndsLink
        <5> QED BY <5>1, PeriodWords DEF Periods
      <4>2. CASE change.expired /\ change.previous # n
        <5>1. EndsLink(n) = <<"expired">> \o <<>>
          BY <2>3, <4>2 DEF EndsLink
        <5> QED BY <5>1, PeriodWords DEF Periods
      <4>3. CASE ~change.expired
        <5>1. EndsLink(n) = <<>> \o <<"changed">>
          BY <3>1, <4>3 DEF EndsLink
        <5> QED BY <5>1, PeriodWords DEF Periods
      <4> QED BY <4>1, <4>2, <4>3
    <3>3. <<>> \o EndsLink(n) = EndsLink(n)
      BY <3>2, PeriodWords, ConcatEmptySeq
    <3> QED BY <2>1, <3>1, <3>2, <3>3
  <2> QED BY <2>2, <2>3
<1>3. linkEnds' \in [DOMAIN linkEnds' -> Periods] /\ DOMAIN linkEnds' = DOMAIN linkEnds \cup begun
  BY <1>1, <1>2 DEF Periods
<1>4. begun \subseteq {changes} /\ \A n \in begun : n \notin DOMAIN linkEnds /\ linkEnds'[n] = <<>>
  BY <1>1, <1>2
<1>5. change.lifetime \in Nat /\ now \in Nat \ {0} /\ changes \in Nat \ {0}
  BY <1>1 DEF LinkInductive
<1>6. ~(change'.op \in {"link", "set"})
  BY <1>1 DEF NoChange
<1>7. ASSUME NEW n \in DOMAIN linkEnds'
      PROVE  n \in Nat \ {0} /\ n <= changes' /\ (linkEnds'[n] = <<>> <=> n = link'.period)
  <2>1. CASE n \in DOMAIN linkEnds
    <3>1. n \in Nat \ {0} /\ n <= changes /\ n # changes /\ linkEnds'[n] # <<>>
      BY <1>1, <1>2, <2>1 DEF LinkInductive
    <3>2. n # link'.period
      BY <1>1, <3>1
    <3> QED BY <1>1, <3>1, <3>2
  <2>2. CASE n \in begun
    <3>1. n = changes /\ linkEnds'[n] = <<>> /\ link'.period = changes
      BY <1>1, <1>4, <2>2
    <3> QED BY <1>1, <1>5, <3>1
  <2> QED BY <1>3, <2>1, <2>2
<1>8. /\ link'.expires \in Nat /\ link'.period \in Nat /\ (link'.expires # 0 <=> link'.period # 0)
      /\ link'.period # 0 => link'.period \in DOMAIN linkEnds'
  <2>1. CASE change.lifetime = 0
    BY <1>1, <2>1
  <2>2. CASE change.lifetime # 0
    <3>1. link' = [public |-> TRUE, expires |-> now + change.lifetime, period |-> changes]
      BY <1>1, <2>2
    <3>2. changes # 0 /\ changes \in begun
      BY <1>5, <2>2
    <3> QED BY <1>3, <1>5, <3>1, <3>2
  <2> QED BY <2>1, <2>2
<1> QED BY <1>1, <1>3, <1>5, <1>6, <1>7, <1>8 DEF LinkInductive

LEMMA LinkStep == LinkInductive /\ [SharesNext]_sharesVars => LinkInductive'
<1> SUFFICES ASSUME LinkInductive, [SharesNext]_sharesVars PROVE LinkInductive'
  OBVIOUS
<1> USE SharesAssumption
<1>1. ASSUME UNCHANGED <<link, linkEnds>>, now' \in Nat, now <= now', changes' \in Nat, changes <= changes',
             change' = change \/ change'.op \notin {"link", "set"}
      PROVE  LinkInductive'
  BY <1>1 DEF LinkInductive
<1>2. now \in Nat /\ changes \in Nat
  BY DEF LinkInductive
<1>3. CASE UNCHANGED sharesVars
  BY <1>1, <1>2, <1>3 DEF sharesVars
<1>4. ASSUME NEW g \in GrantIds, NEW p \in Principals, NEW inherit \in BOOLEAN,
             NEW l \in {0} \cup Lifetimes, Grant(g, p, inherit, l)
      PROVE  LinkInductive'
  <2>1. change' = NoChange /\ changes' = changes + 1 /\ UNCHANGED <<now, link, linkEnds>>
    BY <1>4 DEF Grant, Begin
  <2> QED BY <1>1, <1>2, <2>1 DEF NoChange
<1>5. ASSUME NEW g \in GrantIds,
             BeginRevoke(g) \/ \E l \in {0} \cup Lifetimes : BeginChange(g, l)
      PROVE  LinkInductive'
  <2>1. changes' = changes + 1 /\ change'.op \notin {"link", "set"} /\ UNCHANGED <<now, link, linkEnds>>
    BY <1>5 DEF BeginRevoke, BeginChange, Begin
  <2> QED BY <1>1, <1>2, <2>1
<1>6. CASE RevokeShare \/ Extend \/ Keep \/ ChangeFails \/ ShareTick \/ \E p \in Principals : DeleteHolder(p)
  <2>1. /\ UNCHANGED <<link, linkEnds, changes>> /\ now' \in Nat /\ now <= now'
        /\ change' = change \/ change' = NoChange
    BY <1>2, <1>6 DEF RevokeShare, Extend, Keep, ChangeFails, ShareTick, DeleteHolder
  <2> QED BY <1>1, <1>2, <2>1 DEF NoChange
<1>7. ASSUME NEW enabled \in BOOLEAN, NEW l \in {0} \cup Lifetimes, BeginLink(enabled, l)
      PROVE  LinkInductive'
  <2>1. /\ change = NoChange /\ changes' = changes + 1 /\ UNCHANGED <<now, link, linkEnds>>
        /\ change'.op = "link" /\ change'.lifetime = l /\ l \in Nat
        /\ change'.previous = (IF link.expires > now THEN link.period ELSE 0)
    BY <1>7 DEF BeginLink, Begin
  <2>2. \A n \in DOMAIN linkEnds : n \in Nat /\ n <= changes
    BY DEF LinkInductive
  <2> QED BY <1>2, <2>1, <2>2 DEF LinkInductive
<1>8. CASE RecordLinkEnd
  <2>1. /\ change.op = "link" /\ UNCHANGED <<now, link, linkEnds, changes>>
        /\ change'.op = "set" /\ change'.lifetime = change.lifetime
        /\ change'.previous = change.previous
        /\ change'.expired = (link.expires # 0 /\ link.expires <= now)
    BY <1>8 DEF RecordLinkEnd
  <2> QED BY <2>1 DEF LinkInductive
<1>9. CASE Sweep
  <2>1. UNCHANGED <<now, change, changes>> /\ ClearLink
    BY <1>9 DEF Sweep
  <2>2. CASE ~ClearsLink
    BY <1>1, <1>2, <2>1, <2>2 DEF ClearLink
  <2>3. CASE ClearsLink
    <3>1. /\ change = NoChange /\ link.period # 0
          /\ linkEnds' = [linkEnds EXCEPT ![link.period] = Append(@, "expired")]
          /\ link' = [public |-> FALSE, expires |-> 0, period |-> 0]
      BY <2>1, <2>3 DEF ClearLink, ClearsLink, LinkDue, LinkInductive
    <3>2. link.period \in DOMAIN linkEnds /\ linkEnds[link.period] = <<>>
      BY <3>1 DEF LinkInductive
    <3>3. linkEnds' = [linkEnds EXCEPT ![link.period] = <<"expired">>]
      <4>1. Append(<<>>, "expired") = <<"expired">>
        OBVIOUS
      <4> QED BY <3>1, <3>2, <4>1
    <3> QED BY <2>1, <3>1, <3>2, <3>3 DEF LinkInductive, NoChange, Periods
  <2> QED BY <2>2, <2>3
<1> QED BY <1>3, <1>4, <1>5, <1>6, <1>7, <1>8, <1>9, SetLinkKeeps DEF SharesNext, ChangeStep

\* A share or a link ends once, for good and with a word in the log, whatever
\* its owner does while the sweep writes it off: for any number of shares.
THEOREM SharesAlwaysEndOnce == SharesSpec => []SharesEndOnce
<1>1. GrantsInductive => OnePermanent /\ EndsRecordedOnce /\ EndedStaysEnded
  <2> SUFFICES ASSUME GrantsInductive PROVE OnePermanent /\ EndsRecordedOnce /\ EndedStaysEnded
    OBVIOUS
  <2>1. OnePermanent
    <3> SUFFICES ASSUME NEW g \in GrantIds, Permanent(g)
                 PROVE  {h \in Beside(g, grant[g].holder) : Permanent(h)} = {g}
      BY DEF OnePermanent
    <3>1. g \in Beside(g, grant[g].holder)
      BY DEF Beside
    <3>2. \A h \in Beside(g, grant[g].holder) : Permanent(h) => h = g
      BY PermanentIsLasting DEF Beside, GrantsInductive, Single
    <3> QED BY <3>1, <3>2
  <2>2. EndsRecordedOnce
    BY DEF EndsRecordedOnce, GrantsInductive, GoodRow
  <2>3. EndedStaysEnded
    BY LiveIsUnended DEF EndedStaysEnded, GrantsInductive
  <2> QED BY <2>1, <2>2, <2>3
<1>2. LinkInductive => LinkEndsRecorded
  <2> SUFFICES ASSUME LinkInductive, NEW n \in DOMAIN linkEnds
               PROVE  /\ n # link.period => linkEnds[n] # <<>>
                      /\ Cardinality({i \in DOMAIN linkEnds[n] : linkEnds[n][i] = "expired"}) <= 1
    BY DEF LinkEndsRecorded
  <2>1. \A s \in Periods : {i \in DOMAIN s : s[i] = "expired"} \in {{}, {1}}
    BY DEF Periods
  <2>2. ASSUME NEW T, T = {} \/ \E x : T = {x} PROVE Cardinality(T) <= 1
    <3>1. CASE T = {}
      BY <3>1, FS_EmptySet
    <3>2. CASE \E x : T = {x}
      <4>1. PICK x : T = {x}
        BY <3>2
      <4>2. Cardinality({x}) = 1
        BY FS_Singleton
      <4> QED BY <4>1, <4>2
    <3> QED BY <2>2, <3>1, <3>2
  <2>3. linkEnds[n] \in Periods
    BY DEF LinkInductive
  <2>4. n # link.period => linkEnds[n] # <<>>
    BY DEF LinkInductive
  <2> QED BY <2>1, <2>2, <2>3, <2>4
<1>3. GrantsInductive /\ LinkInductive => SharesEndOnce
  BY <1>1, <1>2 DEF SharesEndOnce
<1> QED BY <1>3, GrantsStart, GrantsStep, LinkStart, LinkStep, PTL DEF SharesSpec

\* To make an expiring share permanent takes no access from anyone, even where
\* it is folded into the permanent share beside it.
THEOREM KeepingNeverTakes == SharesSpec => KeepingTakesNothing
<1>1. ASSUME GrantsInductive, [SharesNext]_sharesVars, change.op = "keep", change' = NoChange,
             NEW p \in Principals \cup {Tag}
      PROVE  Conveyed(p) \subseteq Conveyed(p)'
  <2>0. SharesTyped /\ (\A g \in GrantIds : GoodRow(g)) /\ change # NoChange
    BY <1>1 DEF GrantsInductive, NoChange
  <2>1. Keep \/ UNCHANGED <<now, grant>>
    <3>1. CASE UNCHANGED sharesVars
      BY <3>1 DEF sharesVars
    <3>2. CASE ChangeStep
      BY <1>1, <3>2 DEF ChangeStep, RevokeShare, Extend, RecordLinkEnd, SetLink, ChangeFails
    <3>3. CASE Sweep \/ ShareTick \/ \E q \in Principals : DeleteHolder(q)
      <4>1. change' = change
        BY <3>3 DEF Sweep, ShareTick, DeleteHolder
      <4> QED BY <1>1, <2>0, <4>1
    <3>4. CASE Begin
      BY <2>0, <3>4 DEF Begin
    <3>5. \/ UNCHANGED sharesVars \/ ChangeStep \/ Begin
          \/ Sweep \/ ShareTick \/ \E q \in Principals : DeleteHolder(q)
      BY <1>1 DEF SharesNext, Grant, BeginRevoke, BeginChange, BeginLink
    <3> QED BY <3>1, <3>2, <3>3, <3>4, <3>5
  <2>2. CASE UNCHANGED <<now, grant>>
    BY <2>2 DEF Conveyed, ShareLive, Made, Expired
  <2>3. CASE Keep
    <3>1. PICK g \in GrantIds : g = change.grant
      BY <1>1, <2>3 DEF Keep, GrantsInductive, ChangeNames
    <3>2. now' = now
      BY <2>3 DEF Keep
    <3>3. ASSUME NEW d \in GrantIds, grant[d].holder = p, ShareLive(d)
          PROVE  \E t \in GrantIds : /\ grant'[t].holder = p /\ ShareLive(t)'
                                     /\ grant[d].inherit => grant'[t].inherit
      <4>1. CASE {h \in Beside(g, grant[g].holder) : Permanent(h)} = {}
        <5>1. grant' = [grant EXCEPT ![g].expires = 0]
          BY <2>3, <3>1, <4>1 DEF Keep
        <5>2. grant \in [GrantIds -> GrantRows] /\ grant[g] \in GrantRows
          BY <2>0 DEF SharesTyped
        <5>3. /\ grant'[g] = [holder |-> grant[g].holder, inherit |-> grant[g].inherit,
                              expires |-> 0, revoked |-> grant[g].revoked, logged |-> grant[g].logged]
              /\ d # g => grant'[d] = grant[d]
          BY <5>1, <5>2, RowChanges
        <5> QED BY <3>2, <3>3, <5>3 DEF ShareLive, Made, Expired
      <4>2. CASE {h \in Beside(g, grant[g].holder) : Permanent(h)} # {}
        <5>1. PICK h \in GrantIds \ {g} :
                /\ Lasting(h) /\ grant[h].holder = grant[g].holder
                /\ OnlyEnds(g, "folded")
                /\ grant'[h].inherit = (grant[h].inherit \/ grant[g].inherit)
                /\ \A x \in GrantIds \ {g, h} : grant'[x] = grant[x]
          BY <1>1, <2>3, <3>1, <4>2, KeepFolds
        <5>2. grant'[h].holder = grant[h].holder /\ ShareLive(h)'
          BY <5>1 DEF OnlyEnds, Rests, Lasting, ShareLive, Made, Expired
        <5>3. CASE d \in {g, h}
          BY <3>3, <5>1, <5>2, <5>3
        <5>4. CASE d \notin {g, h}
          BY <3>2, <3>3, <5>1, <5>4 DEF ShareLive, Made, Expired
        <5> QED BY <5>3, <5>4
      <4> QED BY <4>1, <4>2
    <3> QED BY <3>3 DEF Conveyed
  <2> QED BY <2>1, <2>2, <2>3
<1>2. GrantsInductive /\ [SharesNext]_sharesVars
      => [change.op = "keep" /\ change' = NoChange =>
            \A p \in Principals \cup {Tag} : Conveyed(p) \subseteq Conveyed(p)']_sharesVars
  BY <1>1
<1> QED BY <1>2, GrantsStart, GrantsStep, PTL DEF SharesSpec, KeepingTakesNothing

-----------------------------------------------------------------------------
(* The command line.  The holder of the file lock knows the file; a sign-in *)
(* on its way to the file is nobody else's; and what is known of a key is   *)
(* one request, pending until its result is seen or its place is taken.     *)

Token == [of : 0 .. MaxSignIns, turn : Nat, due : BOOLEAN]
Retry == [intent : Intents, key : 0 .. MaxKeys, target : Targets \union {NoEntry}]
Phases == {"idle", "refresh", "signed", "present", "save", "keep", "replaced", "revoke", "forget",
           "prepare", "send", "finish"}
ProcessRows == [pc : Phases, token : Token, request : Retry, read : Retry]

CommandsTyped ==
    /\ session \in Token /\ pending \in Retry
    /\ lock \in Commands \union {NobodyHolds}
    /\ cmd \in [Commands -> ProcessRows]
    /\ family \in [1 .. MaxSignIns -> [turn : Nat, alive : BOOLEAN]]
    /\ server \in [1 .. MaxKeys -> Retry]

\* The phases in which a process has a sign-in at hand.
Using == {"signed", "prepare", "send", "finish"}

\* What a process holds agrees with the file and the lock.
GoodProcess(p) ==
    /\ lock = p <=> cmd[p].pc \in LockHeld
    /\ cmd[p].pc \in LockHeld =>
         /\ cmd[p].token.of = session.of /\ session.of # 0 /\ cmd[p].read = pending
         /\ cmd[p].token.turn = IF cmd[p].pc = "save" THEN session.turn + 1 ELSE session.turn
    /\ cmd[p].pc \in Using => /\ cmd[p].token.of # 0
                              /\ session.of # cmd[p].token.of \/ session.turn >= cmd[p].token.turn
    /\ cmd[p].request.key # 0 <=> cmd[p].pc \in {"send", "finish"}
    /\ cmd[p].pc = "replaced" => cmd[p].token.of # 0 /\ cmd[p].token.of # session.of

\* A sign-in between Silicon Accounts and the file is new, and nobody else's.
Arriving(p) ==
    cmd[p].pc = "keep" =>
        LET f == cmd[p].token.of IN
        /\ f # 0 /\ f # session.of /\ f \notin hurt /\ cmd[p].token.turn = 0
        /\ family[f].alive /\ family[f].turn = 0
        /\ \A q \in Commands \ {p} : cmd[q].token.of # f

\* Nobody has a token of a sign-in that was not made, and none is ahead of it.
Signed(f) == f # 0 => family[f].alive \/ family[f].turn > 0
SignInsMade ==
    /\ Signed(session.of) /\ \A p \in Commands : Signed(cmd[p].token.of)
    /\ hurt \subseteq 1 .. MaxSignIns /\ \A f \in hurt : Signed(f)

Turn == session.turn + (IF \E p \in Commands : cmd[p].pc = "save" THEN 1 ELSE 0)
Alive ==
    session.of # 0 =>
        /\ Turn <= family[session.of].turn
        /\ session.of \in hurt
           \/ (\E p \in Commands : cmd[p].pc = "forget")
           \/ (family[session.of].alive /\ family[session.of].turn = Turn)

\* One request has a key, and it is pending until its result is seen or its
\* place is taken.
OneRequest ==
    /\ \A k \in 1 .. MaxKeys : server[k].key \in {0, k}
    /\ \A x, y \in Requests : x.key = y.key /\ x.key # 0 => x = y
    /\ \A x \in Requests : x.key # 0 /\ x.key \notin seen \union replaced => pending.key = x.key

CommandsInductive ==
    /\ CommandsTyped /\ SignInsMade /\ Alive /\ OneRequest
    /\ \A p \in Commands : GoodProcess(p) /\ Arriving(p)

\* A process takes a step: it changes the sign-in only by what it holds, and
\* the file only with the lock or while nobody has it.
StepOf(p) ==
    /\ cmd' \in [Commands -> ProcessRows] /\ session' \in Token
    /\ \A q \in Commands \ {p} : cmd'[q] = cmd[q] /\ (lock' = q <=> lock = q)
    /\ session'.of = session.of \/ session'.of = 0
       \/ (cmd[p].pc = "keep" /\ session'.of = cmd[p].token.of)
    /\ session'.of = session.of => session'.turn >= session.turn
    /\ lock \notin {p, NobodyHolds} => /\ session'.of = session.of /\ session'.turn = session.turn
                                       /\ pending' = pending
    /\ hurt' \subseteq hurt \union ({cmd[p].token.of} \ {0})
    /\ \A f \in 1 .. MaxSignIns :
        /\ family'[f] = family[f] \/ f = cmd[p].token.of \/ NewSignIn(f)
        /\ Signed(f) => Signed(f)'
    /\ cmd'[p].token.of \in {0, cmd[p].token.of, session.of}
       \/ (NewSignIn(cmd'[p].token.of) /\ Signed(cmd[p].token.of)')

\* The other processes stay as they were, and no token is of a sign-in that
\* was never made.
LEMMA OthersStay ==
    ASSUME CommandsInductive, NEW p \in Commands, StepOf(p)
    PROVE  SignInsMade' /\ \A q \in Commands \ {p} : GoodProcess(q)' /\ Arriving(q)'
<1> USE CommandLineAssumption
<1>0. CommandsTyped /\ SignInsMade /\ (\A q \in Commands : GoodProcess(q) /\ Arriving(q))
  BY DEF CommandsInductive
<1>1. /\ session \in Token /\ session' \in Token
      /\ \A q \in Commands : cmd[q].token \in Token /\ cmd'[q].token \in Token
  BY <1>0 DEF CommandsTyped, StepOf, ProcessRows
<1>2. /\ session.of \in 0 .. MaxSignIns /\ session.turn \in Nat
      /\ session'.of \in 0 .. MaxSignIns /\ session'.turn \in Nat
      /\ \A q \in Commands : /\ cmd[q].token.of \in 0 .. MaxSignIns /\ cmd'[q].token.of \in 0 .. MaxSignIns
                             /\ cmd[q].token.turn \in Nat
  BY <1>1 DEF Token
<1>3. \A f \in 0 .. MaxSignIns : Signed(f) => Signed(f)'
  BY DEF StepOf, Signed
<1>4. Signed(session.of)' /\ \A q \in Commands : Signed(cmd[q].token.of)'
  <2>1. ASSUME NEW f \in 0 .. MaxSignIns, f = session'.of PROVE Signed(f)'
    <3>1. Signed(f)
      BY <1>0, <2>1 DEF SignInsMade, Signed, StepOf
    <3> QED BY <1>3, <3>1
  <2>2. ASSUME NEW q \in Commands, NEW f \in 0 .. MaxSignIns, f = cmd'[q].token.of
        PROVE  Signed(f)'
    <3>1. CASE q # p \/ cmd'[p].token.of \in {0, cmd[p].token.of, session.of}
      <4>1. Signed(f)
        BY <1>0, <2>2, <3>1 DEF SignInsMade, Signed, StepOf
      <4> QED BY <1>3, <4>1
    <3>2. CASE q = p /\ cmd'[p].token.of \notin {0, cmd[p].token.of, session.of}
      BY <2>2, <3>2 DEF StepOf, Signed
    <3> QED BY <3>1, <3>2
  <2> QED BY <1>2, <2>1, <2>2 DEF Signed
<1>5. hurt' \subseteq 1 .. MaxSignIns /\ \A f \in hurt' : Signed(f)'
  <2>1. hurt' \subseteq 1 .. MaxSignIns /\ \A f \in hurt' : Signed(f)
    <3>1. hurt' \subseteq hurt \union ({cmd[p].token.of} \ {0})
      BY DEF StepOf
    <3>2. cmd[p].token.of \in 0 .. MaxSignIns
      BY <1>2
    <3>3. hurt \subseteq 1 .. MaxSignIns /\ (\A f \in hurt : Signed(f)) /\ Signed(cmd[p].token.of)
      BY <1>0 DEF SignInsMade
    <3> QED BY <3>1, <3>2, <3>3
  <2> QED BY <1>3, <2>1
<1>6. SignInsMade'
  BY <1>4, <1>5 DEF SignInsMade
<1>7. ASSUME NEW q \in Commands \ {p} PROVE GoodProcess(q)'
  <2>1. cmd'[q] = cmd[q] /\ (lock' = q <=> lock = q) /\ GoodProcess(q)
    BY <1>0, <1>7 DEF StepOf
  <2>2. lock = q => session'.of = session.of /\ session'.turn = session.turn /\ pending' = pending
    BY <1>7 DEF StepOf
  <2>3. cmd[q].token.of = 0 \/ session'.of # cmd[q].token.of
        \/ (session'.of = session.of /\ session'.turn >= session.turn)
    <3>1. CASE cmd[p].pc = "keep" /\ session'.of = cmd[p].token.of
      <4>1. cmd[q].token.of # cmd[p].token.of
        BY <1>0, <1>7, <3>1 DEF Arriving
      <4> QED BY <3>1, <4>1
    <3>2. CASE session'.of = session.of
      BY <3>2 DEF StepOf
    <3>3. CASE session'.of = 0
      BY <3>3
    <3> QED BY <3>1, <3>2, <3>3 DEF StepOf
  <2>4. lock' = q <=> cmd'[q].pc \in LockHeld
    BY <2>1 DEF GoodProcess
  <2>5. cmd'[q].pc \in LockHeld =>
         /\ cmd'[q].token.of = session'.of /\ session'.of # 0 /\ cmd'[q].read = pending'
         /\ cmd'[q].token.turn = IF cmd'[q].pc = "save" THEN session'.turn + 1 ELSE session'.turn
    BY <2>1, <2>2 DEF GoodProcess
  <2>6. cmd'[q].pc \in Using =>
         cmd'[q].token.of # 0 /\ (session'.of # cmd'[q].token.of \/ session'.turn >= cmd'[q].token.turn)
    <3>1. cmd[q].pc \in Using =>
            cmd[q].token.of # 0 /\ (session.of # cmd[q].token.of \/ session.turn >= cmd[q].token.turn)
      BY <2>1 DEF GoodProcess, Using
    <3>2. session'.turn \in Nat /\ session.turn \in Nat /\ cmd[q].token.turn \in Nat
      BY <1>2
    <3>3. CASE session'.of # cmd[q].token.of
      BY <2>1, <3>1, <3>3
    <3>4. CASE session'.of = cmd[q].token.of /\ cmd[q].token.of # 0
      <4>1. session'.of = session.of /\ session'.turn >= session.turn
        BY <2>3, <3>4
      <4> QED BY <2>1, <3>1, <3>2, <3>4, <4>1
    <3>5. CASE cmd[q].token.of = 0
      BY <2>1, <3>1, <3>5
    <3> QED BY <3>3, <3>4, <3>5
  <2>7. cmd'[q].pc = "replaced" => cmd'[q].token.of # 0 /\ cmd'[q].token.of # session'.of
    BY <2>1, <2>3 DEF GoodProcess
  <2>8. cmd'[q].request.key # 0 <=> cmd'[q].pc \in {"send", "finish"}
    BY <2>1 DEF GoodProcess
  <2> QED BY <2>4, <2>5, <2>6, <2>7, <2>8 DEF GoodProcess
<1>8. ASSUME NEW q \in Commands \ {p}, cmd'[q].pc = "keep" PROVE Arriving(q)'
  <2> DEFINE f == cmd[q].token.of
  <2>1. cmd'[q] = cmd[q] /\ Arriving(q) /\ f \in 1 .. MaxSignIns
    BY <1>0, <1>2, <1>8 DEF StepOf, Arriving
  <2>2. /\ f # 0 /\ f # session.of /\ f \notin hurt /\ cmd[q].token.turn = 0
        /\ family[f].alive /\ family[f].turn = 0 /\ ~NewSignIn(f)
        /\ \A r \in Commands \ {q} : cmd[r].token.of # f
    BY <1>8, <2>1 DEF Arriving, NewSignIn
  <2>3. f # session'.of /\ f \notin hurt' /\ family'[f] = family[f]
    BY <2>1, <2>2 DEF StepOf
  <2>4. \A r \in Commands \ {q} : cmd'[r].token.of # f
    BY <2>2 DEF StepOf
  <2> HIDE DEF f
  <2> QED BY <2>1, <2>2, <2>3, <2>4 DEF Arriving, f
<1>9. \A q \in Commands \ {p} : Arriving(q)'
  BY <1>8 DEF Arriving
<1> QED BY <1>6, <1>7, <1>9

\* A step that leaves the requests alone, except that a process may drop its own.
RequestsRest(p) ==
    /\ UNCHANGED <<pending, server, seen, replaced>>
    /\ \A q \in Commands \ {p} : cmd'[q] = cmd[q]
    /\ cmd'[p].request.key = 0 \/ cmd'[p].request = cmd[p].request

LEMMA OneRequestStays ==
    ASSUME OneRequest, NEW p \in Commands, RequestsRest(p)
    PROVE  OneRequest'
<1>1. \A x \in Requests' : x \in Requests \/ x.key = 0
  BY DEF Requests, RequestsRest
<1>2. UNCHANGED <<pending, server, seen, replaced>>
  BY DEF RequestsRest
<1> QED BY <1>1, <1>2 DEF OneRequest

\* A step that leaves the sign-in that is saved alone.
SignInRests(p) ==
    /\ session'.of = session.of /\ session'.turn = session.turn
    /\ session.of # 0 => family'[session.of] = family[session.of]
    /\ hurt \subseteq hurt'
    /\ \A q \in Commands \ {p} : cmd'[q] = cmd[q]
    /\ cmd[p].pc \notin {"save", "forget"} /\ cmd'[p].pc # "save"

LEMMA AliveStays ==
    ASSUME Alive, NEW p \in Commands, SignInRests(p)
    PROVE  Alive'
<1>1. (\E q \in Commands : cmd'[q].pc = "save") <=> \E q \in Commands : cmd[q].pc = "save"
  BY DEF SignInRests
<1>2. (\E q \in Commands : cmd[q].pc = "forget") => \E q \in Commands : cmd'[q].pc = "forget"
  BY DEF SignInRests
<1>3. Turn' = Turn
  BY <1>1 DEF SignInRests, Turn
<1> QED BY <1>2, <1>3 DEF SignInRests, Alive

\* All that an action has to show for it.
LEMMA StepKeeps ==
    ASSUME CommandsInductive, NEW p \in Commands, StepOf(p), CommandsTyped', GoodProcess(p)',
           Arriving(p)', Alive', OneRequest'
    PROVE  CommandsInductive'
BY OthersStay DEF CommandsInductive

\* A process of which the four fields are known.
LEMMA Becomes ==
    ASSUME cmd \in [Commands -> ProcessRows], NEW p \in Commands, NEW entry \in ProcessRows,
           cmd' = [cmd EXCEPT ![p] = entry]
    PROVE  /\ cmd' \in [Commands -> ProcessRows] /\ cmd'[p] = entry
           /\ \A q \in Commands \ {p} : cmd'[q] = cmd[q]
OBVIOUS

LEMMA Rows ==
    ASSUME CommandsTyped
    PROVE  /\ Blank \in Retry /\ Blank.key = 0 /\ SignedOut \in Token /\ SignedOut.of = 0
           /\ SignedOut.turn = 0 /\ Quiet \in ProcessRows /\ Quiet = Process("idle", SignedOut, Blank, Blank)
           /\ \A i \in Intents : NoRetry(i) \in Retry /\ NoRetry(i).key = 0
           /\ session \in Token /\ pending \in Retry
           /\ \A p \in Commands : /\ cmd[p] \in ProcessRows /\ cmd[p].pc \in Phases /\ cmd[p].token \in Token
                                  /\ cmd[p].request \in Retry /\ cmd[p].request.intent \in Intents
                                  /\ cmd[p].read \in Retry
           /\ \A pc \in Phases, t \in Token, r, d \in Retry :
                /\ Process(pc, t, r, d) \in ProcessRows /\ Process(pc, t, r, d).pc = pc
                /\ Process(pc, t, r, d).token = t /\ Process(pc, t, r, d).request = r
                /\ Process(pc, t, r, d).read = d
<1> USE CommandLineAssumption
<1>1. Blank \in Retry /\ Blank.key = 0
  BY DEF Blank, NoRetry, Retry
<1>2. SignedOut \in Token /\ SignedOut.of = 0 /\ SignedOut.turn = 0
  BY DEF SignedOut, Token
<1>3. Quiet = Process("idle", SignedOut, Blank, Blank) /\ "idle" \in Phases
  BY DEF Quiet, Phases
<1>4. \A pc \in Phases, t \in Token, r, d \in Retry :
        /\ Process(pc, t, r, d) \in ProcessRows /\ Process(pc, t, r, d).pc = pc
        /\ Process(pc, t, r, d).token = t /\ Process(pc, t, r, d).request = r
        /\ Process(pc, t, r, d).read = d
  BY DEF Process, ProcessRows
<1>5. Quiet \in ProcessRows
  BY <1>1, <1>2, <1>3, <1>4
<1>6. \A i \in Intents : NoRetry(i) \in Retry /\ NoRetry(i).key = 0
  BY DEF NoRetry, Retry
<1>7. /\ session \in Token /\ pending \in Retry
      /\ \A p \in Commands : /\ cmd[p] \in ProcessRows /\ cmd[p].pc \in Phases /\ cmd[p].token \in Token
                             /\ cmd[p].request \in Retry /\ cmd[p].request.intent \in Intents
                             /\ cmd[p].read \in Retry
  BY DEF CommandsTyped, ProcessRows, Retry
<1> QED BY <1>1, <1>2, <1>3, <1>4, <1>5, <1>6, <1>7

\* What the step of a process may do to what processes share.
SharedFits(p) ==
    /\ lock' \in Commands \union {NobodyHolds}
    /\ \A q \in Commands \ {p} : lock' = q <=> lock = q
    /\ pending' \in Retry /\ (lock \notin {p, NobodyHolds} => pending' = pending)
    /\ server' \in [1 .. MaxKeys -> Retry]
    /\ family' \in [1 .. MaxSignIns -> [turn : Nat, alive : BOOLEAN]]
    /\ hurt' \subseteq hurt \union ({cmd[p].token.of} \ {0})
    /\ \A f \in 1 .. MaxSignIns :
        /\ family'[f] = family[f] \/ f = cmd[p].token.of
        /\ Signed(f) => Signed(f)'

\* What a process may become while the sign-in of the profile stays.
RowFits(p, entry) ==
    /\ lock' = p <=> entry.pc \in LockHeld
    /\ entry.pc \in LockHeld =>
         /\ entry.token.of = session.of /\ session.of # 0 /\ entry.read = pending'
         /\ entry.token.turn = IF entry.pc = "save" THEN session.turn + 1 ELSE session.turn
    /\ entry.pc \in Using =>
         entry.token.of # 0 /\ (session.of # entry.token.of \/ session.turn >= entry.token.turn)
    /\ entry.request.key # 0 <=> entry.pc \in {"send", "finish"}
    /\ entry.pc \notin {"keep", "replaced"}
    /\ entry.token.of \in {0, cmd[p].token.of, session.of}

LEMMA SessionStays ==
    ASSUME CommandsInductive, NEW p \in Commands, NEW entry \in ProcessRows,
           cmd' = [cmd EXCEPT ![p] = entry], session' = session, SharedFits(p), RowFits(p, entry),
           Alive', OneRequest'
    PROVE  CommandsInductive'
<1>0. CommandsTyped
  BY DEF CommandsInductive
<1>1. /\ cmd' \in [Commands -> ProcessRows] /\ cmd'[p] = entry
      /\ \A q \in Commands \ {p} : cmd'[q] = cmd[q]
  BY <1>0, Becomes DEF CommandsTyped
<1>2. session \in Token /\ session.turn \in Nat
  BY <1>0 DEF CommandsTyped, Token
<1>3. CommandsTyped'
  BY <1>0, <1>1 DEF CommandsTyped, SharedFits
<1>4. StepOf(p)
  <2>1. session' \in Token /\ session'.of = session.of /\ session'.turn = session.turn
        /\ session'.turn >= session.turn
    BY <1>2
  <2>2. cmd'[p].token.of \in {0, cmd[p].token.of, session.of}
    BY <1>1 DEF RowFits
  <2> QED BY <1>1, <2>1, <2>2 DEF SharedFits, StepOf
<1>5. GoodProcess(p)'
  BY <1>1 DEF RowFits, GoodProcess
<1>6. Arriving(p)'
  BY <1>1 DEF RowFits, Arriving
<1> QED BY <1>3, <1>4, <1>5, <1>6, StepKeeps

\* Steps that change nothing but the process and the lock.
LEMMA NothingShared ==
    ASSUME CommandsInductive, NEW p \in Commands, NEW entry \in ProcessRows,
           cmd' = [cmd EXCEPT ![p] = entry], RowFits(p, entry),
           UNCHANGED <<session, pending, server, seen, replaced, family, hurt>>,
           lock' \in Commands \union {NobodyHolds},
           \A q \in Commands \ {p} : lock' = q <=> lock = q,
           cmd[p].pc \notin {"save", "forget"}, entry.pc # "save",
           entry.request.key = 0 \/ entry.request = cmd[p].request
    PROVE  CommandsInductive'
<1>0. CommandsTyped /\ Alive /\ OneRequest
  BY DEF CommandsInductive
<1>1. cmd'[p] = entry /\ \A q \in Commands \ {p} : cmd'[q] = cmd[q]
  BY <1>0, Becomes DEF CommandsTyped
<1>2. SharedFits(p)
  BY <1>0 DEF SharedFits, CommandsTyped, Signed
<1>3. Alive'
  BY <1>0, <1>1, AliveStays DEF SignInRests
<1>4. OneRequest'
  BY <1>0, <1>1, OneRequestStays DEF RequestsRest
<1> QED BY <1>2, <1>3, <1>4, SessionStays

\* What the lock says of its holder and of the others.
LEMMA Holder ==
    ASSUME CommandsInductive, NEW p \in Commands
    PROVE  /\ CommandsTyped /\ SignInsMade /\ Alive /\ OneRequest /\ GoodProcess(p) /\ Arriving(p)
           /\ cmd[p].pc \in LockHeld => lock = p /\ \A q \in Commands \ {p} : cmd[q].pc \notin LockHeld
           /\ Free => \A q \in Commands : cmd[q].pc \notin LockHeld
           /\ session.of \in 0 .. MaxSignIns /\ session.turn \in Nat /\ session.due \in BOOLEAN
           /\ cmd[p].token.of \in 0 .. MaxSignIns /\ cmd[p].token.turn \in Nat
           /\ cmd[p].token \in Token /\ session \in Token
<1>1. CommandsTyped /\ \A q \in Commands : GoodProcess(q)
  BY DEF CommandsInductive
<1>2. cmd[p].token \in Token /\ session \in Token
  BY <1>1, Rows
<1>3. session.of \in 0 .. MaxSignIns /\ session.turn \in Nat /\ session.due \in BOOLEAN
      /\ cmd[p].token.of \in 0 .. MaxSignIns /\ cmd[p].token.turn \in Nat
  BY <1>2 DEF Token
<1>4. Free => \A q \in Commands : cmd[q].pc \notin LockHeld
  BY <1>1, CommandLineAssumption DEF GoodProcess, Free
<1>5. cmd[p].pc \in LockHeld => lock = p /\ \A q \in Commands \ {p} : cmd[q].pc \notin LockHeld
  BY <1>1 DEF GoodProcess
<1> QED BY <1>1, <1>2, <1>3, <1>4, <1>5 DEF CommandsInductive

LEMMA ConnectKeeps ==
    ASSUME CommandsInductive, NEW p \in Commands, NEW i \in Intents, Connect(p, i)
    PROVE  CommandsInductive'
<1>1. GoodProcess(p) /\ CommandsTyped /\ session.turn \in Nat
  BY Holder
<1>2. PICK pc \in {"refresh", "signed"} : cmd' = [cmd EXCEPT ![p] = Process(pc, session, NoRetry(i), Blank)]
  BY DEF Connect
<1>3. pc \in Phases /\ session \in Token /\ NoRetry(i) \in Retry /\ NoRetry(i).key = 0 /\ Blank \in Retry
  BY <1>1, Rows DEF Phases
<1>4. PICK entry \in ProcessRows : entry = Process(pc, session, NoRetry(i), Blank)
  BY <1>1, <1>3, Rows
<1>5. entry.pc = pc /\ entry.token = session /\ entry.request.key = 0
  BY <1>1, <1>3, <1>4, Rows
<1>6. /\ cmd[p].pc = "idle" /\ session.of # 0
      /\ UNCHANGED <<session, pending, lock, server, seen, replaced, family, hurt>>
  BY DEF Connect, Start, Results, Remote
<1>7. RowFits(p, entry)
  BY <1>1, <1>5, <1>6 DEF RowFits, GoodProcess, LockHeld, Using
<1>8. lock' \in Commands \union {NobodyHolds}
  BY <1>1, <1>6 DEF CommandsTyped
<1> QED BY <1>2, <1>4, <1>5, <1>6, <1>7, <1>8, NothingShared

\* A process that ends, without the lock.
LEMMA QuietFits ==
    ASSUME CommandsTyped, NEW p \in Commands, lock' # p
    PROVE  /\ RowFits(p, Quiet) /\ Quiet \in ProcessRows /\ Quiet.pc = "idle"
           /\ Quiet.token = SignedOut /\ Quiet.request.key = 0
<1>1. /\ Quiet \in ProcessRows /\ Quiet = Process("idle", SignedOut, Blank, Blank)
      /\ SignedOut.of = 0 /\ Blank.key = 0
  BY Rows
<1>2. Quiet.pc = "idle" /\ Quiet.token = SignedOut /\ Quiet.request.key = 0 /\ Quiet.token.of = 0
  BY <1>1 DEF Process
<1> QED BY <1>1, <1>2 DEF RowFits, LockHeld, Using

LEMMA RefreshKeeps ==
    ASSUME CommandsInductive, NEW p \in Commands, Refresh(p)
    PROVE  CommandsInductive'
<1>0. GoodProcess(p) /\ CommandsTyped /\ session.turn \in Nat /\ session \in Token /\ lock = NobodyHolds
      /\ p # NobodyHolds
  BY Holder, CommandLineAssumption DEF Refresh, Free
<1>1. /\ cmd[p].pc = "refresh" /\ cmd[p].request \in Retry /\ cmd[p].request.key = 0
      /\ UNCHANGED <<session, pending, server, seen, replaced, family, hurt>>
  BY <1>0, Rows DEF Refresh, GoodProcess, Results, Local, Remote
<1>2. CASE session.of = 0
  <2>1. cmd' = [cmd EXCEPT ![p] = Quiet] /\ lock' = lock
    BY <1>2 DEF Refresh, End
  <2>2. lock' # p /\ RowFits(p, Quiet) /\ Quiet \in ProcessRows /\ Quiet.pc = "idle" /\ Quiet.request.key = 0
    BY <1>0, <2>1, QuietFits
  <2> QED BY <1>0, <1>1, <2>1, <2>2, NothingShared
<1>3. ASSUME session.of # 0, NEW pc \in {"signed", "present"}, NEW read \in Retry,
             cmd' = [cmd EXCEPT ![p] = Process(pc, session, cmd[p].request, read)],
             lock' = IF pc = "present" THEN p ELSE lock,
             pc = "present" => read = pending
      PROVE  CommandsInductive'
  <2>1. pc \in Phases
    BY DEF Phases
  <2>2. PICK entry \in ProcessRows : entry = Process(pc, session, cmd[p].request, read)
    BY <1>0, <1>1, <2>1, Rows
  <2>3. entry.pc = pc /\ entry.token = session /\ entry.request = cmd[p].request /\ entry.read = read
    BY <1>0, <1>1, <2>1, <2>2, Rows
  <2>4. RowFits(p, entry)
    BY <1>0, <1>1, <1>3, <2>3 DEF RowFits, LockHeld, Using
  <2>5. /\ lock' \in Commands \union {NobodyHolds} /\ \A q \in Commands \ {p} : lock' = q <=> lock = q
        /\ cmd[p].pc \notin {"save", "forget"} /\ entry.pc # "save"
    BY <1>0, <1>1, <1>3, <2>3, CommandLineAssumption
  <2> QED BY <1>0, <1>1, <1>3, <2>2, <2>3, <2>4, <2>5, NothingShared
<1>4. pending \in Retry /\ Blank \in Retry
  BY <1>0, Rows
<1>5. CASE session.of # 0 /\ ~session.due
  <2>1. PICK pc \in {"signed", "present"} :
          pc = "signed" /\ cmd' = [cmd EXCEPT ![p] = Process(pc, session, cmd[p].request, Blank)]
    BY <1>5 DEF Refresh
  <2>2. lock' = lock
    BY <1>5 DEF Refresh
  <2> QED BY <1>3, <1>4, <1>5, <2>1, <2>2
<1>6. CASE session.of # 0 /\ session.due
  <2>1. PICK pc \in {"signed", "present"} :
          pc = "present" /\ cmd' = [cmd EXCEPT ![p] = Process(pc, session, cmd[p].request, pending)]
    BY <1>6 DEF Refresh
  <2>2. lock' = p
    BY <1>6 DEF Refresh
  <2> QED BY <1>3, <1>4, <1>6, <2>1, <2>2
<1> QED BY <1>2, <1>5, <1>6

\* What the turns of sign-ins come to.
LEMMA TurnOf ==
    ASSUME CommandsInductive
    PROVE  /\ Turn \in Nat /\ session.turn <= Turn
           /\ \A p \in Commands : cmd[p].pc \in LockHeld =>
                Turn = cmd[p].token.turn /\ Turn = (IF cmd[p].pc = "save" THEN session.turn + 1 ELSE session.turn)
           /\ Free => Turn = session.turn
<1>1. session \in Token /\ session.turn \in Nat
  BY DEF CommandsInductive, CommandsTyped, Token
<1>2. ASSUME NEW p \in Commands, cmd[p].pc \in LockHeld
      PROVE  Turn = cmd[p].token.turn /\ Turn = (IF cmd[p].pc = "save" THEN session.turn + 1 ELSE session.turn)
  <2>1. GoodProcess(p) /\ \A q \in Commands \ {p} : cmd[q].pc \notin LockHeld
    BY <1>2, Holder
  <2>2. (\E q \in Commands : cmd[q].pc = "save") <=> cmd[p].pc = "save"
    BY <2>1 DEF LockHeld
  <2>3. Turn = session.turn + (IF cmd[p].pc = "save" THEN 1 ELSE 0)
    BY <2>2 DEF Turn
  <2> QED BY <1>1, <1>2, <2>1, <2>3 DEF GoodProcess
<1>3. ASSUME Free PROVE Turn = session.turn
  <2>1. \A q \in Commands : GoodProcess(q)
    BY DEF CommandsInductive
  <2>2. ~\E q \in Commands : cmd[q].pc = "save"
    BY <1>3, <2>1, CommandLineAssumption DEF GoodProcess, Free, LockHeld
  <2>3. Turn = session.turn + 0
    BY <2>2 DEF Turn
  <2> QED BY <1>1, <2>3
<1>4. Turn \in Nat /\ session.turn <= Turn
  BY <1>1 DEF Turn
<1> QED BY <1>2, <1>3, <1>4

\* The token of the holder of the lock is presented: its sign-in goes on, or ends.
LEMMA Presented ==
    ASSUME CommandsInductive, NEW p \in Commands, cmd[p].pc = "present"
    PROVE  LET f == cmd[p].token.of
               takes == TakesToken(cmd[p].token)
               after == AfterToken(cmd[p].token) IN
           /\ f \in 1 .. MaxSignIns /\ f = session.of /\ cmd[p].token.turn = session.turn
           /\ Turn = session.turn /\ lock = p
           /\ after \in [1 .. MaxSignIns -> [turn : Nat, alive : BOOLEAN]]
           /\ \A g \in 1 .. MaxSignIns \ {f} : after[g] = family[g]
           /\ takes => after[f].turn = session.turn + 1 /\ after[f].alive
           /\ ~takes => session.of \in hurt
           /\ after[f].turn > 0 /\ after[f].turn >= session.turn
<1> DEFINE f == cmd[p].token.of
           takes == TakesToken(cmd[p].token)
           after == AfterToken(cmd[p].token)
<1>0. /\ CommandsTyped /\ SignInsMade /\ Alive /\ GoodProcess(p) /\ cmd[p].pc \in LockHeld /\ lock = p
      /\ f \in 0 .. MaxSignIns /\ session.turn \in Nat /\ \A q \in Commands \ {p} : cmd[q].pc \notin LockHeld
  BY Holder DEF LockHeld
<1>1. f \in 1 .. MaxSignIns /\ f = session.of /\ cmd[p].token.turn = session.turn
  BY <1>0, CommandLineAssumption DEF GoodProcess
<1>2. Turn = session.turn
  BY <1>0, TurnOf
<1>3. /\ family[f] \in [turn : Nat, alive : BOOLEAN] /\ family[f].turn \in Nat /\ family[f].alive \in BOOLEAN
      /\ family \in [1 .. MaxSignIns -> [turn : Nat, alive : BOOLEAN]]
  BY <1>0, <1>1 DEF CommandsTyped
<1>4. after = [family EXCEPT ![f] = IF takes THEN [turn |-> family[f].turn + 1, alive |-> TRUE]
                                     ELSE [turn |-> family[f].turn, alive |-> FALSE]]
  BY DEF AfterToken
<1>5. takes <=> family[f].alive /\ family[f].turn = session.turn
  BY <1>1 DEF TakesToken
<1>6. session.turn <= family[f].turn /\ (family[f].alive \/ family[f].turn > 0)
  BY <1>0, <1>1, <1>2 DEF Alive, SignInsMade, Signed
<1>7. ~takes => session.of \in hurt
  <2>1. ~\E q \in Commands : cmd[q].pc = "forget"
    BY <1>0 DEF LockHeld
  <2> QED BY <1>0, <1>1, <1>2, <1>5, <2>1 DEF Alive
<1>8. /\ after \in [1 .. MaxSignIns -> [turn : Nat, alive : BOOLEAN]]
      /\ \A g \in 1 .. MaxSignIns \ {f} : after[g] = family[g]
      /\ after[f] = IF takes THEN [turn |-> family[f].turn + 1, alive |-> TRUE]
                    ELSE [turn |-> family[f].turn, alive |-> FALSE]
  <2> HIDE DEF after, takes, f
  <2>1. [turn |-> family[f].turn + 1, alive |-> TRUE] \in [turn : Nat, alive : BOOLEAN]
        /\ [turn |-> family[f].turn, alive |-> FALSE] \in [turn : Nat, alive : BOOLEAN]
    BY <1>3
  <2> QED BY <1>1, <1>3, <1>4, <2>1
<1>9. CASE takes
  <2>1. after[f].turn = family[f].turn + 1 /\ after[f].alive
    BY <1>8, <1>9
  <2> QED BY <1>0, <1>1, <1>2, <1>3, <1>5, <1>8, <1>9, <2>1
<1>10. CASE ~takes
  <2>1. after[f].turn = family[f].turn
    BY <1>8, <1>10
  <2>2. family[f].turn > 0
    BY <1>0, <1>3, <1>5, <1>6, <1>10
  <2> QED BY <1>0, <1>1, <1>2, <1>3, <1>6, <1>7, <1>8, <1>10, <2>1, <2>2
<1> QED BY <1>9, <1>10

LEMMA PresentKeeps ==
    ASSUME CommandsInductive, NEW p \in Commands, Present(p)
    PROVE  CommandsInductive'
<1> DEFINE token == cmd[p].token
           f == token.of
           after == AfterToken(token)
<1>0. /\ CommandsTyped /\ OneRequest /\ GoodProcess(p) /\ session.turn \in Nat
      /\ p # NobodyHolds /\ cmd[p].pc = "present" /\ token \in Token
  BY Holder, CommandLineAssumption DEF Present
<1>1. /\ f \in 1 .. MaxSignIns /\ f = session.of /\ token.turn = session.turn
      /\ Turn = session.turn /\ lock = p
      /\ after \in [1 .. MaxSignIns -> [turn : Nat, alive : BOOLEAN]]
      /\ \A g \in 1 .. MaxSignIns \ {f} : after[g] = family[g]
      /\ TakesToken(token) => after[f].turn = session.turn + 1 /\ after[f].alive
      /\ after[f].turn > 0 /\ after[f].turn >= session.turn
  BY <1>0, Presented
<1>2. family' = after /\ UNCHANGED <<server, seen, replaced, hurt>> /\ pending' = pending
  BY <1>0 DEF Present, Results, GoodProcess, LockHeld
<1>3. \A g \in 1 .. MaxSignIns :
        /\ family'[g] = family[g] \/ g = f
        /\ Signed(g) => Signed(g)'
  BY <1>1, <1>2 DEF Signed
<1>4. cmd[p].request \in Retry /\ cmd[p].request.key = 0 /\ cmd[p].read = pending /\ pending \in Retry
  BY <1>0, Rows DEF GoodProcess, LockHeld
<1>5. CASE TakesToken(token)
  <2>1. /\ session' = session /\ lock' = lock
        /\ cmd' = [cmd EXCEPT ![p] = Process("save", Rotated(token), cmd[p].request, cmd[p].read)]
    BY <1>5 DEF Present, ToBeSaved
  <2>2. "save" \in Phases /\ Rotated(token) \in Token /\ Rotated(token).of = session.of
        /\ Rotated(token).turn = session.turn + 1
    BY <1>0, <1>1 DEF Rotated, Token, Phases
  <2>3. PICK entry \in ProcessRows : entry = Process("save", Rotated(token), cmd[p].request, cmd[p].read)
    BY <1>0, <1>4, <2>2, Rows
  <2>4. entry.pc = "save" /\ entry.token = Rotated(token) /\ entry.request = cmd[p].request /\ entry.read = pending
    BY <1>0, <1>4, <2>2, <2>3, Rows
  <2>5. RowFits(p, entry)
    BY <1>0, <1>1, <1>2, <1>4, <2>1, <2>2, <2>4 DEF RowFits, LockHeld, Using
  <2>6. SharedFits(p)
    BY <1>0, <1>1, <1>2, <1>3, <1>4, <2>1 DEF SharedFits, CommandsTyped
  <2>7. cmd'[p] = entry /\ \A q \in Commands \ {p} : cmd'[q] = cmd[q]
    BY <1>0, <2>1, <2>3, Becomes DEF CommandsTyped
  <2>8. Alive'
    <3>1. \E q \in Commands : cmd'[q].pc = "save"
      BY <2>4, <2>7
    <3>2. Turn' = session.turn + 1
      BY <2>1, <3>1 DEF Turn
    <3>3. /\ after[session.of].turn = session.turn + 1 /\ after[session.of].alive
          /\ session' = session /\ family' = after /\ session.turn + 1 \in Nat
      BY <1>0, <1>1, <1>2, <1>5, <2>1
    <3> HIDE DEF after, token, f
    <3>4. Turn' <= family'[session.of].turn /\ family'[session.of].alive
          /\ family'[session.of].turn = Turn'
      BY <3>2, <3>3
    <3> QED BY ONLY <3>3, <3>4 DEF Alive
  <2>9. OneRequest'
    BY <1>0, <1>2, <1>4, <2>4, <2>7, OneRequestStays DEF RequestsRest
  <2> QED BY <2>1, <2>3, <2>5, <2>6, <2>8, <2>9, SessionStays
<1>6. CASE ~TakesToken(token)
  <2>1. session' = SignedOut /\ lock' = NobodyHolds /\ cmd' = [cmd EXCEPT ![p] = Quiet]
    BY <1>6 DEF Present, End
  <2>2. Quiet \in ProcessRows /\ Quiet.pc = "idle" /\ Quiet.token = SignedOut /\ Quiet.request.key = 0
        /\ SignedOut \in Token /\ SignedOut.of = 0
    BY <1>0, <2>1, QuietFits, Rows
  <2>3. /\ cmd' \in [Commands -> ProcessRows] /\ cmd'[p] = Quiet
        /\ \A q \in Commands \ {p} : cmd'[q] = cmd[q]
    BY <1>0, <2>1, <2>2, Becomes DEF CommandsTyped
  <2>4. CommandsTyped'
    BY <1>0, <1>1, <1>2, <2>1, <2>2, <2>3 DEF CommandsTyped
  <2>5. StepOf(p)
    BY <1>0, <1>1, <1>2, <1>3, <2>1, <2>2, <2>3, CommandLineAssumption DEF StepOf
  <2>6. GoodProcess(p)'
    BY <1>0, <2>1, <2>2, <2>3 DEF GoodProcess, LockHeld, Using
  <2>7. Arriving(p)' /\ Alive'
    BY <2>1, <2>2, <2>3 DEF Arriving, Alive
  <2>8. OneRequest'
    BY <1>0, <1>2, <2>2, <2>3, OneRequestStays DEF RequestsRest
  <2> QED BY <2>4, <2>5, <2>6, <2>7, <2>8, StepKeeps
<1> QED BY <1>5, <1>6

LEMMA UnansweredKeeps ==
    ASSUME CommandsInductive, NEW p \in Commands, Unanswered(p)
    PROVE  CommandsInductive'
<1> DEFINE token == cmd[p].token
           f == token.of
           after == AfterToken(token)
<1>0. /\ CommandsTyped /\ OneRequest /\ GoodProcess(p) /\ session.turn \in Nat
      /\ p # NobodyHolds /\ cmd[p].pc = "present" /\ token \in Token
  BY Holder, CommandLineAssumption DEF Unanswered
<1>1. /\ f \in 1 .. MaxSignIns /\ f = session.of /\ token.turn = session.turn
      /\ Turn = session.turn /\ lock = p
      /\ after \in [1 .. MaxSignIns -> [turn : Nat, alive : BOOLEAN]]
      /\ \A g \in 1 .. MaxSignIns \ {f} : after[g] = family[g]
      /\ after[f].turn > 0 /\ after[f].turn >= session.turn
  BY <1>0, Presented
<1>2. UNCHANGED <<session, pending, server, seen, replaced>> /\ lock' = NobodyHolds
  BY DEF Unanswered, Results
<1>3. cmd[p].request \in Retry /\ cmd[p].request.key = 0 /\ Blank \in Retry
  BY <1>0, Rows DEF GoodProcess
<1>4. PICK entry \in ProcessRows :
        /\ cmd' = [cmd EXCEPT ![p] = entry] /\ RowFits(p, entry) /\ entry.pc \in {"signed", "idle"}
        /\ entry.request.key = 0
  <2>1. CASE End(p)
    BY <1>0, <1>2, <2>1, QuietFits DEF End
  <2>2. CASE cmd' = [cmd EXCEPT ![p] = Process("signed", token, cmd[p].request, Blank)]
    <3>1. "signed" \in Phases
      BY DEF Phases
    <3>2. PICK entry \in ProcessRows : entry = Process("signed", token, cmd[p].request, Blank)
      BY <1>0, <1>3, <3>1, Rows
    <3>3. entry.pc = "signed" /\ entry.token = token /\ entry.request = cmd[p].request
      BY <1>0, <1>3, <3>1, <3>2, Rows
    <3>4. RowFits(p, entry)
      BY <1>0, <1>1, <1>2, <1>3, <3>3 DEF RowFits, LockHeld, Using
    <3> QED BY <1>3, <2>2, <3>2, <3>3, <3>4
  <2> QED BY <2>1, <2>2 DEF Unanswered
<1>5. lock' \in Commands \union {NobodyHolds} /\ \A q \in Commands \ {p} : lock' = q <=> lock = q
  BY <1>1, <1>2, CommandLineAssumption
<1>6. CASE UNCHANGED <<family, hurt>>
  BY <1>0, <1>2, <1>4, <1>5, <1>6, NothingShared
<1>7. CASE family' = after /\ hurt' = hurt \union {f}
  <2>1. SharedFits(p)
    BY <1>0, <1>1, <1>2, <1>5, <1>7 DEF SharedFits, CommandsTyped, Signed
  <2>2. cmd'[p] = entry /\ \A q \in Commands \ {p} : cmd'[q] = cmd[q]
    BY <1>0, <1>4, Becomes DEF CommandsTyped
  <2>3. OneRequest'
    BY <1>0, <1>2, <1>4, <2>2, OneRequestStays DEF RequestsRest
  <2>4. Alive'
    <3>1. \A q \in Commands \ {p} : cmd[q].pc \notin LockHeld
      BY <1>0, Holder DEF LockHeld
    <3>2. ~\E q \in Commands : cmd'[q].pc = "save"
      BY <1>4, <2>2, <3>1 DEF LockHeld
    <3>3. Turn' = session.turn
      BY <1>0, <1>2, <3>2 DEF Turn
    <3> QED BY <1>1, <1>2, <1>7, <3>3 DEF Alive
  <2> QED BY <1>2, <1>4, <2>1, <2>3, <2>4, SessionStays
<1> QED BY <1>6, <1>7 DEF Unanswered

LEMMA SaveRefreshedKeeps ==
    ASSUME CommandsInductive, NEW p \in Commands, SaveRefreshed(p)
    PROVE  CommandsInductive'
<1> DEFINE token == cmd[p].token
<1>0. /\ CommandsTyped /\ OneRequest /\ Alive /\ GoodProcess(p) /\ session.turn \in Nat
      /\ p # NobodyHolds /\ cmd[p].pc = "save" /\ cmd[p].pc \in LockHeld /\ token \in Token /\ lock = p
      /\ \A q \in Commands \ {p} : cmd[q].pc \notin LockHeld
  BY Holder, CommandLineAssumption DEF SaveRefreshed, LockHeld
<1>1. token.of = session.of /\ session.of # 0 /\ cmd[p].read = pending /\ token.turn = session.turn + 1
  BY <1>0 DEF GoodProcess
<1>2. /\ session' = token /\ pending' = pending /\ lock' = NobodyHolds
      /\ cmd' = [cmd EXCEPT ![p] = Process("signed", token, cmd[p].request, Blank)]
      /\ UNCHANGED <<server, seen, replaced, family, hurt>>
  BY <1>1 DEF SaveRefreshed, Results, Local, Remote
<1>3. cmd[p].request \in Retry /\ cmd[p].request.key = 0 /\ Blank \in Retry /\ "signed" \in Phases
  BY <1>0, Rows DEF GoodProcess, Phases
<1>4. PICK entry \in ProcessRows : entry = Process("signed", token, cmd[p].request, Blank)
  BY <1>0, <1>3, Rows
<1>5. entry.pc = "signed" /\ entry.token = token /\ entry.request = cmd[p].request
  BY <1>0, <1>3, <1>4, Rows
<1>6. /\ cmd' \in [Commands -> ProcessRows] /\ cmd'[p] = entry
      /\ \A q \in Commands \ {p} : cmd'[q] = cmd[q]
  BY <1>0, <1>2, <1>4, Becomes DEF CommandsTyped
<1>7. CommandsTyped'
  BY <1>0, <1>2, <1>6 DEF CommandsTyped
<1>8. StepOf(p)
  <2>1. session'.of = session.of /\ session'.turn >= session.turn
    BY <1>0, <1>1, <1>2
  <2> QED BY <1>0, <1>2, <1>5, <1>6, <2>1, CommandLineAssumption DEF StepOf, Signed
<1>9. GoodProcess(p)'
  <2>1. session'.turn = token.turn /\ token.turn \in Nat
    BY <1>0, <1>1, <1>2
  <2> QED BY <1>0, <1>1, <1>2, <1>3, <1>5, <1>6, <2>1 DEF GoodProcess, LockHeld, Using
<1>10. Arriving(p)'
  BY <1>5, <1>6 DEF Arriving
<1>11. Alive'
  <2>1. Turn = session.turn + 1
    BY <1>0, TurnOf
  <2>2. ~(\E q \in Commands : cmd'[q].pc = "save") /\ ~(\E q \in Commands : cmd[q].pc = "forget")
    BY <1>0, <1>5, <1>6 DEF LockHeld
  <2>3. Turn' = session.turn + 1
    BY <1>0, <1>1, <1>2, <2>2 DEF Turn
  <2> QED BY <1>0, <1>1, <1>2, <2>1, <2>2, <2>3 DEF Alive
<1>12. OneRequest'
  BY <1>0, <1>2, <1>5, <1>6, OneRequestStays DEF RequestsRest
<1> QED BY <1>7, <1>8, <1>9, <1>10, <1>11, <1>12, StepKeeps

LEMMA SignInKeeps ==
    ASSUME CommandsInductive, NEW p \in Commands, NEW f \in 1 .. MaxSignIns, SignIn(p, f)
    PROVE  CommandsInductive'
<1> USE CommandLineAssumption
<1>0. /\ CommandsTyped /\ OneRequest /\ Alive /\ SignInsMade /\ GoodProcess(p)
      /\ session.of \in 0 .. MaxSignIns
  BY Holder
<1> DEFINE token == [of |-> f, turn |-> 0, due |-> FALSE]
           new == [turn |-> 0, alive |-> TRUE]
<1>1. /\ cmd[p].pc = "idle" /\ NewSignIn(f)
      /\ cmd' = [cmd EXCEPT ![p] = Process("keep", token, Blank, Blank)]
      /\ family' = [family EXCEPT ![f] = new]
      /\ UNCHANGED <<session, pending, lock, server, seen, replaced, hurt>>
  BY DEF SignIn, Start, Results
<1>2. token \in Token /\ token.of = f /\ token.turn = 0 /\ "keep" \in Phases /\ Blank \in Retry /\ Blank.key = 0
  BY <1>0, Rows DEF Token, Phases
<1>3. new \in [turn : Nat, alive : BOOLEAN] /\ new.turn = 0 /\ new.alive
  OBVIOUS
<1> HIDE DEF token, new
<1>4. PICK entry \in ProcessRows : entry = Process("keep", token, Blank, Blank)
  BY <1>0, <1>2, Rows
<1>5. entry.pc = "keep" /\ entry.token = token /\ entry.request.key = 0
  BY <1>0, <1>2, <1>4, Rows
<1>6. /\ cmd' \in [Commands -> ProcessRows] /\ cmd'[p] = entry
      /\ \A q \in Commands \ {p} : cmd'[q] = cmd[q]
  BY <1>0, <1>1, <1>4, Becomes DEF CommandsTyped
<1>7. /\ family' \in [1 .. MaxSignIns -> [turn : Nat, alive : BOOLEAN]]
      /\ family'[f] = new /\ \A g \in 1 .. MaxSignIns \ {f} : family'[g] = family[g]
  BY <1>0, <1>1, <1>3 DEF CommandsTyped
<1>8. f # session.of /\ f \notin hurt /\ \A q \in Commands : cmd[q].token.of # f
  BY <1>0, <1>1 DEF SignInsMade, Signed, NewSignIn
<1>9. CommandsTyped'
  BY <1>0, <1>1, <1>6, <1>7 DEF CommandsTyped
<1>10. StepOf(p)
  <2>1. \A g \in 1 .. MaxSignIns :
          /\ family'[g] = family[g] \/ NewSignIn(g)
          /\ Signed(g) => Signed(g)'
    BY <1>1, <1>3, <1>7 DEF Signed
  <2>2. NewSignIn(cmd'[p].token.of) /\ Signed(cmd[p].token.of)'
    BY <1>1, <1>2, <1>3, <1>5, <1>6, <1>7 DEF Signed
  <2>3. session' \in Token /\ session'.of = session.of /\ session'.turn >= session.turn
    BY <1>0, <1>1 DEF CommandsTyped, Token
  <2> QED BY <1>0, <1>1, <1>6, <2>1, <2>2, <2>3 DEF StepOf
<1>11. GoodProcess(p)'
  BY <1>0, <1>1, <1>5, <1>6 DEF GoodProcess, LockHeld, Using
<1>12. Arriving(p)'
  BY <1>1, <1>2, <1>3, <1>5, <1>6, <1>7, <1>8 DEF Arriving
<1>13. Alive'
  <2>1. session.of # 0 => family'[session.of] = family[session.of]
    BY <1>0, <1>7, <1>8
  <2> QED BY <1>0, <1>1, <1>5, <1>6, <2>1, AliveStays DEF SignInRests
<1>14. OneRequest'
  BY <1>0, <1>1, <1>5, <1>6, OneRequestStays DEF RequestsRest
<1> QED BY <1>9, <1>10, <1>11, <1>12, <1>13, <1>14, StepKeeps

LEMMA KeepSignInKeeps ==
    ASSUME CommandsInductive, NEW p \in Commands, KeepSignIn(p)
    PROVE  CommandsInductive'
<1> USE CommandLineAssumption
<1> DEFINE token == cmd[p].token
           f == token.of
<1>0. /\ CommandsTyped /\ OneRequest /\ SignInsMade /\ GoodProcess(p) /\ Arriving(p)
      /\ session \in Token /\ session.of \in 0 .. MaxSignIns /\ token \in Token /\ f \in 0 .. MaxSignIns
      /\ \A q \in Commands : cmd[q].pc \notin LockHeld
  BY Holder DEF KeepSignIn
<1>1. /\ cmd[p].pc = "keep" /\ lock = NobodyHolds /\ session' = token
      /\ UNCHANGED <<pending, lock, server, seen, replaced, family, hurt>>
  BY DEF KeepSignIn, Free, Results, Local, Remote
<1>2. /\ f # 0 /\ f # session.of /\ f \notin hurt /\ token.turn = 0 /\ family[f].alive /\ family[f].turn = 0
  BY <1>0, <1>1 DEF Arriving
<1>3. PICK entry \in ProcessRows :
        /\ cmd' = [cmd EXCEPT ![p] = entry] /\ entry.request.key = 0
        /\ \/ entry.pc = "idle" /\ entry.token.of = 0
           \/ entry.pc = "replaced" /\ entry.token.of = session.of /\ session.of # 0
  <2>1. CASE session.of = 0
    <3>1. cmd' = [cmd EXCEPT ![p] = Quiet]
      BY <2>1 DEF KeepSignIn, End
    <3>2. lock' # p
      BY <1>1
    <3>3. Quiet \in ProcessRows /\ Quiet.pc = "idle" /\ Quiet.token.of = 0 /\ Quiet.request.key = 0
      BY <1>0, <3>2, QuietFits, Rows
    <3> QED BY <3>1, <3>3
  <2>2. CASE session.of # 0
    <3>1. cmd' = [cmd EXCEPT ![p] = Process("replaced", session, Blank, Blank)]
      BY <2>2 DEF KeepSignIn
    <3>2. "replaced" \in Phases /\ Blank \in Retry /\ Blank.key = 0
      BY <1>0, Rows DEF Phases
    <3>3. PICK entry \in ProcessRows : entry = Process("replaced", session, Blank, Blank)
      BY <1>0, <3>2, Rows
    <3>4. entry.pc = "replaced" /\ entry.token = session /\ entry.request = Blank
      BY <1>0, <3>2, <3>3, Rows
    <3> QED BY <2>2, <3>1, <3>2, <3>3, <3>4
  <2> QED BY <2>1, <2>2
<1>4. /\ cmd' \in [Commands -> ProcessRows] /\ cmd'[p] = entry
      /\ \A q \in Commands \ {p} : cmd'[q] = cmd[q]
  BY <1>0, <1>3, Becomes DEF CommandsTyped
<1>5. CommandsTyped'
  BY <1>0, <1>1, <1>4 DEF CommandsTyped
<1>6. StepOf(p)
  BY <1>0, <1>1, <1>2, <1>3, <1>4 DEF StepOf, Signed
<1>7. GoodProcess(p)'
  BY <1>0, <1>1, <1>2, <1>3, <1>4 DEF GoodProcess, LockHeld, Using
<1>8. Arriving(p)'
  BY <1>3, <1>4 DEF Arriving
<1>9. Alive'
  <2>1. ~\E q \in Commands : cmd'[q].pc = "save"
    BY <1>0, <1>3, <1>4 DEF LockHeld
  <2>2. Turn' = 0
    BY <1>1, <1>2, <2>1 DEF Turn
  <2> QED BY <1>0, <1>1, <1>2, <2>2 DEF Alive
<1>10. OneRequest'
  BY <1>0, <1>1, <1>3, <1>4, OneRequestStays DEF RequestsRest
<1> QED BY <1>5, <1>6, <1>7, <1>8, <1>9, <1>10, StepKeeps

LEMMA RevokeReplacedKeeps ==
    ASSUME CommandsInductive, NEW p \in Commands, RevokeReplaced(p)
    PROVE  CommandsInductive'
<1> DEFINE f == cmd[p].token.of
<1>0. /\ CommandsTyped /\ OneRequest /\ Alive /\ GoodProcess(p) /\ cmd[p].pc = "replaced"
      /\ f \in 0 .. MaxSignIns
  BY Holder DEF RevokeReplaced
<1>1. f \in 1 .. MaxSignIns /\ f # session.of
  BY <1>0, CommandLineAssumption DEF GoodProcess
<1>2. /\ cmd' = [cmd EXCEPT ![p] = Quiet]
      /\ UNCHANGED <<session, pending, lock, server, seen, replaced, hurt>>
  BY DEF RevokeReplaced, End, Results
<1>3. lock # p /\ lock \in Commands \union {NobodyHolds}
  BY <1>0 DEF GoodProcess, LockHeld, CommandsTyped
<1>4. RowFits(p, Quiet) /\ Quiet \in ProcessRows /\ Quiet.pc = "idle" /\ Quiet.request.key = 0
  BY <1>0, <1>2, <1>3, QuietFits
<1>5. CASE family' = family
  BY <1>0, <1>2, <1>3, <1>4, <1>5, NothingShared
<1>6. CASE Ended(f)
  <2>1. /\ family' \in [1 .. MaxSignIns -> [turn : Nat, alive : BOOLEAN]]
        /\ family'[f].turn > 0 /\ \A g \in 1 .. MaxSignIns \ {f} : family'[g] = family[g]
    BY <1>0, <1>1, <1>6 DEF Ended, CommandsTyped
  <2>2. SharedFits(p)
    BY <1>0, <1>1, <1>2, <1>3, <2>1 DEF SharedFits, CommandsTyped, Signed
  <2>3. cmd'[p] = Quiet /\ \A q \in Commands \ {p} : cmd'[q] = cmd[q]
    BY <1>0, <1>2, <1>4, Becomes DEF CommandsTyped
  <2>4. session.of # 0 => family'[session.of] = family[session.of]
    BY <1>0, <1>1, <2>1, Holder
  <2>5. Alive'
    BY <1>0, <1>2, <1>4, <2>3, <2>4, AliveStays DEF SignInRests
  <2>6. OneRequest'
    BY <1>0, <1>2, <1>4, <2>3, OneRequestStays DEF RequestsRest
  <2> QED BY <1>2, <1>4, <2>2, <2>5, <2>6, SessionStays
<1> QED BY <1>5, <1>6 DEF RevokeReplaced

LEMMA LogoutKeeps ==
    ASSUME CommandsInductive, NEW p \in Commands, Logout(p)
    PROVE  CommandsInductive'
<1>0. /\ CommandsTyped /\ GoodProcess(p) /\ session \in Token /\ session.turn \in Nat
  BY Holder
<1>1. /\ cmd[p].pc = "idle" /\ lock = NobodyHolds /\ lock' = p /\ session.of # 0
      /\ cmd' = [cmd EXCEPT ![p] = Process("revoke", session, Blank, pending)]
      /\ UNCHANGED <<session, pending, server, seen, replaced, family, hurt>>
  BY DEF Logout, Start, Free, Results, Remote
<1>2. "revoke" \in Phases /\ Blank \in Retry /\ Blank.key = 0 /\ pending \in Retry
  BY <1>0, Rows DEF Phases
<1>3. PICK entry \in ProcessRows : entry = Process("revoke", session, Blank, pending)
  BY <1>0, <1>2, Rows
<1>4. entry.pc = "revoke" /\ entry.token = session /\ entry.request = Blank /\ entry.read = pending
  BY <1>0, <1>2, <1>3, Rows
<1>5. RowFits(p, entry)
  BY <1>0, <1>1, <1>2, <1>4 DEF RowFits, LockHeld, Using
<1>6. lock' \in Commands \union {NobodyHolds} /\ \A q \in Commands \ {p} : lock' = q <=> lock = q
  BY <1>1, CommandLineAssumption
<1> QED BY <1>1, <1>2, <1>3, <1>4, <1>5, <1>6, NothingShared

LEMMA RevokeKeeps ==
    ASSUME CommandsInductive, NEW p \in Commands, Revoke(p)
    PROVE  CommandsInductive'
<1> DEFINE f == cmd[p].token.of
<1>0. /\ CommandsTyped /\ OneRequest /\ Alive /\ GoodProcess(p) /\ cmd[p].pc = "revoke"
      /\ cmd[p].pc \in LockHeld /\ lock = p /\ f \in 0 .. MaxSignIns /\ session.turn \in Nat
      /\ \A q \in Commands \ {p} : cmd[q].pc \notin LockHeld
  BY Holder DEF Revoke, LockHeld
<1>1. /\ f \in 1 .. MaxSignIns /\ f = session.of /\ cmd[p].read = pending /\ cmd[p].token.turn = session.turn
      /\ cmd[p].request.key = 0
  BY <1>0, CommandLineAssumption DEF GoodProcess
<1>2. /\ cmd' = [cmd EXCEPT ![p] = Process("forget", cmd[p].token, cmd[p].request, cmd[p].read)]
      /\ UNCHANGED <<session, pending, lock, server, seen, replaced, hurt>>
  BY DEF Revoke, Go, Results
<1>3. "forget" \in Phases /\ cmd[p].token \in Token /\ cmd[p].request \in Retry /\ cmd[p].read \in Retry
  BY <1>0, Rows DEF Phases
<1>4. PICK entry \in ProcessRows : entry = Process("forget", cmd[p].token, cmd[p].request, cmd[p].read)
  BY <1>0, <1>3, Rows
<1>5. /\ entry.pc = "forget" /\ entry.token = cmd[p].token /\ entry.request = cmd[p].request
      /\ entry.read = cmd[p].read
  BY <1>0, <1>3, <1>4, Rows
<1>6. RowFits(p, entry)
  BY <1>0, <1>1, <1>2, <1>5 DEF RowFits, LockHeld, Using
<1>7. /\ family' \in [1 .. MaxSignIns -> [turn : Nat, alive : BOOLEAN]]
      /\ family'[f].turn >= family[f].turn /\ (family'[f].turn > 0 \/ family'[f] = family[f])
      /\ \A g \in 1 .. MaxSignIns \ {f} : family'[g] = family[g]
  <2>1. CASE family' = family
    BY <1>0, <1>1, <2>1 DEF CommandsTyped
  <2>2. CASE Ended(f)
    BY <1>0, <1>1, <2>2 DEF Ended, CommandsTyped
  <2> QED BY <2>1, <2>2 DEF Revoke
<1>8. SharedFits(p)
  BY <1>0, <1>1, <1>2, <1>7 DEF SharedFits, CommandsTyped, Signed
<1>9. cmd'[p] = entry /\ \A q \in Commands \ {p} : cmd'[q] = cmd[q]
  BY <1>0, <1>2, <1>4, Becomes DEF CommandsTyped
<1>10. OneRequest'
  BY <1>0, <1>2, <1>5, <1>9, OneRequestStays DEF RequestsRest
<1>11. Alive'
  <2>1. Turn = session.turn /\ Turn <= family[f].turn
    BY <1>0, <1>1, TurnOf DEF Alive
  <2>2. ~\E q \in Commands : cmd'[q].pc = "save"
    BY <1>0, <1>5, <1>9 DEF LockHeld
  <2>3. Turn' = session.turn
    BY <1>0, <1>2, <2>2 DEF Turn
  <2>4. family[f].turn \in Nat /\ family'[f].turn \in Nat
    BY <1>0, <1>1, <1>7 DEF CommandsTyped
  <2>5. \E q \in Commands : cmd'[q].pc = "forget"
    BY <1>5, <1>9
  <2> QED BY <1>0, <1>1, <1>2, <1>7, <2>1, <2>3, <2>4, <2>5 DEF Alive
<1> QED BY <1>2, <1>4, <1>6, <1>8, <1>10, <1>11, SessionStays

LEMMA ForgetKeeps ==
    ASSUME CommandsInductive, NEW p \in Commands, Forget(p)
    PROVE  CommandsInductive'
<1>0. /\ CommandsTyped /\ OneRequest /\ GoodProcess(p) /\ cmd[p].pc = "forget" /\ cmd[p].pc \in LockHeld
      /\ lock = p /\ p # NobodyHolds
  BY Holder, CommandLineAssumption DEF Forget, LockHeld
<1>1. /\ session' = SignedOut /\ pending' = pending /\ lock' = NobodyHolds
      /\ cmd' = [cmd EXCEPT ![p] = Quiet]
      /\ UNCHANGED <<server, seen, replaced, family, hurt>>
  BY <1>0 DEF Forget, End, GoodProcess, Results, Local, Remote
<1>2. Quiet \in ProcessRows /\ Quiet.pc = "idle" /\ Quiet.token = SignedOut /\ Quiet.request.key = 0
      /\ SignedOut \in Token /\ SignedOut.of = 0 /\ SignedOut.turn = 0 /\ session \in Token
  BY <1>0, <1>1, QuietFits, Rows
<1>3. /\ cmd' \in [Commands -> ProcessRows] /\ cmd'[p] = Quiet
      /\ \A q \in Commands \ {p} : cmd'[q] = cmd[q]
  BY <1>0, <1>1, <1>2, Becomes DEF CommandsTyped
<1>4. CommandsTyped'
  BY <1>0, <1>1, <1>2, <1>3 DEF CommandsTyped
<1>5. StepOf(p)
  <2>1. session'.of = 0 /\ session.of # 0
    BY <1>0, <1>1, <1>2 DEF GoodProcess
  <2> QED BY <1>0, <1>1, <1>2, <1>3, <2>1, CommandLineAssumption DEF StepOf, Signed
<1>6. GoodProcess(p)'
  BY <1>0, <1>1, <1>2, <1>3 DEF GoodProcess, LockHeld, Using
<1>7. Arriving(p)' /\ Alive'
  BY <1>1, <1>2, <1>3 DEF Arriving, Alive
<1>8. OneRequest'
  BY <1>0, <1>1, <1>2, <1>3, OneRequestStays DEF RequestsRest
<1> QED BY <1>4, <1>5, <1>6, <1>7, <1>8, StepKeeps

LEMMA AgeKeeps == CommandsInductive /\ Age => CommandsInductive'
<1> SUFFICES ASSUME CommandsInductive, Age PROVE CommandsInductive'
  OBVIOUS
<1>1. /\ session' = [of |-> session.of, turn |-> session.turn, due |-> TRUE]
      /\ UNCHANGED <<pending, lock, cmd, seen, replaced, family, server, hurt>>
  BY DEF Age, Results, Local, Remote
<1>2. session'.of = session.of /\ session'.turn = session.turn /\ session' \in Token
  BY <1>1 DEF CommandsInductive, CommandsTyped, Token
<1>3. CommandsTyped'
  BY <1>1, <1>2 DEF CommandsInductive, CommandsTyped
<1>4. SignInsMade' /\ Alive' /\ OneRequest'
  BY <1>1, <1>2 DEF CommandsInductive, SignInsMade, Signed, Alive, Turn, OneRequest, Requests
<1>5. \A p \in Commands : GoodProcess(p)' /\ Arriving(p)'
  BY <1>1, <1>2 DEF CommandsInductive, GoodProcess, Arriving
<1> QED BY <1>3, <1>4, <1>5 DEF CommandsInductive

LEMMA KillKeeps ==
    ASSUME CommandsInductive, NEW p \in Commands, Kill(p)
    PROVE  CommandsInductive'
<1> DEFINE f == cmd[p].token.of
<1>0. /\ CommandsTyped /\ OneRequest /\ Alive /\ GoodProcess(p) /\ p # NobodyHolds
      /\ session.turn \in Nat /\ f \in 0 .. MaxSignIns
  BY Holder, CommandLineAssumption
<1>1. /\ cmd' = [cmd EXCEPT ![p] = Quiet]
      /\ lock' = IF lock = p THEN NobodyHolds ELSE lock
      /\ hurt' = IF cmd[p].pc \in {"save", "forget"} THEN hurt \union {f} ELSE hurt
      /\ UNCHANGED <<session, pending, server, seen, replaced, family>>
  BY DEF Kill, End, Results
<1>2. /\ lock' # p /\ lock' \in Commands \union {NobodyHolds}
      /\ \A q \in Commands \ {p} : lock' = q <=> lock = q
  BY <1>0, <1>1, CommandLineAssumption DEF CommandsTyped
<1>3. RowFits(p, Quiet) /\ Quiet \in ProcessRows /\ Quiet.pc = "idle" /\ Quiet.request.key = 0
  BY <1>0, <1>2, QuietFits
<1>4. CASE cmd[p].pc \notin {"save", "forget"}
  BY <1>0, <1>1, <1>2, <1>3, <1>4, NothingShared
<1>5. CASE cmd[p].pc \in {"save", "forget"}
  <2>1. cmd[p].pc \in LockHeld /\ f = session.of /\ f # 0 /\ \A q \in Commands \ {p} : cmd[q].pc \notin LockHeld
    BY <1>0, <1>5, Holder DEF GoodProcess, LockHeld
  <2>2. SharedFits(p)
    BY <1>0, <1>1, <1>2, <2>1 DEF SharedFits, CommandsTyped, Signed
  <2>3. cmd'[p] = Quiet /\ \A q \in Commands \ {p} : cmd'[q] = cmd[q]
    BY <1>0, <1>1, <1>3, Becomes DEF CommandsTyped
  <2>4. OneRequest'
    BY <1>0, <1>1, <1>3, <2>3, OneRequestStays DEF RequestsRest
  <2>5. Alive'
    <3>1. ~\E q \in Commands : cmd'[q].pc = "save"
      BY <1>3, <2>1, <2>3 DEF LockHeld
    <3>2. Turn' = session.turn
      BY <1>0, <1>1, <3>1 DEF Turn
    <3>3. Turn \in Nat /\ session.turn <= Turn /\ Turn <= family[f].turn /\ family[f].turn \in Nat
      BY <1>0, <2>1, TurnOf, CommandLineAssumption DEF Alive, CommandsTyped
    <3> QED BY <1>0, <1>1, <1>5, <2>1, <3>2, <3>3 DEF Alive
  <2> QED BY <1>1, <1>3, <2>2, <2>4, <2>5, SessionStays
<1> QED BY <1>4, <1>5

LEMMA ResolveKeeps ==
    ASSUME CommandsInductive, NEW p \in Commands, Resolve(p)
    PROVE  CommandsInductive'
<1>0. /\ CommandsTyped /\ GoodProcess(p) /\ cmd[p].pc = "signed" /\ cmd[p].token \in Token
  BY Holder DEF Resolve
<1> DEFINE i == cmd[p].request.intent
<1>1. PICK e \in Targets \union {NoEntry} :
        cmd' = [cmd EXCEPT ![p] = Process("prepare", cmd[p].token,
                                          [intent |-> i, key |-> 0, target |-> e], Blank)]
  <2>1. pending.target \in Targets \union {NoEntry}
    BY <1>0 DEF CommandsTyped, Retry
  <2> QED BY <2>1 DEF Resolve
<1>2. UNCHANGED <<session, pending, lock, server, seen, replaced, family, hurt>>
  BY DEF Resolve, Results, Local, Remote
<1>3. PICK r \in Retry : r = [intent |-> i, key |-> 0, target |-> e]
  BY ZenonT(40), <1>0, Rows DEF Retry
<1>4. "prepare" \in Phases /\ Blank \in Retry /\ r.key = 0
  BY <1>0, <1>3, Rows DEF Phases
<1>5. PICK entry \in ProcessRows : entry = Process("prepare", cmd[p].token, r, Blank)
  BY <1>0, <1>4, Rows
<1>6. entry.pc = "prepare" /\ entry.token = cmd[p].token /\ entry.request = r
  BY <1>0, <1>4, <1>5, Rows
<1>7. RowFits(p, entry)
  BY <1>0, <1>2, <1>4, <1>6 DEF RowFits, GoodProcess, LockHeld, Using
<1>8. lock' \in Commands \union {NobodyHolds}
  BY <1>0, <1>2 DEF CommandsTyped
<1> QED BY <1>0, <1>1, <1>2, <1>3, <1>4, <1>5, <1>6, <1>7, <1>8, NothingShared

\* A process that keeps its sign-in and takes another request, or the next step.
LEMMA RequestStep ==
    ASSUME CommandsInductive, NEW p \in Commands, cmd[p].pc \in Using,
           NEW entry \in ProcessRows, cmd' = [cmd EXCEPT ![p] = entry],
           UNCHANGED <<session, lock, family, hurt>>,
           pending' \in Retry, lock # NobodyHolds => pending' = pending,
           server' \in [1 .. MaxKeys -> Retry],
           entry.pc \in {"idle", "send", "finish"}, entry.request.key # 0 <=> entry.pc \in {"send", "finish"},
           entry.pc # "idle" => entry.token = cmd[p].token,
           entry.pc = "idle" => entry.token.of = 0,
           OneRequest'
    PROVE  CommandsInductive'
<1>0. CommandsTyped /\ Alive /\ GoodProcess(p) /\ lock # p
  BY Holder DEF GoodProcess, Using, LockHeld
<1>1. RowFits(p, entry)
  BY <1>0 DEF RowFits, GoodProcess, LockHeld, Using
<1>2. SharedFits(p)
  BY <1>0 DEF SharedFits, CommandsTyped, Signed
<1>3. cmd'[p] = entry /\ \A q \in Commands \ {p} : cmd'[q] = cmd[q]
  BY <1>0, Becomes DEF CommandsTyped
<1>4. Alive'
  BY <1>0, <1>3, AliveStays DEF SignInRests, Using
<1> QED BY <1>1, <1>2, <1>4, SessionStays

LEMMA PrepareIdentityKeeps ==
    ASSUME CommandsInductive, NEW p \in Commands, Prepare(p)
    PROVE  CommandsInductive'
<1>0. /\ CommandsTyped /\ OneRequest /\ cmd[p].pc = "prepare" /\ cmd[p].token \in Token
      /\ pending \in Retry /\ cmd[p].request \in Retry
  BY Holder, Rows DEF Prepare
<1> DEFINE i == cmd[p].request.intent
           new == Identity(p)
<1>1. /\ pending' = new /\ lock = NobodyHolds
      /\ cmd' = [cmd EXCEPT ![p] = Process("send", cmd[p].token, [intent |-> i, key |-> new.key,
                                                                target |-> TargetToUse(p)], Blank)]
      /\ replaced' = IF RetryOf(i) THEN replaced ELSE replaced \union ({pending.key} \ {0})
      /\ UNCHANGED <<session, lock, seen, server, family, hurt>>
  BY DEF Prepare, Free, Local, Remote
<1>2. /\ new \in Retry /\ new.key # 0 /\ [intent |-> i, key |-> new.key, target |-> TargetToUse(p)] = new
      /\ RetryOf(i) => new = pending
      /\ ~RetryOf(i) => \A r \in Requests : r.key < new.key
  <2>1. CASE RetryOf(i)
    <3>1. new = pending /\ pending.key # 0 /\ pending.intent = i /\ TargetToUse(p) = pending.target
      BY <2>1 DEF Identity, RetryOf, TargetToUse
    <3>2. [intent |-> pending.intent, key |-> pending.key, target |-> pending.target] = pending
      BY <1>0 DEF Retry
    <3> QED BY <1>0, <2>1, <3>1, <3>2
  <2>2. CASE ~RetryOf(i)
    <3>1. PICK k \in FreshKeys : k = CHOOSE j \in FreshKeys : TRUE
      BY <2>2 DEF Prepare
    <3>2. k \in 1 .. MaxKeys /\ \A r \in Requests : r.key < k
      BY <3>1 DEF FreshKeys
    <3>3. new = [intent |-> i, key |-> k, target |-> cmd[p].request.target] /\ TargetToUse(p) = cmd[p].request.target
      BY <2>2, <3>1 DEF Identity, TargetToUse
    <3>4. i \in Intents /\ cmd[p].request.target \in Targets \union {NoEntry}
      BY <1>0 DEF Retry
    <3> QED BY <2>2, <3>2, <3>3, <3>4, CommandLineAssumption DEF Retry
  <2> QED BY <2>1, <2>2
<1> HIDE DEF new
<1>3. "send" \in Phases /\ Blank \in Retry
  BY <1>0, Rows DEF Phases
<1>4. PICK entry \in ProcessRows : entry = Process("send", cmd[p].token, new, Blank)
  BY <1>0, <1>2, <1>3, Rows
<1>5. entry.pc = "send" /\ entry.token = cmd[p].token /\ entry.request = new
  BY <1>0, <1>2, <1>3, <1>4, Rows
<1>6. cmd' = [cmd EXCEPT ![p] = entry]
  BY <1>1, <1>2, <1>4
<1>7. cmd'[p] = entry /\ \A q \in Commands \ {p} : cmd'[q] = cmd[q]
  BY <1>0, <1>6, Becomes DEF CommandsTyped
<1>8. OneRequest'
  <2>1. \A x \in Requests' : x \in Requests \/ x = new
    BY <1>1, <1>5, <1>7 DEF Requests
  <2>2. pending \in Requests
    BY DEF Requests
  <2>3. CASE RetryOf(i)
    <3>1. (\A x \in Requests' : x \in Requests) /\ pending' = pending /\ replaced' = replaced
      BY <1>1, <1>2, <2>1, <2>2, <2>3
    <3> QED BY <1>0, <1>1, <3>1 DEF OneRequest
  <2>4. CASE ~RetryOf(i)
    <3>1. \A x \in Requests : x.key # new.key
      <4>1. \A x \in Requests : x.key \in Nat
        <5>1. \A x \in Requests : x \in Retry
          BY <1>0, Rows DEF Requests, CommandsTyped
        <5>2. \A x \in Retry : x.key \in Nat
          BY CommandLineAssumption DEF Retry
        <5> QED BY <5>1, <5>2
      <4> QED BY <1>0, <1>2, <2>4, <4>1 DEF Retry
    <3>2. \A x, y \in Requests' : x.key = y.key /\ x.key # 0 => x = y
      BY <1>0, <2>1, <3>1 DEF OneRequest
    <3>3. ASSUME NEW x \in Requests', x.key # 0, x.key \notin seen' \union replaced', x # new
          PROVE  FALSE
      <4>1. x \in Requests /\ x.key \notin seen \union replaced /\ (pending.key # 0 => x.key # pending.key)
        BY <1>1, <2>1, <2>4, <3>3
      <4> QED BY <1>0, <3>3, <4>1 DEF OneRequest
    <3>4. \A x \in Requests' : x.key # 0 /\ x.key \notin seen' \union replaced' => pending'.key = x.key
      BY <1>1, <3>3
    <3> QED BY <1>0, <1>1, <3>2, <3>4 DEF OneRequest
  <2> QED BY <2>3, <2>4
<1> QED BY <1>0, <1>1, <1>2, <1>5, <1>6, <1>8, RequestStep DEF CommandsTyped, Using

\* Briefcase remembers the request of a key.
LEMMA Applied ==
    ASSUME CommandsTyped, OneRequest, NEW p \in Commands, GoodProcess(p), cmd[p].pc = "send",
           server' = server \/ Apply(p)
    PROVE  /\ server' \in [1 .. MaxKeys -> Retry]
           /\ \A k \in 1 .. MaxKeys : /\ server'[k] = server[k] \/ server'[k] = cmd[p].request
                                     /\ server'[k].key \in {0, k}
<1>1. cmd[p].request \in Retry /\ cmd[p].request.key \in 1 .. MaxKeys
  BY Rows, CommandLineAssumption DEF GoodProcess, Retry
<1>2. PICK r \in Retry : r = cmd[p].request
  BY <1>1
<1>3. server' = server \/ server' = [server EXCEPT ![r.key] = r]
  BY <1>2 DEF Apply
<1>4. CASE server' = server
  BY <1>4 DEF CommandsTyped, OneRequest
<1>5. CASE server' = [server EXCEPT ![r.key] = r]
  BY <1>1, <1>2, <1>5 DEF CommandsTyped, OneRequest
<1> QED BY <1>3, <1>4, <1>5

LEMMA SendKeeps ==
    ASSUME CommandsInductive, NEW p \in Commands, Send(p) \/ SendUnanswered(p)
    PROVE  CommandsInductive'
<1>0. /\ CommandsTyped /\ OneRequest /\ GoodProcess(p) /\ cmd[p].pc = "send" /\ cmd[p].token \in Token
      /\ cmd[p].request \in Retry /\ cmd[p].read \in Retry /\ pending \in Retry
  BY Holder, Rows DEF Send, SendUnanswered
<1>1. /\ server' = server \/ Apply(p)
      /\ UNCHANGED <<session, pending, lock, family, seen, replaced, hurt>>
  BY DEF Send, SendUnanswered, Results
<1>2. /\ server' \in [1 .. MaxKeys -> Retry]
      /\ \A k \in 1 .. MaxKeys : /\ server'[k] = server[k] \/ server'[k] = cmd[p].request
                                /\ server'[k].key \in {0, k}
  BY <1>0, <1>1, Applied
<1>3. lock' # p
  BY <1>0, <1>1 DEF GoodProcess, LockHeld
<1>4. PICK entry \in ProcessRows :
        /\ cmd' = [cmd EXCEPT ![p] = entry]
        /\ \/ entry.pc = "idle" /\ entry.token.of = 0 /\ entry.request.key = 0
           \/ entry.pc = "finish" /\ entry.token = cmd[p].token /\ entry.request = cmd[p].request
  <2>1. CASE SendUnanswered(p)
    <3>1. cmd' = [cmd EXCEPT ![p] = Quiet]
      BY <2>1 DEF SendUnanswered, End
    <3>2. Quiet \in ProcessRows /\ Quiet.pc = "idle" /\ Quiet.token.of = 0 /\ Quiet.request.key = 0
      BY <1>0, <1>3, QuietFits, Rows
    <3> QED BY <3>1, <3>2
  <2>2. CASE Send(p)
    <3>1. cmd' = [cmd EXCEPT ![p] = Process("finish", cmd[p].token, cmd[p].request, cmd[p].read)]
      BY <2>2 DEF Send, Go
    <3>2. "finish" \in Phases
      BY DEF Phases
    <3>3. PICK entry \in ProcessRows : entry = Process("finish", cmd[p].token, cmd[p].request, cmd[p].read)
      BY <1>0, <3>2, Rows
    <3>4. entry.pc = "finish" /\ entry.token = cmd[p].token /\ entry.request = cmd[p].request
      BY <1>0, <3>2, <3>3, Rows
    <3> QED BY <3>1, <3>3, <3>4
  <2> QED BY <2>1, <2>2
<1>5. cmd'[p] = entry /\ \A q \in Commands \ {p} : cmd'[q] = cmd[q]
  BY <1>0, <1>4, Becomes DEF CommandsTyped
<1>6. OneRequest'
  <2>1. \A x \in Requests' : x \in Requests \/ x.key = 0
    BY <1>1, <1>2, <1>4, <1>5 DEF Requests
  <2> QED BY <1>0, <1>1, <1>2, <2>1 DEF OneRequest
<1>7. entry.request.key # 0 <=> entry.pc \in {"send", "finish"}
  BY <1>0, <1>4 DEF GoodProcess
<1> QED BY <1>0, <1>1, <1>2, <1>4, <1>6, <1>7, RequestStep DEF Using

LEMMA FinishKeeps ==
    ASSUME CommandsInductive, NEW p \in Commands, Finish(p)
    PROVE  CommandsInductive'
<1>0. /\ CommandsTyped /\ OneRequest /\ GoodProcess(p) /\ cmd[p].pc = "finish" /\ pending \in Retry
      /\ pending.intent \in Intents
  BY Holder, Rows DEF Finish, CommandsTyped, Retry
<1>1. /\ pending' = IF Clears(p) THEN NoRetry(pending.intent) ELSE pending
      /\ seen' = seen \union {cmd[p].request.key} /\ lock = NobodyHolds /\ cmd' = [cmd EXCEPT ![p] = Quiet]
      /\ UNCHANGED <<session, lock, replaced, server, family, hurt>>
  BY DEF Finish, Free, End, Local, Remote
<1>2. NoRetry(pending.intent) \in Retry /\ NoRetry(pending.intent).key = 0
  BY <1>0, Rows
<1>3. lock' # p
  BY <1>0, <1>1 DEF GoodProcess, LockHeld
<1>4. Quiet \in ProcessRows /\ Quiet.pc = "idle" /\ Quiet.token.of = 0 /\ Quiet.request.key = 0
  BY <1>0, <1>3, QuietFits, Rows
<1>5. cmd'[p] = Quiet /\ \A q \in Commands \ {p} : cmd'[q] = cmd[q]
  BY <1>0, <1>1, <1>4, Becomes DEF CommandsTyped
<1>6. OneRequest'
  <2>1. \A x \in Requests' : x \in Requests \/ x.key = 0
    BY <1>1, <1>2, <1>4, <1>5 DEF Requests
  <2>2. ASSUME NEW x \in Requests, x.key # 0, x.key \notin seen' \union replaced
        PROVE  pending'.key = x.key
    BY <1>0, <1>1, <2>2 DEF OneRequest, Clears
  <2> QED BY <1>0, <1>1, <2>1, <2>2 DEF OneRequest
<1>7. pending' \in Retry /\ server' \in [1 .. MaxKeys -> Retry]
  BY <1>0, <1>1, <1>2 DEF CommandsTyped
<1> QED BY <1>0, <1>1, <1>4, <1>6, <1>7, RequestStep DEF Using

LEMMA CommandsStart == CommandLineInit => CommandsInductive
<1> SUFFICES ASSUME CommandLineInit PROVE CommandsInductive
  OBVIOUS
<1> USE CommandLineAssumption
<1>1. /\ session = [of |-> 1, turn |-> 0, due |-> FALSE] /\ pending = Blank /\ lock = NobodyHolds
      /\ cmd = [p \in Commands |-> Quiet] /\ seen = {} /\ replaced = {} /\ hurt = {}
      /\ family = [f \in 1 .. MaxSignIns |-> [turn |-> 0, alive |-> f = session.of]]
      /\ server = [k \in 1 .. MaxKeys |-> Blank]
  BY DEF CommandLineInit
<1>2. Blank \in Retry /\ Blank.key = 0 /\ SignedOut \in Token /\ SignedOut.of = 0
  BY DEF Blank, NoRetry, Retry, SignedOut, Token
<1>3. /\ Quiet \in ProcessRows /\ Quiet.pc = "idle" /\ Quiet.token.of = 0 /\ Quiet.request = Blank
  BY <1>2 DEF Quiet, Process, ProcessRows, Phases
<1>4. session \in Token /\ session.of = 1 /\ session.turn = 0
  BY <1>1 DEF Token
<1>5. CommandsTyped
  BY <1>1, <1>2, <1>3, <1>4 DEF CommandsTyped
<1>6. family[1].alive /\ family[1].turn = 0
  <2>1. 1 \in 1 .. MaxSignIns
    OBVIOUS
  <2>2. family = [f \in 1 .. MaxSignIns |-> [turn |-> 0, alive |-> f = session.of]]
    BY <1>1
  <2>3. family[1] = [turn |-> 0, alive |-> 1 = session.of]
    BY <2>1, <2>2, Zenon
  <2>4. family[1].turn = 0 /\ family[1].alive = (1 = session.of)
    BY <2>3
  <2> QED BY <1>4, <2>4
<1>7. SignInsMade
  BY <1>1, <1>3, <1>4, <1>6 DEF SignInsMade, Signed
<1>8. Alive
  <2>1. ~\E p \in Commands : cmd[p].pc = "save"
    BY <1>1, <1>3
  <2>2. Turn = 0
    BY <1>4, <2>1 DEF Turn
  <2> QED BY <1>4, <1>6, <2>2 DEF Alive
<1>9. OneRequest
  <2>1. \A x \in Requests : x.key = 0
    BY <1>1, <1>2, <1>3 DEF Requests
  <2> QED BY <1>1, <1>2, <2>1 DEF OneRequest
<1>10. \A p \in Commands : GoodProcess(p) /\ Arriving(p)
  BY <1>1, <1>2, <1>3 DEF GoodProcess, Arriving, LockHeld, Using
<1> QED BY <1>5, <1>7, <1>8, <1>9, <1>10 DEF CommandsInductive

LEMMA CommandsStep == CommandsInductive /\ [CommandLineNext]_clVars => CommandsInductive'
<1> SUFFICES ASSUME CommandsInductive, [CommandLineNext]_clVars PROVE CommandsInductive'
  OBVIOUS
<1>1. CASE UNCHANGED clVars
  BY <1>1 DEF clVars, CommandsInductive, CommandsTyped, SignInsMade, Signed, Alive, Turn, OneRequest,
     Requests, GoodProcess, Arriving
<1>2. ASSUME NEW p \in Commands, SessionStep(p) PROVE CommandsInductive'
  BY <1>2, ConnectKeeps, RefreshKeeps, PresentKeeps, UnansweredKeeps, SaveRefreshedKeeps, SignInKeeps,
     KeepSignInKeeps, RevokeReplacedKeeps, LogoutKeeps, RevokeKeeps, ForgetKeeps DEF SessionStep
<1>3. ASSUME NEW p \in Commands, MutationStep(p) PROVE CommandsInductive'
  BY <1>3, ResolveKeeps, PrepareIdentityKeeps, SendKeeps, FinishKeeps DEF MutationStep
<1> QED BY <1>1, <1>2, <1>3, KillKeeps, AgeKeeps DEF CommandLineNext

\* Processes that share a profile lose neither its sign-in nor the result of a
\* command, for any number of processes, requests, losses and killed processes.
THEOREM CommandsAlwaysRecover == CommandLineSpec => []CommandsRecover
<1>1. CommandsInductive => CommandsRecover
  <2> SUFFICES ASSUME CommandsInductive PROVE CommandsRecover
    OBVIOUS
  <2> USE CommandLineAssumption
  <2>1. SignInOutlivesRefreshes
    <3>1. \A p \in Commands : cmd[p].pc = "forget" => cmd[p].token.of = session.of
      BY DEF CommandsInductive, GoodProcess, LockHeld
    <3> QED BY <3>1 DEF SignInOutlivesRefreshes, CommandsInductive, Alive
  <2>2. SavedBeforeUse
    BY DEF SavedBeforeUse, CommandsInductive, GoodProcess, Using
  <2>3. KeyNamesOneRequest
    <3> SUFFICES ASSUME NEW p \in Commands, NEW r, r = cmd[p].request, cmd[p].pc \in {"send", "finish"},
                        server[r.key].key # 0
                 PROVE  server[r.key] = r
      BY DEF KeyNamesOneRequest
    <3>1. r \in Retry /\ r.key # 0
      BY Rows DEF CommandsInductive, GoodProcess
    <3>2. r.key \in 1 .. MaxKeys
      BY <3>1 DEF Retry
    <3>3. r \in Requests /\ server[r.key] \in Requests
      BY <3>2 DEF Requests
    <3> QED BY <3>1, <3>2, <3>3 DEF CommandsInductive, OneRequest
  <2>4. RerunRecovers
    <3> SUFFICES ASSUME NEW k \in 1 .. MaxKeys, server[k].key # 0, k \notin seen \union replaced
                 PROVE  pending.key = k
      BY DEF RerunRecovers
    <3>1. server[k] \in Requests /\ server[k].key = k
      BY DEF CommandsInductive, OneRequest, Requests
    <3> QED BY <3>1 DEF CommandsInductive, OneRequest
  <2> QED BY <2>1, <2>2, <2>3, <2>4 DEF CommandsRecover
<1> QED BY <1>1, CommandsStart, CommandsStep, PTL DEF CommandLineSpec

\* Only a login signs a profile in.
THEOREM OnlyLoginsSignIn == CommandLineSpec => OnlyLoginSignsIn
<1>1. ASSUME CommandsInductive, [CommandLineNext]_clVars, session'.of # session.of, session'.of # 0
      PROVE  \E p \in Commands : cmd[p].pc = "keep" /\ session' = cmd[p].token
  <2>1. session' # session
    BY <1>1
  <2>2. ASSUME NEW p \in Commands, SessionStep(p)
        PROVE  cmd[p].pc = "keep" /\ session' = cmd[p].token
    <3>1. CASE SaveRefreshed(p)
      <4>1. session' = cmd[p].token /\ cmd[p].token.of = session.of
        BY <1>1, <3>1 DEF SaveRefreshed, CommandsInductive, GoodProcess, LockHeld
      <4> QED BY <1>1, <4>1
    <3>2. CASE KeepSignIn(p)
      BY <3>2 DEF KeepSignIn
    <3>3. CASE Present(p) \/ Forget(p)
      <4>1. session' = session \/ session' = SignedOut
        BY <3>3 DEF Present, ToBeSaved, Forget
      <4> QED BY <1>1, <2>1, <4>1 DEF SignedOut
    <3>4. CASE ~(SaveRefreshed(p) \/ KeepSignIn(p) \/ Present(p) \/ Forget(p))
      BY <2>1, <2>2, <3>4 DEF SessionStep, Connect, Refresh, Unanswered, SignIn, RevokeReplaced, Logout, Revoke
    <3> QED BY <3>1, <3>2, <3>3, <3>4
  <2>3. ASSUME NEW p \in Commands, MutationStep(p) \/ Kill(p) PROVE FALSE
    BY <2>1, <2>3 DEF MutationStep, Resolve, Prepare, Send, SendUnanswered, Finish, Kill
  <2>4. ~Age /\ ~UNCHANGED clVars
    BY <1>1, <2>1 DEF Age, clVars
  <2> QED BY <1>1, <2>2, <2>3, <2>4 DEF CommandLineNext
<1>2. CommandsInductive /\ [CommandLineNext]_clVars
      => [session'.of # session.of /\ session'.of # 0
            => \E p \in Commands : cmd[p].pc = "keep" /\ session' = cmd[p].token]_clVars
  BY <1>1
<1> QED BY <1>2, CommandsStart, CommandsStep, PTL DEF CommandLineSpec, OnlyLoginSignsIn

-----------------------------------------------------------------------------
(* The object of a restored version.  At most one object is ever under the    *)
(* key: each try begins by taking or deleting what it finds there, so that    *)
(* none is stored while another is.  What is left over has a cleanup to come. *)

Empty == {"check", "fetch", "put", "create", "fetchPart", "copyPart", "sendPart", "complete"}
Sending == {"fetchPart", "copyPart", "sendPart", "complete", "adopt"}
AtRest == {"undo", "idle", "done"}

One(o) == objects = {o} /\ o.id \in Nat

\* What the key holds at each stage.
KeyHolds ==
    /\ objects = {} \/ \E o : One(o)
    /\ job.at \in Empty \/ (job.at = "copy" /\ shape.versioned) => objects = {}
    /\ job.at \in {"discard", "lookAtCopy", "lookAtWhole", "commit"} => One(job.stored)
    /\ job.at \in {"lookAtCopy", "commit"} => job.stored.content = Recorded
    /\ job.at = "put" => job.parts = Recorded

\* The session of a try is its own, and open only while parts are sent.
SessionKnown ==
    /\ job.at \notin Sending \cup {"lookAtWhole", "commit"} \cup AtRest => job.session = NoSession
    /\ job.at \in Sending \cup {"lookAtWhole"} => job.session = tries /\ tries \in 1..MaxTries
    /\ job.at = "lookAtWhole" \/ (job.at = "adopt" /\ objects # {}) => sessions[tries] = Closed
    /\ job.at \notin {"idle", "done"} => tries \in 1..MaxTries

\* A cleanup that will meet the object.
Covers(c, o) ==
    \/ c.version = Unknown /\ c.at \in {"abort", "find"}
    \/ c.version = o.id /\ c.at \in {"abort", "find", "delete"}

SessionsAccounted ==
    \A n \in 1..MaxTries :
        \/ sessions[n] = Closed
        \/ job.at \in Sending /\ n = job.session
        \/ \E c \in undo : c.at = "abort" /\ c.session = n

ObjectsAccounted ==
    job.at \in AtRest /\ row = NoRow => \A o \in objects : \E c \in undo : Covers(c, o)

\* A published version has its object, and nobody works on it any more.
RowKept ==
    row # NoRow => /\ One(row) /\ row.content = Recorded
                   /\ undo = {} /\ job.at \in {"idle", "done"}

CopyTyped ==
    /\ shape \in Shapes
    /\ source \in {Recorded, Foreign}
    /\ job.at \in Labels
    /\ made \in Nat
    /\ tries \in 0..MaxTries
    /\ excused \in BOOLEAN
    /\ sessions = [n \in 1..MaxTries |-> sessions[n]]
    /\ job.at \notin {"undo", "idle"} => undo = {}

CopyInductive ==
    /\ CopyTyped /\ KeyHolds /\ SessionKnown /\ RowKept
    /\ ~excused => SessionsAccounted /\ ObjectsAccounted

\* The latest of one object.
LEMMA LatestOfOne ==
    ASSUME NEW o, One(o)
    PROVE  Latest = o
BY DEF One, Latest

LEMMA LatestOfOneLater ==
    ASSUME NEW o, One(o)'
    PROVE  Latest' = o
BY DEF One, Latest

LEMMA DoingFields ==
    ASSUME NEW at, NEW parts, NEW sent, NEW stored
    PROVE  /\ Doing(at, parts, sent, stored).at = at
           /\ Doing(at, parts, sent, stored).parts = parts
           /\ Doing(at, parts, sent, stored).session = sent
           /\ Doing(at, parts, sent, stored).stored = stored
BY DEF Doing

LEMMA CleaningFields ==
    ASSUME NEW at, NEW sent, NEW version, NEW turn
    PROVE  /\ CleaningAt(at, sent, version, turn).at = at
           /\ CleaningAt(at, sent, version, turn).session = sent
           /\ CleaningAt(at, sent, version, turn).version = version
           /\ CleaningAt(at, sent, version, turn).turn = turn
BY DEF CleaningAt

\* An object that is stored under an empty key, or replaces what is there, is the only one.
LEMMA StoredAlone ==
    ASSUME CopyTyped, objects = {} \/ ~shape.versioned, NEW content, NEW sum, StoreObject(content, sum)
    PROVE  /\ \E o : One(o)' /\ o.content = content
           /\ made' \in Nat
<1> DEFINE o == [id |-> IF shape.versioned THEN made + 1 ELSE 0, content |-> content, sum |-> sum]
<1>1. objects' = {o} /\ made' = made + 1
  BY DEF StoreObject
<1>2. o.id \in Nat /\ o.content = content
  BY DEF CopyTyped
<1> HIDE DEF o
<1> QED BY <1>1, <1>2 DEF One, CopyTyped

\* What a call leaves when it takes effect.
LEMMA EffectKnown ==
    ASSUME CopyInductive, TakesEffect
    PROVE  /\ made' \in Nat
           /\ sessions' = [n \in 1..MaxTries |-> sessions'[n]]
           /\ job.at = "discard" => objects' = {} /\ sessions' = sessions
           /\ job.at \in {"put", "copy"} =>
                (\E o : One(o)' /\ o.content = Recorded) /\ sessions' = sessions
           /\ job.at = "create" =>
                /\ objects' = {}
                /\ \A n \in 1..MaxTries : n # tries => sessions'[n] = sessions[n]
           /\ job.at \in {"copyPart", "sendPart"} =>
                /\ objects' = {}
                /\ \A n \in 1..MaxTries : n # job.session => sessions'[n] = sessions[n]
           /\ job.at = "complete" =>
                /\ \E o : One(o)'
                /\ sessions'[tries] = Closed
                /\ \A n \in 1..MaxTries : n # job.session => sessions'[n] = sessions[n]
           /\ job.at \in {"discard", "put", "copy", "create", "copyPart", "sendPart", "complete"}
<1>1. CASE job.at = "discard"
  <2>1. objects' = Remaining(job.stored.id) /\ UNCHANGED <<sessions, made>>
    BY <1>1 DEF TakesEffect
  <2>2. One(job.stored)
    BY <1>1 DEF CopyInductive, KeyHolds
  <2> QED BY <1>1, <2>1, <2>2 DEF Remaining, One, CopyInductive, CopyTyped
<1>2. CASE job.at = "put"
  <2>1. StoreObject(job.parts, "full") /\ UNCHANGED sessions /\ objects = {} /\ job.parts = Recorded
    BY <1>2 DEF TakesEffect, CopyInductive, KeyHolds, Empty
  <2> QED BY <1>2, <2>1, StoredAlone DEF CopyInductive, CopyTyped
<1>3. CASE job.at = "copy"
  <2>1. /\ StoreObject(source, "full") /\ UNCHANGED sessions /\ source = Recorded
        /\ objects = {} \/ ~shape.versioned
    BY <1>3 DEF TakesEffect, CopyAccepted, CopyInductive, KeyHolds
  <2> QED BY <1>3, <2>1, StoredAlone DEF CopyInductive, CopyTyped
<1>4. CASE job.at = "create"
  <2>1. sessions' = [sessions EXCEPT ![tries] = <<>>] /\ UNCHANGED <<objects, made>> /\ objects = {}
    BY <1>4 DEF TakesEffect, CopyInductive, KeyHolds, Empty
  <2> QED BY <1>4, <2>1 DEF CopyInductive, CopyTyped
<1>5. CASE job.at \in {"copyPart", "sendPart"}
  <2>1. PICK parts : sessions' = [sessions EXCEPT ![job.session] = parts]
    BY <1>5 DEF TakesEffect
  <2>2. UNCHANGED <<objects, made>> /\ objects = {}
    BY <1>5 DEF TakesEffect, CopyInductive, KeyHolds, Empty
  <2> QED BY <1>5, <2>1, <2>2 DEF CopyInductive, CopyTyped
<1>6. CASE job.at = "complete"
  <2>1. /\ StoreObject(sessions[job.session], "composite") /\ objects = {}
        /\ sessions' = [sessions EXCEPT ![job.session] = Closed]
    BY <1>6 DEF TakesEffect, CopyInductive, KeyHolds, Empty
  <2>2. job.session = tries /\ tries \in 1..MaxTries
    BY <1>6 DEF CopyInductive, SessionKnown, Sending
  <2>3. (\E o : One(o)') /\ made' \in Nat
    BY <2>1, StoredAlone DEF CopyInductive
  <2>4. /\ sessions' = [n \in 1..MaxTries |-> sessions'[n]] /\ sessions'[tries] = Closed
        /\ \A n \in 1..MaxTries : n # job.session => sessions'[n] = sessions[n]
    BY <2>1, <2>2 DEF CopyInductive, CopyTyped
  <2> QED BY <1>6, <2>3, <2>4
<1> QED BY <1>1, <1>2, <1>3, <1>4, <1>5, <1>6 DEF TakesEffect

\* While a try works, nothing has been published and no cleanup is left.
LEMMA TryWorks ==
    ASSUME CopyInductive, job.at \in Copying \cup {"commit"}
    PROVE  /\ row = NoRow /\ undo = {} /\ tries \in 1..MaxTries /\ job.at \notin AtRest
           /\ ~excused => \A n \in 1..MaxTries :
                sessions[n] = Closed \/ (job.at \in Sending /\ n = job.session /\ job.session # NoSession)
<1>1. job.at \notin AtRest
  BY DEF Copying, AtRest
<1>2. row = NoRow /\ undo = {} /\ tries \in 1..MaxTries
  BY <1>1 DEF CopyInductive, CopyTyped, RowKept, SessionKnown, AtRest
<1>3. job.at \in Sending => job.session # NoSession
  <2> SUFFICES ASSUME job.at \in Sending PROVE job.session # NoSession
    OBVIOUS
  <2>1. job.session = tries
    BY DEF CopyInductive, SessionKnown
  <2>2. tries # 0
    BY <1>2, CopyAssumption DEF CopyAssumption
  <2> QED BY <2>1, <2>2 DEF NoSession
<1>4. ~excused => \A n \in 1..MaxTries : sessions[n] = Closed \/ (job.at \in Sending /\ n = job.session)
  BY <1>2 DEF CopyInductive, SessionsAccounted
<1> QED BY <1>1, <1>2, <1>3, <1>4

\* A try goes on.
LEMMA TryProceeds ==
    ASSUME CopyInductive, job.at \in Copying, job'.at \in Copying \cup {"commit"},
           UNCHANGED <<shape, source, undo, row, tries, excused>>, made' \in Nat,
           sessions' = [n \in 1..MaxTries |-> sessions'[n]],
           KeyHolds', SessionKnown', ~excused => SessionsAccounted'
    PROVE  CopyInductive'
<1>1. row = NoRow /\ undo = {}
  BY TryWorks
<1>2. job'.at \in Labels /\ job'.at \notin AtRest
  BY DEF Labels, Copying, AtRest
<1>3. CopyTyped'
  BY <1>1, <1>2 DEF CopyInductive, CopyTyped
<1>4. RowKept'
  BY <1>1 DEF RowKept
<1>5. ObjectsAccounted'
  BY <1>2 DEF ObjectsAccounted
<1> QED BY <1>3, <1>4, <1>5 DEF CopyInductive

\* A call may have taken effect or not: what is left is one object at most, and the
\* session of the try.
LEMMA CallLeaves ==
    ASSUME CopyInductive, job.at \in Copying \cup {"commit"}, TakesEffect \/ NoEffect
    PROVE  /\ made' \in Nat
           /\ sessions' = [n \in 1..MaxTries |-> sessions'[n]]
           /\ objects' = {} \/ \E o : One(o)'
           /\ ~excused /\ ~(job.at = "create" /\ sessions' # sessions) => \A n \in 1..MaxTries :
                sessions'[n] = Closed \/ (n = job.session /\ job.session # NoSession)
<1>1. ~excused => \A n \in 1..MaxTries :
        sessions[n] = Closed \/ (job.at \in Sending /\ n = job.session /\ job.session # NoSession)
  BY TryWorks
<1>2. CASE NoEffect
  BY <1>1, <1>2 DEF NoEffect, CopyInductive, CopyTyped, KeyHolds, One
<1>3. CASE TakesEffect
  <2>1. objects' = {} \/ \E o : One(o)'
    BY <1>3, EffectKnown
  <2>2. made' \in Nat /\ sessions' = [n \in 1..MaxTries |-> sessions'[n]]
    BY <1>3, EffectKnown
  <2>3. ASSUME ~excused, ~(job.at = "create" /\ sessions' # sessions), NEW n \in 1..MaxTries
        PROVE  sessions'[n] = Closed \/ (n = job.session /\ job.session # NoSession)
    <3>1. CASE job.at \in {"discard", "put", "copy", "create"}
      <4>1. sessions' = sessions
        BY <1>3, <2>3, <3>1, EffectKnown
      <4> QED BY <1>1, <2>3, <4>1
    <3>2. CASE job.at \in {"copyPart", "sendPart", "complete"}
      <4>1. n # job.session => sessions'[n] = sessions[n]
        BY <1>3, <3>2, EffectKnown
      <4>2. job.session # NoSession
        <5>1. job.session = tries /\ tries \in 1..MaxTries
          BY <3>2 DEF CopyInductive, SessionKnown, Sending
        <5> QED BY <5>1, CopyAssumption DEF CopyAssumption, NoSession
      <4> QED BY <1>1, <2>3, <4>1, <4>2
    <3> QED BY <1>3, <3>1, <3>2, EffectKnown
  <2> QED BY <2>1, <2>2, <2>3
<1> QED BY <1>2, <1>3

\* A try that ends before its commit leaves what its cleanups will meet.
LEMMA TryEnds ==
    ASSUME CopyInductive, job.at \in Copying \cup {"commit"}, TakesEffect \/ NoEffect,
           job'.at \in {"undo", "idle"}, UNCHANGED <<shape, source, row, tries>>, excused' \in BOOLEAN,
           ~excused' => ~excused /\ ~(job.at = "create" /\ sessions' # sessions),
           ~excused' => \A o \in objects' : \E c \in undo' : Covers(c, o),
           ~excused' /\ job.session # NoSession =>
                \/ \E c \in undo' : c.at = "abort" /\ c.session = job.session
                \/ \A n \in 1..MaxTries : sessions'[n] = Closed
    PROVE  CopyInductive'
<1>1. row = NoRow /\ tries \in 1..MaxTries
  BY TryWorks
<1>2. /\ made' \in Nat /\ sessions' = [n \in 1..MaxTries |-> sessions'[n]]
      /\ objects' = {} \/ \E o : One(o)'
      /\ ~excused /\ ~(job.at = "create" /\ sessions' # sessions) => \A n \in 1..MaxTries :
           sessions'[n] = Closed \/ (n = job.session /\ job.session # NoSession)
  BY CallLeaves
<1>3. CopyTyped'
  BY <1>2 DEF CopyInductive, CopyTyped, Labels
<1>4. KeyHolds'
  BY <1>2 DEF KeyHolds, Empty
<1>5. SessionKnown'
  BY <1>1 DEF SessionKnown, Sending, AtRest
<1>6. RowKept'
  BY <1>1 DEF RowKept
<1>7. ~excused' => SessionsAccounted'
  <2> SUFFICES ASSUME ~excused', NEW n \in 1..MaxTries
               PROVE  sessions'[n] = Closed \/ \E c \in undo' : c.at = "abort" /\ c.session = n
    BY DEF SessionsAccounted
  <2> QED BY <1>2
<1>8. ~excused' => ObjectsAccounted'
  BY DEF ObjectsAccounted
<1> QED BY <1>3, <1>4, <1>5, <1>6, <1>7, <1>8 DEF CopyInductive

\* The request's own cleanup meets whatever is under the key.
LEMMA OuterCovers ==
    ASSUME CopyInductive, NEW turn, NEW o, job.at # "commit" \/ o = job.stored
    PROVE  Covers(Outer(turn), o)
<1>1. Outer(turn) = CleaningAt("find", NoSession, IF job.at = "commit" THEN job.stored.id ELSE Unknown, turn)
  BY DEF Outer, CleanupOf
<1>2. CASE job.at = "commit"
  <2>1. PICK c : c = Outer(turn)
    OBVIOUS
  <2>2. c.at = "find" /\ c.version = o.id
    BY <1>1, <1>2, <2>1 DEF CleaningAt
  <2> QED BY <2>1, <2>2 DEF Covers
<1>3. CASE job.at # "commit"
  <2>1. PICK c : c = Outer(turn)
    OBVIOUS
  <2>2. c.at = "find" /\ c.version = Unknown
    BY <1>1, <1>3, <2>1 DEF CleaningAt
  <2> QED BY <2>1, <2>2 DEF Covers
<1> QED BY <1>2, <1>3

LEMMA SessionAborts ==
    ASSUME NEW version, job.session # NoSession
    PROVE  \E c \in Session(version) : c.at = "abort" /\ c.session = job.session
<1>1. Session(version) = {CleaningAt("abort", job.session, version, 1)}
  BY DEF Session, CleanupOf
<1> QED BY <1>1, CleaningFields

\* A step that failed.
LEMMA StepFails ==
    ASSUME CopyInductive, job.at \in Copying \cup {"commit"}, TakesEffect \/ NoEffect,
           NEW inner, Fail(inner), UNCHANGED <<shape, source, row, tries>>, excused' \in BOOLEAN,
           ~excused' => ~excused /\ ~(job.at = "create" /\ sessions' # sessions),
           job.at = "commit" => NoEffect,
           ~excused' /\ job.session # NoSession =>
                \/ \E c \in inner : c.at = "abort" /\ c.session = job.session
                \/ \A n \in 1..MaxTries : sessions'[n] = Closed
    PROVE  CopyInductive'
<1>1. undo' = inner \cup {Outer(2)} /\ job'.at = "undo"
  BY DoingFields DEF Fail, Goto
<1>2. \A o \in objects' : job.at # "commit" \/ o = job.stored
  BY DEF CopyInductive, KeyHolds, One, NoEffect
<1>3. \A o \in objects' : \E c \in undo' : Covers(c, o)
  BY <1>1, <1>2, OuterCovers
<1> QED BY <1>1, <1>3, TryEnds

\* A step that moves the try on and stores or deletes nothing.
LEMMA QuietStep ==
    ASSUME CopyInductive, job.at \in Copying, job'.at \in Copying \cup {"commit"},
           UNCHANGED <<shape, source, undo, row, tries, excused, objects, sessions, made>>,
           KeyHolds', SessionKnown',
           job.at \in Sending => job.session' = job.session /\ (job'.at \in Sending \/ sessions[job.session] = Closed)
    PROVE  CopyInductive'
<1>1. ~excused => \A n \in 1..MaxTries : sessions[n] = Closed \/ (job.at \in Sending /\ n = job.session)
  BY TryWorks
<1>2. ~excused => SessionsAccounted'
  BY <1>1 DEF SessionsAccounted
<1> QED BY <1>2, TryProceeds DEF CopyInductive, CopyTyped

LEMMA StepFailsQuietly ==
    ASSUME CopyInductive, job.at \in Copying \cup {"commit"}, NEW inner, Fail(inner),
           UNCHANGED <<shape, source, row, tries, objects, sessions, made, excused>>,
           job.session # NoSession =>
                \/ \E c \in inner : c.at = "abort" /\ c.session = job.session
                \/ job.at \notin Sending
    PROVE  CopyInductive'
<1>1. NoEffect /\ excused' \in BOOLEAN
  BY DEF NoEffect, CopyInductive, CopyTyped
<1>2. ~excused => \A n \in 1..MaxTries : sessions[n] = Closed \/ job.at \in Sending
  BY TryWorks
<1> QED BY <1>1, <1>2, StepFails

LEMMA KeyReconciled ==
    ASSUME CopyInductive, ReconcileReserved, UNCHANGED <<row, shape, source, tries>>
    PROVE  CopyInductive'
<1>0. /\ job.at = "reconcile" /\ UNCHANGED <<objects, sessions, made, undo, excused>>
      /\ job.at \in Copying /\ job.at \notin Sending /\ tries \in 1..MaxTries /\ job.session = NoSession
  BY TryWorks DEF ReconcileReserved, Copying, Sending, AtRest, CopyInductive, SessionKnown
<1>1. PICK at \in {"check", "fetch", "commit", "discard"}, stored \in {job.stored, Latest} :
        /\ job' = Doing(at, job.parts, job.session, stored)
        /\ \/ at \in {"check", "fetch"} /\ objects = {}
           \/ objects # {} /\ stored = Latest /\ (at = "commit" => IsWanted(Latest))
              /\ at \in {"commit", "discard"}
  BY DEF ReconcileReserved, Goto, GotoWith, FirstStep
<1>2. job'.at = at /\ job'.session = job.session /\ job'.stored = stored
  BY <1>1, DoingFields
<1>3. CASE objects = {}
  <2>1. KeyHolds'
    BY <1>0, <1>1, <1>2, <1>3 DEF KeyHolds
  <2>2. SessionKnown'
    BY <1>0, <1>1, <1>2, <1>3 DEF SessionKnown, Sending, AtRest
  <2> QED BY <1>0, <1>1, <1>2, <2>1, <2>2, QuietStep DEF Copying
<1>4. CASE objects # {}
  <2>1. PICK o : One(o)
    BY <1>4 DEF CopyInductive, KeyHolds
  <2>2. stored = o /\ (at = "commit" => o.content = Recorded) /\ at \in {"commit", "discard"}
    BY <1>1, <1>4, <2>1, LatestOfOne DEF IsWanted
  <2>3. KeyHolds'
    BY <1>0, <1>2, <2>1, <2>2 DEF KeyHolds, One, Empty
  <2>4. SessionKnown'
    BY <1>0, <1>2, <2>2 DEF SessionKnown, Sending, AtRest
  <2> QED BY <1>0, <1>2, <2>2, <2>3, <2>4, QuietStep DEF Copying
<1> QED BY <1>3, <1>4

LEMMA LeftoverDiscarded ==
    ASSUME CopyInductive, Discarded, UNCHANGED <<row, shape, source, tries>>
    PROVE  CopyInductive'
<1>0. /\ job.at = "discard" /\ TakesEffect /\ UNCHANGED <<undo, excused>>
      /\ job.at \in Copying /\ job.at \notin Sending /\ tries \in 1..MaxTries /\ job.session = NoSession
  BY TryWorks DEF Discarded, Copying, Sending, AtRest, CopyInductive, SessionKnown
<1>1. PICK at \in {"check", "fetch"} : job' = Doing(at, job.parts, job.session, NoRow)
  BY DEF Discarded, GotoWith, FirstStep
<1>2. job'.at = at /\ job'.session = NoSession
  BY <1>0, <1>1, DoingFields
<1>3. objects' = {} /\ sessions' = sessions /\ made' \in Nat
  BY <1>0, EffectKnown
<1>4. KeyHolds' /\ SessionKnown'
  BY <1>0, <1>2, <1>3 DEF KeyHolds, SessionKnown, Sending, AtRest
<1>5. ~excused => SessionsAccounted'
  BY <1>0, <1>3, TryWorks DEF SessionsAccounted
<1> QED BY <1>0, <1>2, <1>3, <1>4, <1>5, TryProceeds DEF Copying, CopyInductive, CopyTyped

LEMMA SourceChecked ==
    ASSUME CopyInductive, CheckSource, UNCHANGED <<row, shape, source, tries>>
    PROVE  CopyInductive'
<1>0. /\ job.at = "check" /\ UNCHANGED <<objects, sessions, made, excused>> /\ objects = {}
      /\ job.at \in Copying /\ job.at \notin Sending /\ tries \in 1..MaxTries /\ job.session = NoSession
  BY TryWorks DEF CheckSource, Copying, Sending, AtRest, CopyInductive, SessionKnown, KeyHolds, Empty
<1>1. CASE source = Recorded
  <2>1. PICK at \in {"copy", "create"} : job' = Doing(at, job.parts, job.session, job.stored)
    BY <1>1 DEF CheckSource, Goto
  <2>2. job'.at = at /\ job'.session = NoSession /\ undo' = undo
    BY <1>0, <1>1, <2>1, DoingFields DEF CheckSource
  <2>3. KeyHolds' /\ SessionKnown'
    BY <1>0, <2>2 DEF KeyHolds, SessionKnown, Sending, AtRest
  <2> QED BY <1>0, <2>2, <2>3, QuietStep DEF Copying
<1>2. CASE source # Recorded
  <2>1. Fail(Nothing)
    BY <1>2 DEF CheckSource
  <2> QED BY <1>0, <2>1, StepFailsQuietly
<1> QED BY <1>1, <1>2

LEMMA FileFetched ==
    ASSUME CopyInductive, FetchFile, UNCHANGED <<row, shape, source, tries>>
    PROVE  CopyInductive'
<1>0. /\ job.at = "fetch" /\ UNCHANGED <<objects, sessions, made, excused>> /\ objects = {}
      /\ job.at \in Copying /\ job.at \notin Sending /\ tries \in 1..MaxTries /\ job.session = NoSession
  BY TryWorks DEF FetchFile, Copying, Sending, AtRest, CopyInductive, SessionKnown, KeyHolds, Empty
<1>1. CASE source = Recorded
  <2>1. job' = Doing("put", source, job.session, job.stored) /\ undo' = undo
    BY <1>1 DEF FetchFile
  <2>2. job'.at = "put" /\ job'.session = NoSession /\ job'.parts = Recorded
    BY <1>0, <1>1, <2>1, DoingFields
  <2>3. KeyHolds' /\ SessionKnown'
    BY <1>0, <2>2 DEF KeyHolds, SessionKnown, Sending, AtRest
  <2> QED BY <1>0, <2>1, <2>2, <2>3, QuietStep DEF Copying
<1>2. CASE source # Recorded
  <2>1. Fail(Nothing)
    BY <1>2 DEF FetchFile
  <2> QED BY <1>0, <2>1, StepFailsQuietly
<1> QED BY <1>1, <1>2

\* An object stored by a call that was answered.
LEMMA AnswerTaken ==
    ASSUME CopyInductive, job.at \in {"put", "copy", "complete"}, TakesEffect,
           NEW at \in {"commit", "lookAtCopy", "lookAtWhole"}, GotoWith(at, Latest'),
           at = "lookAtWhole" <=> job.at = "complete",
           UNCHANGED <<undo, excused, row, shape, source, tries>>
    PROVE  CopyInductive'
<1>0. job.at \in Copying /\ tries \in 1..MaxTries /\ undo = {}
  BY TryWorks DEF Copying
<1>1. /\ made' \in Nat /\ sessions' = [n \in 1..MaxTries |-> sessions'[n]]
  BY EffectKnown
<1>2. PICK o : One(o)' /\ (job.at # "complete" => o.content = Recorded)
  BY EffectKnown
<1>3. Latest' = o
  BY <1>2, LatestOfOneLater
<1>4. job'.at = at /\ job'.session = job.session /\ job'.stored = o
  BY <1>3, DoingFields DEF GotoWith
<1>5. KeyHolds'
  BY <1>2, <1>4 DEF KeyHolds, Empty
<1>6. SessionKnown'
  <2>1. CASE job.at = "complete"
    <3>1. sessions'[tries] = Closed /\ job.session = tries
      BY <2>1, EffectKnown DEF CopyInductive, SessionKnown, Sending
    <3> QED BY <1>0, <1>4, <2>1, <3>1 DEF SessionKnown, Sending, AtRest
  <2>2. CASE job.at # "complete"
    <3>1. job.session = NoSession
      BY <2>2 DEF CopyInductive, SessionKnown, Sending, AtRest
    <3> QED BY <1>0, <1>4, <2>2, <3>1 DEF SessionKnown, Sending, AtRest
  <2> QED BY <2>1, <2>2
<1>7. ~excused => SessionsAccounted'
  <2> SUFFICES ASSUME ~excused, NEW n \in 1..MaxTries PROVE sessions'[n] = Closed
    BY DEF SessionsAccounted
  <2>1. sessions[n] = Closed \/ (job.at \in Sending /\ n = job.session)
    BY <1>0, TryWorks
  <2>2. CASE job.at = "complete"
    <3>1. sessions'[tries] = Closed /\ job.session = tries /\ (n # job.session => sessions'[n] = sessions[n])
      BY <2>2, EffectKnown DEF CopyInductive, SessionKnown, Sending
    <3> QED BY <2>1, <3>1
  <2>3. CASE job.at \in {"put", "copy"}
    BY <2>1, <2>3, EffectKnown DEF Sending
  <2> QED BY <2>2, <2>3
<1> QED BY <1>0, <1>1, <1>4, <1>5, <1>6, <1>7, TryProceeds DEF Copying

LEMMA CopyLookedAt ==
    ASSUME CopyInductive, CopyChecked, UNCHANGED <<row, shape, source, tries>>
    PROVE  CopyInductive'
<1>0. /\ job.at = "lookAtCopy" /\ UNCHANGED <<objects, sessions, made, excused>>
      /\ One(job.stored) /\ job.stored.content = Recorded
      /\ job.at \in Copying /\ job.at \notin Sending /\ tries \in 1..MaxTries /\ job.session = NoSession
  BY TryWorks DEF CopyChecked, Copying, Sending, AtRest, CopyInductive, SessionKnown, KeyHolds, Empty
<1>1. CASE shape.sum = "full" /\ Latest.content # Recorded
  <2>1. Fail(Object(job.stored.id))
    BY <1>1 DEF CopyChecked
  <2> QED BY <1>0, <2>1, StepFailsQuietly
<1>2. CASE ~(shape.sum = "full" /\ Latest.content # Recorded)
  <2>1. job' = Doing("commit", job.parts, job.session, job.stored) /\ undo' = undo
    BY <1>2 DEF CopyChecked, Goto
  <2>2. job'.at = "commit" /\ job'.session = NoSession /\ job'.stored = job.stored
    BY <1>0, <2>1, DoingFields
  <2>3. KeyHolds' /\ SessionKnown'
    BY <1>0, <2>2 DEF KeyHolds, SessionKnown, Sending, AtRest, Empty, One
  <2> QED BY <1>0, <2>1, <2>2, <2>3, QuietStep DEF Copying
<1> QED BY <1>1, <1>2

LEMMA SessionOpened ==
    ASSUME CopyInductive, SessionCreated, UNCHANGED <<row, shape, source, tries>>
    PROVE  CopyInductive'
<1>0. /\ job.at = "create" /\ TakesEffect /\ UNCHANGED <<undo, excused>>
      /\ job.at \in Copying /\ job.at \notin Sending /\ tries \in 1..MaxTries
  BY TryWorks DEF SessionCreated, Copying, Sending
<1>1. PICK at \in {"fetchPart", "copyPart"} : job' = Doing(at, job.parts, tries, job.stored)
  BY DEF SessionCreated, FirstPart
<1>2. job'.at = at /\ job'.session = tries
  BY <1>1, DoingFields
<1>3. /\ objects' = {} /\ made' \in Nat /\ sessions' = [n \in 1..MaxTries |-> sessions'[n]]
      /\ \A n \in 1..MaxTries : n # tries => sessions'[n] = sessions[n]
  BY <1>0, EffectKnown
<1>4. KeyHolds' /\ SessionKnown'
  BY <1>0, <1>2, <1>3 DEF KeyHolds, SessionKnown, Sending, AtRest
<1>5. ~excused => SessionsAccounted'
  BY <1>0, <1>2, <1>3, TryWorks DEF SessionsAccounted, Sending
<1> QED BY <1>0, <1>2, <1>3, <1>4, <1>5, TryProceeds DEF Copying

LEMMA PartFetched ==
    ASSUME CopyInductive, FetchPart, UNCHANGED <<row, shape, source, tries>>
    PROVE  CopyInductive'
<1>0. /\ job.at = "fetchPart" /\ UNCHANGED <<objects, sessions, made, excused>> /\ objects = {}
      /\ job.at \in Copying /\ job.at \in Sending /\ tries \in 1..MaxTries /\ job.session = tries
  BY TryWorks DEF FetchPart, Copying, Sending, AtRest, CopyInductive, SessionKnown, KeyHolds, Empty
<1>1. CASE source = Recorded
  <2>1. PICK parts : job' = Doing("sendPart", parts, job.session, job.stored) /\ undo' = undo
    BY <1>1 DEF FetchPart
  <2>2. job'.at = "sendPart" /\ job'.session = tries
    BY <1>0, <2>1, DoingFields
  <2>3. KeyHolds' /\ SessionKnown'
    BY <1>0, <2>2 DEF KeyHolds, SessionKnown, Sending, AtRest
  <2> QED BY <1>0, <2>1, <2>2, <2>3, QuietStep DEF Copying, Sending
<1>2. CASE source # Recorded
  <2>1. Fail(Session(Unknown))
    BY <1>2 DEF FetchPart
  <2> QED BY <1>0, <2>1, StepFailsQuietly, SessionAborts
<1> QED BY <1>1, <1>2

LEMMA PartStored ==
    ASSUME CopyInductive, job.at \in {"copyPart", "sendPart"}, TakesEffect, NextPart,
           UNCHANGED <<undo, excused, row, shape, source, tries>>
    PROVE  CopyInductive'
<1>0. /\ job.at \in Copying /\ job.at \in Sending /\ tries \in 1..MaxTries /\ job.session = tries
  BY TryWorks DEF Copying, Sending, CopyInductive, SessionKnown
<1>1. PICK at \in {"fetchPart", "copyPart", "complete"} : job' = Doing(at, job.parts, job.session, job.stored)
  BY DEF NextPart, Goto, FirstPart
<1>2. job'.at = at /\ job'.session = tries
  BY <1>0, <1>1, DoingFields
<1>3. /\ objects' = {} /\ made' \in Nat /\ sessions' = [n \in 1..MaxTries |-> sessions'[n]]
      /\ \A n \in 1..MaxTries : n # job.session => sessions'[n] = sessions[n]
  BY EffectKnown
<1>4. KeyHolds' /\ SessionKnown'
  BY <1>0, <1>2, <1>3 DEF KeyHolds, SessionKnown, Sending, AtRest
<1>5. ~excused => SessionsAccounted'
  BY <1>0, <1>2, <1>3, TryWorks DEF SessionsAccounted, Sending
<1> QED BY <1>0, <1>2, <1>3, <1>4, <1>5, TryProceeds DEF Copying

LEMMA WholeLookedAt ==
    ASSUME CopyInductive, WholeChecked, UNCHANGED <<row, shape, source, tries>>
    PROVE  CopyInductive'
<1>0. /\ job.at = "lookAtWhole" /\ UNCHANGED <<objects, sessions, made, excused>> /\ One(job.stored)
      /\ job.at \in Copying /\ job.at \notin Sending /\ tries \in 1..MaxTries
  BY TryWorks DEF WholeChecked, Copying, Sending, CopyInductive, KeyHolds
<1>1. CASE job.stored.content # Recorded
  <2>1. PICK inner : Fail(inner)
    BY <1>1 DEF WholeChecked
  <2> QED BY <1>0, <2>1, StepFailsQuietly
<1>2. CASE job.stored.content = Recorded
  <2>1. job' = Doing("commit", job.parts, job.session, job.stored) /\ undo' = undo
    BY <1>2 DEF WholeChecked, Goto
  <2>2. job'.at = "commit" /\ job'.stored = job.stored
    BY <2>1, DoingFields
  <2>3. KeyHolds' /\ SessionKnown'
    BY <1>0, <1>2, <2>2 DEF KeyHolds, SessionKnown, Sending, AtRest, Empty, One
  <2> QED BY <1>0, <2>1, <2>2, <2>3, QuietStep DEF Copying
<1> QED BY <1>1, <1>2

LEMMA Adopted ==
    ASSUME CopyInductive, Adopt, UNCHANGED <<row, shape, source, tries>>
    PROVE  CopyInductive'
<1>0. /\ job.at = "adopt" /\ UNCHANGED <<objects, sessions, made, excused>>
      /\ job.at \in Copying /\ job.at \in Sending /\ tries \in 1..MaxTries /\ job.session = tries
  BY TryWorks DEF Adopt, Copying, Sending, CopyInductive, SessionKnown
<1>1. CASE objects # {} /\ Latest.content = Recorded /\ Latest.sum = "composite"
  <2>1. PICK o : One(o)
    BY <1>1 DEF CopyInductive, KeyHolds
  <2>2. Latest = o
    BY <2>1, LatestOfOne
  <2>3. job' = Doing("commit", job.parts, job.session, o) /\ undo' = undo
    BY <1>1, <2>2 DEF Adopt, GotoWith
  <2>4. job'.at = "commit" /\ job'.stored = o /\ job'.session = job.session
    BY <2>3, DoingFields
  <2>5. KeyHolds' /\ SessionKnown'
    BY <1>0, <1>1, <2>1, <2>2, <2>4 DEF KeyHolds, SessionKnown, Sending, AtRest, Empty, One
  <2>6. sessions[job.session] = Closed
    BY <1>0, <1>1 DEF CopyInductive, SessionKnown
  <2> QED BY <1>0, <2>3, <2>4, <2>5, <2>6, QuietStep DEF Copying
<1>2. CASE ~(objects # {} /\ Latest.content = Recorded /\ Latest.sum = "composite")
  <2>1. Fail(Session(Unknown))
    BY <1>2 DEF Adopt
  <2> QED BY <1>0, <2>1, StepFailsQuietly, SessionAborts
<1> QED BY <1>1, <1>2

\* A call that failed or lost its answer: a completion between buckets looks once more,
\* all else cleans up.
LEMMA CallsFail ==
    ASSUME CopyInductive, CallFails, UNCHANGED <<row, shape, source, tries>>
    PROVE  CopyInductive'
<1>0. /\ job.at \in Copying /\ (TakesEffect \/ NoEffect) /\ tries \in 1..MaxTries
      /\ excused' = (excused \/ (job.at = "create" /\ sessions' # sessions))
  BY TryWorks DEF CallFails
<1>1. CASE job.at \in {"complete", "lookAtWhole"} /\ shape.route = "ranges"
  <2>1. job' = Doing("adopt", job.parts, job.session, job.stored) /\ undo' = undo
    BY <1>1 DEF CallFails, Goto
  <2>2. job'.at = "adopt" /\ job'.session = tries /\ job.session = tries
    BY <1>1, <2>1, DoingFields DEF CopyInductive, SessionKnown, Sending
  <2>3. /\ made' \in Nat /\ sessions' = [n \in 1..MaxTries |-> sessions'[n]]
        /\ objects' = {} \/ \E o : One(o)'
    BY <1>0, CallLeaves
  <2>4. excused' = excused
    BY <1>0, <1>1 DEF CopyInductive, CopyTyped
  <2>5. objects' # {} => sessions'[tries] = Closed
    <3>1. CASE TakesEffect
      BY <1>1, <3>1, EffectKnown
    <3>2. CASE NoEffect
      BY <1>1, <3>2 DEF NoEffect, CopyInductive, KeyHolds, SessionKnown, Empty
    <3> QED BY <1>0, <3>1, <3>2
  <2>6. KeyHolds'
    BY <2>2, <2>3 DEF KeyHolds, Empty
  <2>7. SessionKnown'
    BY <1>0, <2>2, <2>5 DEF SessionKnown, Sending, AtRest
  <2>8. ~excused => SessionsAccounted'
    <3>1. job.at # "create"
      BY <1>1
    <3>2. ~excused => \A n \in 1..MaxTries : sessions'[n] = Closed \/ n = job.session
      BY <1>0, <3>1, CallLeaves
    <3> QED BY <2>2, <3>2 DEF SessionsAccounted, Sending
  <2> QED BY <1>0, <2>1, <2>2, <2>3, <2>4, <2>6, <2>7, <2>8, TryProceeds DEF Copying
<1>2. CASE ~(job.at \in {"complete", "lookAtWhole"} /\ shape.route = "ranges")
  <2>1. \E inner : /\ Fail(inner)
                   /\ job.session # NoSession => \E c \in inner : c.at = "abort" /\ c.session = job.session
    <3>1. CASE job.at \in {"put", "copy", "lookAtCopy"}
      <4>1. \E inner : Fail(inner)
        BY <1>2, <3>1 DEF CallFails
      <4>2. job.session = NoSession
        BY <3>1 DEF CopyInductive, SessionKnown, Sending, AtRest
      <4> QED BY <4>1, <4>2
    <3>2. CASE job.at \notin {"put", "copy", "lookAtCopy"} /\ job.session # NoSession
      <4>1. Fail(Session(Unknown))
        BY <1>2, <3>2 DEF CallFails
      <4> QED BY <3>2, <4>1, SessionAborts
    <3>3. CASE job.at \notin {"put", "copy", "lookAtCopy"} /\ job.session = NoSession
      <4>1. Fail(Nothing)
        BY <1>2, <3>3 DEF CallFails
      <4> QED BY <3>3, <4>1
    <3> QED BY <3>1, <3>2, <3>3
  <2>2. PICK inner : /\ Fail(inner)
                     /\ job.session # NoSession => \E c \in inner : c.at = "abort" /\ c.session = job.session
    BY <2>1
  <2>3. excused' \in BOOLEAN
    BY <1>0 DEF CopyInductive, CopyTyped
  <2>4. job.at # "commit"
    BY <1>0 DEF Copying
  <2> QED BY <1>0, <2>2, <2>3, <2>4, StepFails
<1> QED BY <1>1, <1>2

\* The request cleans up, and so does the copy when it is dropped.
LEMMA RenewalsFail ==
    ASSUME CopyInductive, RenewalFails, UNCHANGED <<row, shape, source, tries>>
    PROVE  CopyInductive'
<1>0. /\ job.at \in Copying /\ (TakesEffect \/ NoEffect) /\ job.at # "commit"
      /\ excused' = (excused \/ (job.at = "create" /\ sessions' # sessions))
  BY DEF RenewalFails, Copying
<1>1. /\ job'.at = "undo"
      /\ undo' = {Outer(1)} \cup (IF job.session = NoSession THEN {} ELSE {CleanupOf(job.session, Unknown, 2)})
  BY DoingFields DEF RenewalFails, Goto
<1>2. \A o \in objects' : \E c \in undo' : Covers(c, o)
  BY <1>0, <1>1, OuterCovers
<1>3. job.session # NoSession => \E c \in undo' : c.at = "abort" /\ c.session = job.session
  <2> SUFFICES ASSUME job.session # NoSession
               PROVE  \E c \in undo' : c.at = "abort" /\ c.session = job.session
    OBVIOUS
  <2>1. CleaningAt("abort", job.session, Unknown, 2) \in undo'
    BY <1>1 DEF CleanupOf
  <2> QED BY <2>1, CleaningFields
<1>4. excused' \in BOOLEAN
  BY <1>0 DEF CopyInductive, CopyTyped
<1> QED BY <1>0, <1>1, <1>2, <1>3, <1>4, TryEnds

\* The request is dropped: its cleanups go on, or begin.
LEMMA RequestDropped ==
    ASSUME CopyInductive, Drop, UNCHANGED <<shape, source, tries>>
    PROVE  CopyInductive'
<1>0. /\ TakesEffect \/ NoEffect
      /\ excused' = (excused \/ (job.at = "create" /\ sessions' # sessions)) /\ row' = row
      /\ job'.at = "idle"
  BY DoingFields DEF Drop, Goto
<1>1. excused' \in BOOLEAN
  BY <1>0 DEF CopyInductive, CopyTyped
<1> DEFINE Later(S) == {CleaningAt(c.at, c.session, c.version, 0) : c \in S}
<1>2. ASSUME NEW S, undo' = Later(S)
      PROVE  /\ \A o : (\E c \in S : Covers(c, o)) => \E c \in undo' : Covers(c, o)
             /\ \A n : (\E c \in S : c.at = "abort" /\ c.session = n) =>
                    \E c \in undo' : c.at = "abort" /\ c.session = n
  <2>1. ASSUME NEW c \in S
        PROVE  \E d \in undo' : d.at = c.at /\ d.session = c.session /\ d.version = c.version
    <3>1. CleaningAt(c.at, c.session, c.version, 0) \in undo'
      BY <1>2
    <3> QED BY <3>1, CleaningFields
  <2>2. ASSUME NEW o, NEW c \in S, Covers(c, o) PROVE \E d \in undo' : Covers(d, o)
    BY <2>1, <2>2 DEF Covers
  <2> QED BY <2>1, <2>2
<1>3. CASE job.at \in Copying
  <2> DEFINE S == {Outer(0)} \cup (IF job.session = NoSession THEN {} ELSE Session(Unknown))
  <2>1. undo' = Later(S)
    BY <1>3 DEF Drop, Copying
  <2>2. Outer(0) \in S /\ (job.session # NoSession => Session(Unknown) \subseteq S)
    OBVIOUS
  <2> HIDE DEF S
  <2>3. \A o \in objects' : \E c \in undo' : Covers(c, o)
    <3>1. job.at # "commit"
      BY <1>3 DEF Copying
    <3>2. \A o : \E c \in S : Covers(c, o)
      BY <2>2, <3>1, OuterCovers
    <3> QED BY <1>2, <2>1, <3>2
  <2>4. job.session # NoSession => \E c \in undo' : c.at = "abort" /\ c.session = job.session
    <3>1. job.session # NoSession => \E c \in S : c.at = "abort" /\ c.session = job.session
      BY <2>2, SessionAborts
    <3> QED BY <1>2, <2>1, <3>1
  <2> QED BY <1>0, <1>1, <1>3, <2>3, <2>4, TryEnds
<1>4. CASE job.at = "undo" /\ undo # {}
  <2>1. undo' = Later(undo)
    BY <1>4 DEF Drop
  <2>2. UNCHANGED <<objects, sessions, made>>
    BY <1>0, <1>4, EffectKnown DEF NoEffect
  <2>3. excused' = excused /\ row = NoRow /\ job.at \in AtRest
    BY <1>0, <1>4 DEF CopyInductive, CopyTyped, RowKept, AtRest
  <2>4. CopyTyped'
    BY <1>0, <1>4, <2>2, <2>3 DEF CopyInductive, CopyTyped, Labels
  <2>5. KeyHolds' /\ SessionKnown' /\ RowKept'
    BY <1>0, <2>2, <2>3 DEF CopyInductive, KeyHolds, SessionKnown, RowKept, Empty, Sending, AtRest, One
  <2>6. ~excused => SessionsAccounted'
    <3>1. ~excused => \A n \in 1..MaxTries : sessions[n] = Closed \/ \E c \in undo : c.at = "abort" /\ c.session = n
      BY <1>4 DEF CopyInductive, SessionsAccounted, Sending
    <3> QED BY <1>2, <2>1, <2>2, <3>1 DEF SessionsAccounted
  <2>7. ~excused => ObjectsAccounted'
    <3>1. ~excused => \A o \in objects : \E c \in undo : Covers(c, o)
      BY <2>3 DEF CopyInductive, ObjectsAccounted
    <3> QED BY <1>2, <2>1, <2>2, <3>1 DEF ObjectsAccounted
  <2> QED BY <2>3, <2>4, <2>5, <2>6, <2>7 DEF CopyInductive
<1> QED BY <1>3, <1>4 DEF Drop

\* A crash, after which anything may be left.
LEMMA ProcessStops ==
    ASSUME CopyInductive, Crash, UNCHANGED <<shape, source, tries>>
    PROVE  CopyInductive'
<1>0. /\ TakesEffect \/ NoEffect
      /\ undo' = {} /\ excused' = TRUE /\ row' = row /\ job'.at = "idle"
  BY DoingFields DEF Crash, Goto
<1>1. CASE job.at \in Copying \cup {"commit"}
  BY <1>0, <1>1, TryEnds
<1>2. CASE job.at \notin Copying \cup {"commit"}
  <2>1. job.at \in AtRest
    BY <1>2 DEF CopyInductive, CopyTyped, Labels, AtRest
  <2>2. UNCHANGED <<objects, sessions, made>>
    BY <1>0, <2>1, EffectKnown DEF NoEffect, AtRest
  <2>3. CopyTyped'
    BY <1>0, <2>2 DEF CopyInductive, CopyTyped, Labels
  <2>4. KeyHolds' /\ SessionKnown' /\ RowKept'
    BY <1>0, <2>2 DEF CopyInductive, KeyHolds, SessionKnown, RowKept, Empty, Sending, AtRest, One
  <2> QED BY <1>0, <2>3, <2>4 DEF CopyInductive
<1> QED BY <1>1, <1>2

\* The row is published with the object that has been checked.
LEMMA RowPublished ==
    ASSUME CopyInductive, Commit \/ CommitUnknown, UNCHANGED <<shape, source, tries>>
    PROVE  CopyInductive'
<1>0. /\ job.at = "commit" /\ UNCHANGED <<objects, sessions, made, undo>>
      /\ job'.at \in {"idle", "done"} /\ row' \in {row, job.stored} /\ excused' \in BOOLEAN
      /\ ~excused' => ~excused /\ row' = job.stored
  <2>1. excused \in BOOLEAN
    BY DEF CopyInductive, CopyTyped
  <2>2. CASE Commit
    <3>1. job'.at = "done"
      BY <2>2, DoingFields DEF Commit, Goto
    <3> QED BY <2>1, <2>2, <3>1 DEF Commit
  <2>3. CASE CommitUnknown
    <3>1. job'.at = "idle"
      BY <2>3, DoingFields DEF CommitUnknown, Goto
    <3>2. excused' = TRUE
      BY <2>3 DEF CommitUnknown
    <3> QED BY <2>3, <3>1, <3>2 DEF CommitUnknown
  <2> QED BY <2>2, <2>3
<1>1. /\ row = NoRow /\ undo = {} /\ One(job.stored) /\ job.stored.content = Recorded
      /\ ~excused => \A n \in 1..MaxTries : sessions[n] = Closed
  BY <1>0, TryWorks DEF CopyInductive, KeyHolds, Sending
<1>2. job.stored # NoRow
  <2>1. NoRow.id = -1 /\ job.stored.id \in Nat
    BY <1>1 DEF NoRow, One
  <2> QED BY <2>1
<1>3. CopyTyped'
  BY <1>0, <1>1 DEF CopyInductive, CopyTyped, Labels
<1>4. KeyHolds' /\ SessionKnown'
  BY <1>0, <1>1 DEF CopyInductive, KeyHolds, SessionKnown, Empty, Sending, AtRest, One
<1>5. RowKept'
  BY <1>0, <1>1 DEF RowKept, One
<1>6. ~excused' => SessionsAccounted' /\ ObjectsAccounted'
  BY <1>0, <1>1, <1>2 DEF SessionsAccounted, ObjectsAccounted
<1> QED BY <1>3, <1>4, <1>5, <1>6 DEF CopyInductive

LEMMA CommitRefused ==
    ASSUME CopyInductive, CommitFails, UNCHANGED <<shape, source, tries>>
    PROVE  CopyInductive'
BY StepFailsQuietly DEF CommitFails, Sending

LEMMA RecordReleased ==
    ASSUME CopyInductive, Release, UNCHANGED <<shape, source, tries>>
    PROVE  CopyInductive'
<1>0. /\ job.at = "undo" /\ undo = {} /\ job'.at \in {"idle", "done"}
      /\ UNCHANGED <<objects, sessions, made, undo, row, excused>>
  BY DoingFields DEF Release, Goto
<1>1. CopyTyped'
  BY <1>0 DEF CopyInductive, CopyTyped, Labels
<1>2. KeyHolds' /\ SessionKnown' /\ RowKept'
  BY <1>0 DEF CopyInductive, KeyHolds, SessionKnown, RowKept, Empty, Sending, AtRest, One
<1>3. ~excused => SessionsAccounted' /\ ObjectsAccounted'
  BY <1>0 DEF CopyInductive, SessionsAccounted, ObjectsAccounted, Sending, AtRest
<1> QED BY <1>0, <1>1, <1>2, <1>3 DEF CopyInductive

\* A try begins when those before it are over, cleanups included.
LEMMA TryBegins ==
    ASSUME CopyInductive, BeginTry
    PROVE  CopyInductive'
<1>0. /\ job.at = "idle" /\ undo = {} /\ row = NoRow /\ tries < MaxTries /\ tries' = tries + 1
      /\ UNCHANGED <<shape, source, objects, sessions, made, undo, row, excused>>
  BY DEF BeginTry
<1>1. job'.at = "reconcile" /\ job'.session = NoSession
  BY DoingFields DEF BeginTry
<1>2. tries' \in 1..MaxTries
  BY <1>0, CopyAssumption DEF CopyAssumption, CopyInductive, CopyTyped
<1>3. CopyTyped'
  BY <1>0, <1>1, <1>2 DEF CopyInductive, CopyTyped, Labels, Copying
<1>4. KeyHolds' /\ RowKept'
  BY <1>0, <1>1 DEF CopyInductive, KeyHolds, RowKept, Empty, One
<1>5. SessionKnown'
  BY <1>1, <1>2 DEF SessionKnown, Sending, AtRest
<1>6. ~excused => SessionsAccounted' /\ ObjectsAccounted'
  BY <1>0, <1>1 DEF CopyInductive, SessionsAccounted, ObjectsAccounted, Sending, AtRest
<1> QED BY <1>0, <1>3, <1>4, <1>5, <1>6 DEF CopyInductive

LEMMA SourceChanges ==
    ASSUME CopyInductive, SourceReplaced
    PROVE  CopyInductive'
<1>0. source' = Foreign /\ UNCHANGED <<shape, objects, sessions, made, job, undo, row, tries, excused>>
  BY DEF SourceReplaced
<1> QED BY <1>0 DEF CopyInductive, CopyTyped, KeyHolds, SessionKnown, RowKept, SessionsAccounted,
                    ObjectsAccounted, One

\* A step of a cleanup: whatever it was there for is gone, or the cleanup still covers it,
\* and the other cleanups are still there.
LEMMA CleanupKeepsAccount ==
    ASSUME CopyInductive, NEW c \in undo, UNCHANGED <<shape, source, made, job, row, tries>>,
           undo \ {c} \subseteq undo', excused' \in BOOLEAN, excused => excused',
           sessions' = [n \in 1..MaxTries |-> sessions'[n]],
           objects' = {} \/ objects' = objects,
           ~excused' => \A n \in 1..MaxTries :
                sessions'[n] = Closed \/ (sessions'[n] = sessions[n] /\ ~(c.at = "abort" /\ c.session = n)),
           ~excused' => \A o \in objects' : Covers(c, o) => \E d \in undo' : Covers(d, o)
    PROVE  CopyInductive'
<1>1. job.at \in {"undo", "idle"} /\ row = NoRow
  BY DEF CopyInductive, CopyTyped, RowKept
<1>2. CopyTyped'
  BY <1>1 DEF CopyInductive, CopyTyped
<1>3. KeyHolds'
  BY <1>1 DEF CopyInductive, KeyHolds, Empty, One
<1>4. SessionKnown'
  BY <1>1 DEF CopyInductive, SessionKnown, Sending, AtRest
<1>5. RowKept'
  BY <1>1 DEF RowKept
<1>6. ~excused' => SessionsAccounted'
  <2> SUFFICES ASSUME ~excused', NEW n \in 1..MaxTries, sessions'[n] # Closed
               PROVE  \E d \in undo' : d.at = "abort" /\ d.session = n
    BY DEF SessionsAccounted
  <2>1. PICK d \in undo : d.at = "abort" /\ d.session = n
    BY <1>1 DEF CopyInductive, SessionsAccounted, Sending
  <2>2. d # c
    BY <2>1
  <2> QED BY <2>1, <2>2
<1>7. ~excused' => ObjectsAccounted'
  <2> SUFFICES ASSUME ~excused', NEW o \in objects' PROVE \E d \in undo' : Covers(d, o)
    BY DEF ObjectsAccounted
  <2>1. PICK d \in undo : Covers(d, o)
    BY <1>1 DEF CopyInductive, ObjectsAccounted, AtRest
  <2>2. CASE d = c
    BY <2>1, <2>2
  <2>3. CASE d # c
    BY <2>1, <2>3
  <2> QED BY <2>2, <2>3
<1> QED BY <1>2, <1>3, <1>4, <1>5, <1>6, <1>7 DEF CopyInductive

LEMMA SessionAborted ==
    ASSUME CopyInductive, NEW c \in undo, AbortSession(c),
           UNCHANGED <<shape, source, made, job, row, tries>>
    PROVE  CopyInductive'
<1> DEFINE next == CleaningAt("find", c.session, c.version, c.turn)
<1>1. c.at = "abort" /\ undo' = (undo \ {c}) \cup {next} /\ objects' = objects
  BY DEF AbortSession, CleanupGoes
<1>2. next.at = "find" /\ next.version = c.version
  BY CleaningFields
<1> HIDE DEF next
<1>3. ASSUME NEW o, Covers(c, o) PROVE Covers(next, o)
  BY <1>1, <1>2, <1>3 DEF Covers
<1>4. \A o \in objects' : Covers(c, o) => \E d \in undo' : Covers(d, o)
  BY <1>1, <1>3
<1>5. excused \in BOOLEAN
  BY DEF CopyInductive, CopyTyped
<1>6. CASE sessions' = [sessions EXCEPT ![c.session] = Closed] /\ UNCHANGED excused
  <2>1. sessions' = [n \in 1..MaxTries |-> sessions'[n]]
    BY <1>6 DEF CopyInductive, CopyTyped
  <2>2. \A n \in 1..MaxTries :
          sessions'[n] = Closed \/ (sessions'[n] = sessions[n] /\ ~(c.at = "abort" /\ c.session = n))
    BY <1>6 DEF CopyInductive, CopyTyped
  <2> QED BY <1>1, <1>4, <1>5, <1>6, <2>1, <2>2, CleanupKeepsAccount
<1>7. CASE UNCHANGED sessions /\ excused' = TRUE
  <2>1. sessions' = [n \in 1..MaxTries |-> sessions'[n]]
    BY <1>7 DEF CopyInductive, CopyTyped
  <2> QED BY <1>1, <1>4, <1>5, <1>7, <2>1, CleanupKeepsAccount
<1> QED BY <1>6, <1>7 DEF AbortSession

LEMMA VersionFound ==
    ASSUME CopyInductive, NEW c \in undo, FindVersion(c),
           UNCHANGED <<shape, source, made, job, row, tries>>
    PROVE  CopyInductive'
<1>1. c.at = "find" /\ UNCHANGED <<objects, sessions, excused>>
  BY DEF FindVersion
<1>2. sessions' = [n \in 1..MaxTries |-> sessions'[n]] /\ excused' \in BOOLEAN
  BY <1>1 DEF CopyInductive, CopyTyped
<1>3. undo \ {c} \subseteq undo'
  BY DEF FindVersion, CleanupEnds, CleanupGoes
<1>4. ASSUME NEW o \in objects', Covers(c, o) PROVE \E d \in undo' : Covers(d, o)
  <2>1. One(o)
    BY <1>1, <1>4 DEF CopyInductive, KeyHolds, One
  <2>2. undo' = (undo \ {c}) \cup {CleaningAt("delete", c.session, o.id, c.turn)}
    <3>1. CASE c.version # Unknown
      <4>1. c.version = o.id
        BY <1>4, <3>1 DEF Covers
      <4> QED BY <3>1, <4>1 DEF FindVersion, CleanupGoes
    <3>2. CASE c.version = Unknown
      <4>1. objects # {} /\ Latest.id = o.id
        BY <2>1, LatestOfOne DEF One
      <4> QED BY <3>2, <4>1 DEF FindVersion, CleanupGoes
    <3> QED BY <3>1, <3>2
  <2>3. PICK d : d = CleaningAt("delete", c.session, o.id, c.turn)
    OBVIOUS
  <2>4. d.at = "delete" /\ d.version = o.id
    BY <2>3, CleaningFields
  <2> QED BY <2>2, <2>3, <2>4 DEF Covers
<1> QED BY <1>1, <1>2, <1>3, <1>4, CleanupKeepsAccount

LEMMA VersionNotFound ==
    ASSUME CopyInductive, NEW c \in undo, FindFails(c),
           UNCHANGED <<shape, source, made, job, row, tries>>
    PROVE  CopyInductive'
<1>1. undo \ {c} \subseteq undo' /\ excused' = TRUE /\ UNCHANGED <<objects, sessions>>
  BY DEF FindFails, CleanupEnds
<1>2. sessions' = [n \in 1..MaxTries |-> sessions'[n]]
  BY <1>1 DEF CopyInductive, CopyTyped
<1> QED BY <1>1, <1>2, CleanupKeepsAccount

LEMMA VersionDeleted ==
    ASSUME CopyInductive, NEW c \in undo, DeleteVersion(c),
           UNCHANGED <<shape, source, made, job, row, tries>>
    PROVE  CopyInductive'
<1>1. c.at = "delete" /\ undo \ {c} \subseteq undo' /\ UNCHANGED sessions
  BY DEF DeleteVersion, CleanupEnds
<1>2. sessions' = [n \in 1..MaxTries |-> sessions'[n]] /\ excused \in BOOLEAN
  BY <1>1 DEF CopyInductive, CopyTyped
<1>3. CASE objects' = Remaining(c.version) /\ UNCHANGED excused
  <2>1. objects' = {} \/ objects' = objects
    BY <1>3 DEF Remaining, CopyInductive, KeyHolds, One
  <2>2. \A o \in objects' : ~Covers(c, o)
    BY <1>1, <1>3 DEF Remaining, Covers
  <2> QED BY <1>1, <1>2, <1>3, <2>1, <2>2, CleanupKeepsAccount
<1>4. CASE UNCHANGED objects /\ excused' = TRUE
  BY <1>1, <1>2, <1>4, CleanupKeepsAccount
<1> QED BY <1>3, <1>4 DEF DeleteVersion

LEMMA CleanupGoesOn ==
    ASSUME CopyInductive, Cleanup
    PROVE  CopyInductive'
<1>1. PICK c \in undo : /\ AbortSession(c) \/ FindVersion(c) \/ FindFails(c) \/ DeleteVersion(c)
                        /\ UNCHANGED <<shape, source, made, job, row, tries>>
  BY DEF Cleanup
<1> QED BY <1>1, SessionAborted, VersionFound, VersionNotFound, VersionDeleted

LEMMA TryGoesOn ==
    ASSUME CopyInductive, Work, UNCHANGED <<row, shape, source, tries>>
    PROVE  CopyInductive'
<1>1. CASE FilePut
  BY <1>1, AnswerTaken DEF FilePut
<1>2. CASE Copied
  BY <1>2, AnswerTaken DEF Copied
<1>3. CASE Completed
  BY <1>3, AnswerTaken DEF Completed
<1>4. CASE PartCopied \/ PartSent
  BY <1>4, PartStored DEF PartCopied, PartSent
<1>5. CASE ReconcileReserved \/ Discarded \/ CheckSource \/ FetchFile \/ CopyChecked \/ SessionCreated
  BY <1>5, KeyReconciled, LeftoverDiscarded, SourceChecked, FileFetched, CopyLookedAt, SessionOpened
<1>6. CASE FetchPart \/ WholeChecked \/ Adopt \/ CallFails \/ RenewalFails
  BY <1>6, PartFetched, WholeLookedAt, Adopted, CallsFail, RenewalsFail
<1> QED BY <1>1, <1>2, <1>3, <1>4, <1>5, <1>6 DEF Work

LEMMA CopyStarts == CopyInit => CopyInductive
<1> SUFFICES ASSUME CopyInit PROVE CopyInductive
  OBVIOUS
<1>1. job.at = "idle"
  BY DoingFields DEF CopyInit, NoJob
<1>2. CopyTyped
  <2>1. sessions = [n \in 1..MaxTries |-> sessions[n]]
    BY DEF CopyInit
  <2>2. tries \in 0..MaxTries
    BY CopyAssumption DEF CopyAssumption, CopyInit
  <2>3. made \in Nat /\ source = Recorded /\ shape \in Shapes /\ excused = FALSE /\ undo = {}
    BY DEF CopyInit
  <2> QED BY <1>1, <2>1, <2>2, <2>3 DEF CopyTyped, Labels
<1>3. KeyHolds /\ SessionKnown /\ RowKept
  BY <1>1 DEF CopyInit, KeyHolds, SessionKnown, RowKept, Empty, Sending, AtRest
<1>4. SessionsAccounted /\ ObjectsAccounted
  BY DEF CopyInit, SessionsAccounted, ObjectsAccounted
<1> QED BY <1>2, <1>3, <1>4 DEF CopyInductive

-----------------------------------------------------------------------------
(* A copy that is carried out twice leaves two objects where the bucket keeps  *)
(* versions.  What the account above says holds until then; what holds after   *)
(* it as well is that the object a try knows, and the one of the published     *)
(* row, is there.                                                              *)

\* Objects are told apart by their ids, and the latest has the greatest.
ObjectsApart ==
    /\ \A o \in objects : o.id \in 0..made
    /\ \A o, p \in objects : o.id = p.id \/ ~shape.versioned => o = p

CopyStored ==
    /\ ObjectsApart
    /\ repeated \in 0..Repeats
    /\ job.at \in {"discard", "lookAtCopy", "lookAtWhole", "commit"} => job.stored \in objects
    /\ job.at \in {"lookAtCopy", "commit"} => job.stored.content = Recorded
    /\ job.at = "put" => job.parts = Recorded
    /\ row # NoRow => /\ row \in objects /\ row.content = Recorded
                      /\ undo = {} /\ job.at \in {"idle", "done"}

CopyKnown == CopyTyped /\ CopyStored /\ (~Doubled => CopyInductive)

LEMMA LatestExists ==
    ASSUME ObjectsApart, made \in Nat, objects # {}
    PROVE  Latest \in objects
<1> DEFINE T == {o.id + 1 : o \in objects}
<1>1. T \subseteq 1..(made + 1) /\ T # {} /\ made + 1 \in Nat
  BY DEF ObjectsApart
<1> HIDE DEF T
<1>2. PICK i \in T : \A j \in T : j <= i
  BY <1>1, GreatestPosition
<1> USE DEF T
<1>3. PICK o \in objects : i = o.id + 1
  BY <1>2
<1>4. \A p \in objects : p.id + 1 <= o.id + 1
  BY <1>2, <1>3
<1>5. \A p \in objects : p.id <= o.id
  BY <1>4 DEF ObjectsApart
<1> QED BY <1>3, <1>5 DEF Latest

\* What is stored is the latest.
LEMMA NewestIsLatest ==
    ASSUME ObjectsApart, made \in Nat, NEW content, NEW sum, StoreObject(content, sum), shape' = shape
    PROVE  /\ ObjectsApart' /\ made' \in Nat
           /\ Latest' \in objects' /\ Latest'.content = content
<1> DEFINE o == [id |-> IF shape.versioned THEN made + 1 ELSE 0, content |-> content, sum |-> sum]
<1>1. objects' = (IF shape.versioned THEN objects \cup {o} ELSE {o}) /\ made' = made + 1
  BY DEF StoreObject
<1>2. o.id = (IF shape.versioned THEN made + 1 ELSE 0) /\ o.content = content
  OBVIOUS
<1> HIDE DEF o
<1>3. ObjectsApart'
  <2>1. CASE shape.versioned
    BY <1>1, <1>2, <2>1 DEF ObjectsApart
  <2>2. CASE ~shape.versioned
    BY <1>1, <1>2, <2>2 DEF ObjectsApart
  <2> QED BY <2>1, <2>2
<1>4. o \in objects' /\ \A p \in objects' : p.id <= o.id
  BY <1>1, <1>2 DEF ObjectsApart
<1>5. ASSUME NEW p \in objects', \A q \in objects' : q.id <= p.id PROVE p = o
  <2>1. p.id = o.id
    BY <1>3, <1>4, <1>5 DEF ObjectsApart
  <2> QED BY <1>3, <1>4, <2>1 DEF ObjectsApart
<1>6. Latest' = o
  BY <1>4, <1>5 DEF Latest
<1> QED BY <1>1, <1>2, <1>3, <1>4, <1>6

\* Whatever a call does, objects stay apart and sessions are those of the tries.
LEMMA EffectApart ==
    ASSUME CopyTyped, ObjectsApart, shape' = shape, TakesEffect \/ NoEffect
    PROVE  ObjectsApart' /\ made' \in Nat /\ sessions' = [n \in 1..MaxTries |-> sessions'[n]]
<1>1. made \in Nat /\ sessions = [n \in 1..MaxTries |-> sessions[n]]
  BY DEF CopyTyped
<1>2. CASE NoEffect
  BY <1>1, <1>2 DEF NoEffect, ObjectsApart
<1>3. CASE TakesEffect
  <2>1. CASE job.at \in {"put", "copy", "complete"}
    <3>1. \E content, sum : StoreObject(content, sum)
      BY <1>3, <2>1 DEF TakesEffect
    <3>2. ObjectsApart' /\ made' \in Nat
      BY <1>1, <3>1, NewestIsLatest
    <3>3. sessions' = sessions \/ \E s, x : sessions' = [sessions EXCEPT ![s] = x]
      BY <1>3, <2>1 DEF TakesEffect
    <3> QED BY <1>1, <3>2, <3>3
  <2>2. CASE job.at \notin {"put", "copy", "complete"}
    <3>1. made' = made /\ objects' \subseteq objects
      BY <1>3, <2>2 DEF TakesEffect, Remaining
    <3>2. sessions' = sessions \/ \E s, x : sessions' = [sessions EXCEPT ![s] = x]
      BY <1>3, <2>2 DEF TakesEffect
    <3> QED BY <1>1, <3>1, <3>2 DEF ObjectsApart
  <2> QED BY <2>1, <2>2
<1> QED BY <1>2, <1>3

\* A try that ends, with its commit refused or its calls failed.
LEMMA EndIsKnown ==
    ASSUME CopyTyped, CopyStored, TakesEffect \/ NoEffect, job'.at \in {"undo", "idle"}, row = NoRow,
           UNCHANGED <<shape, source, row, tries, repeated>>, excused' \in BOOLEAN
    PROVE  CopyTyped' /\ CopyStored'
<1>1. ObjectsApart' /\ made' \in Nat /\ sessions' = [n \in 1..MaxTries |-> sessions'[n]]
  BY EffectApart DEF CopyStored
<1>2. CopyTyped'
  BY <1>1 DEF CopyTyped, Labels
<1> QED BY <1>1, <1>2 DEF CopyStored

\* A try that goes on with the object it knows.
LEMMA TryIsKnown ==
    ASSUME CopyTyped, CopyStored, job.at \in Copying, TakesEffect \/ NoEffect,
           UNCHANGED <<shape, source, row, tries, repeated, undo, excused>>,
           NEW at \in Copying \cup {"commit"}, NEW parts, NEW open, NEW stored,
           job' = Doing(at, parts, open, stored),
           at \in {"discard", "lookAtCopy", "lookAtWhole", "commit"} => stored \in objects',
           at \in {"lookAtCopy", "commit"} => stored.content = Recorded,
           at = "put" => parts = Recorded
    PROVE  CopyTyped' /\ CopyStored'
<1>1. ObjectsApart' /\ made' \in Nat /\ sessions' = [n \in 1..MaxTries |-> sessions'[n]]
  BY EffectApart DEF CopyStored
<1>2. job'.at = at /\ job'.parts = parts /\ job'.stored = stored
  BY DoingFields
<1>3. row = NoRow /\ undo = {}
  BY DEF CopyTyped, CopyStored, Copying
<1>4. CopyTyped'
  BY <1>1, <1>2, <1>3 DEF CopyTyped, Labels
<1> QED BY <1>1, <1>2, <1>3, <1>4 DEF CopyStored

LEMMA FailIsKnown ==
    ASSUME CopyTyped, CopyStored, job.at \in Copying \cup {"commit"}, TakesEffect \/ NoEffect,
           NEW inner, Fail(inner), UNCHANGED <<shape, source, row, tries, repeated>>, excused' \in BOOLEAN
    PROVE  CopyTyped' /\ CopyStored'
<1>1. job'.at = "undo"
  BY DoingFields DEF Fail, Goto
<1>2. row = NoRow
  BY DEF CopyStored, Copying
<1> QED BY <1>1, <1>2, EndIsKnown

\* The steps that look at the key or at the source and move on, or fail.
LEMMA LooksAreKnown ==
    ASSUME CopyTyped, CopyStored, UNCHANGED <<row, shape, source, tries, repeated>>,
           ReconcileReserved \/ CheckSource \/ FetchFile \/ CopyChecked \/ FetchPart \/ WholeChecked \/ Adopt
    PROVE  CopyTyped' /\ CopyStored'
<1>0. made \in Nat /\ ObjectsApart /\ excused \in BOOLEAN
  BY DEF CopyTyped, CopyStored
<1>1. NoEffect /\ job.at \in Copying /\ excused' = excused
  BY DEF ReconcileReserved, CheckSource, FetchFile, CopyChecked, FetchPart, WholeChecked, Adopt,
         NoEffect, Copying
<1>2. CASE \E inner : Fail(inner)
  BY <1>0, <1>1, <1>2, FailIsKnown
<1>3. CASE ~\E inner : Fail(inner)
  <2>1. objects' = objects
    BY <1>1 DEF NoEffect
  <2>2. CASE ReconcileReserved
    <3>1. CASE objects = {}
      <4>1. PICK at \in {"check", "fetch"} : job' = Doing(at, job.parts, job.session, job.stored)
        BY <2>2, <3>1 DEF ReconcileReserved, Goto, FirstStep
      <4> QED BY <1>1, <2>2, <4>1, TryIsKnown DEF ReconcileReserved, Copying
    <3>2. CASE objects # {}
      <4>1. Latest \in objects
        BY <1>0, <3>2, LatestExists
      <4>2. PICK at \in {"commit", "discard"} : /\ job' = Doing(at, job.parts, job.session, Latest)
                                                /\ at = "commit" => IsWanted(Latest)
        BY <2>2, <3>2 DEF ReconcileReserved, GotoWith
      <4>3. PICK o \in objects : o = Latest
        BY <4>1
      <4>4. job' = Doing(at, job.parts, job.session, o) /\ (at = "commit" => o.content = Recorded)
        BY <4>2, <4>3 DEF IsWanted
      <4> QED BY <1>1, <2>1, <2>2, <4>4, TryIsKnown DEF ReconcileReserved, Copying
    <3> QED BY <3>1, <3>2
  <2>3. CASE CheckSource
    <3>1. PICK at \in {"copy", "create"} : job' = Doing(at, job.parts, job.session, job.stored) /\ undo' = undo
      BY <1>3, <2>3 DEF CheckSource, Goto
    <3> QED BY <1>1, <3>1, TryIsKnown DEF Copying
  <2>4. CASE FetchFile
    <3>1. job' = Doing("put", source, job.session, job.stored) /\ undo' = undo /\ source = Recorded
      BY <1>3, <2>4 DEF FetchFile
    <3> QED BY <1>1, <3>1, TryIsKnown DEF Copying
  <2>5. CASE CopyChecked
    <3>1. job' = Doing("commit", job.parts, job.session, job.stored) /\ undo' = undo
      BY <1>3, <2>5 DEF CopyChecked, Goto
    <3>2. job.stored \in objects' /\ job.stored.content = Recorded
      BY <2>1, <2>5 DEF CopyChecked, CopyStored
    <3> QED BY <1>1, <3>1, <3>2, TryIsKnown DEF Copying
  <2>6. CASE FetchPart
    <3>1. PICK parts : job' = Doing("sendPart", parts, job.session, job.stored) /\ undo' = undo
      BY <1>3, <2>6 DEF FetchPart
    <3> QED BY <1>1, <3>1, TryIsKnown DEF Copying
  <2>7. CASE WholeChecked
    <3>1. /\ job' = Doing("commit", job.parts, job.session, job.stored) /\ undo' = undo
          /\ job.stored.content = Recorded
      BY <1>3, <2>7 DEF WholeChecked, Goto
    <3>2. job.stored \in objects'
      BY <2>1, <2>7 DEF WholeChecked, CopyStored
    <3> QED BY <1>1, <3>1, <3>2, TryIsKnown DEF Copying
  <2>8. CASE Adopt
    <3>1. /\ job' = Doing("commit", job.parts, job.session, Latest) /\ undo' = undo
          /\ objects # {} /\ Latest.content = Recorded
      BY <1>3, <2>8 DEF Adopt, GotoWith
    <3>2. PICK o \in objects : o = Latest
      BY <1>0, <3>1, LatestExists
    <3>3. job' = Doing("commit", job.parts, job.session, o) /\ o.content = Recorded
      BY <3>1, <3>2
    <3> QED BY <1>1, <2>1, <3>1, <3>3, TryIsKnown
  <2> QED BY <2>2, <2>3, <2>4, <2>5, <2>6, <2>7, <2>8
<1> QED BY <1>2, <1>3

\* The calls that are answered.
LEMMA AnswersAreKnown ==
    ASSUME CopyTyped, CopyStored, UNCHANGED <<row, shape, source, tries, repeated>>,
           Discarded \/ FilePut \/ Copied \/ SessionCreated \/ PartCopied \/ PartSent \/ Completed
    PROVE  CopyTyped' /\ CopyStored'
<1>0. made \in Nat /\ ObjectsApart
  BY DEF CopyTyped, CopyStored
<1>1. TakesEffect /\ job.at \in Copying /\ UNCHANGED <<undo, excused>>
  BY DEF Discarded, FilePut, Copied, SessionCreated, PartCopied, PartSent, Completed, Copying
<1>2. CASE Discarded \/ SessionCreated \/ PartCopied \/ PartSent
  <2>1. PICK at \in {"check", "fetch", "fetchPart", "copyPart", "complete"} : \E open, stored :
          job' = Doing(at, job.parts, open, stored)
    BY <1>2 DEF Discarded, SessionCreated, PartCopied, PartSent, NextPart, FirstPart, FirstStep, Goto, GotoWith
  <2> QED BY <1>1, <2>1, TryIsKnown DEF Copying
<1>3. CASE FilePut \/ Copied \/ Completed
  <2>1. PICK content : /\ \E sum : StoreObject(content, sum)
                       /\ ~Completed => content = Recorded
    BY <1>1, <1>3 DEF TakesEffect, FilePut, Copied, Completed, CopyAccepted, CopyStored
  <2>2. PICK o \in objects' : o = Latest' /\ o.content = content
    BY <1>0, <2>1, NewestIsLatest
  <2>3. PICK at \in {"commit", "lookAtCopy", "lookAtWhole"} :
          /\ job' = Doing(at, job.parts, job.session, o)
          /\ at \in {"commit", "lookAtCopy"} => ~Completed
    BY <1>3, <2>2 DEF FilePut, Copied, Completed, GotoWith
  <2> QED BY <1>1, <2>1, <2>2, <2>3, TryIsKnown DEF Copying
<1> QED BY <1>2, <1>3

LEMMA WorkIsKnown ==
    ASSUME CopyTyped, CopyStored, Work, UNCHANGED <<row, shape, source, tries, repeated>>
    PROVE  CopyTyped' /\ CopyStored'
<1>1. excused \in BOOLEAN
  BY DEF CopyTyped
<1>2. CASE CallFails
  <2>1. job.at \in Copying /\ (TakesEffect \/ NoEffect)
    BY <1>2 DEF CallFails
  <2>2. excused' \in BOOLEAN
    BY <1>1, <1>2 DEF CallFails
  <2>3. CASE \E inner : Fail(inner)
    BY <2>1, <2>2, <2>3, FailIsKnown
  <2>4. CASE ~\E inner : Fail(inner)
    <3>1. job' = Doing("adopt", job.parts, job.session, job.stored) /\ undo' = undo /\ job.at # "create"
      BY <1>2, <2>4 DEF CallFails, Goto
    <3>2. excused' = excused
      BY <1>1, <1>2, <3>1 DEF CallFails
    <3> QED BY <2>1, <3>1, <3>2, TryIsKnown DEF Copying
  <2> QED BY <2>3, <2>4
<1>3. CASE RenewalFails
  <2>1. job'.at = "undo" /\ (TakesEffect \/ NoEffect)
    BY <1>3, DoingFields DEF RenewalFails, Goto
  <2>2. row = NoRow /\ excused' \in BOOLEAN
    BY <1>1, <1>3 DEF RenewalFails, CopyStored, Copying
  <2> QED BY <2>1, <2>2, EndIsKnown
<1> QED BY <1>2, <1>3, LooksAreKnown, AnswersAreKnown DEF Work

\* A cleanup deletes no object that was published.
LEMMA CleanupIsKnown ==
    ASSUME CopyTyped, CopyStored, Cleanup
    PROVE  CopyTyped' /\ CopyStored'
<1>1. PICK c \in undo : /\ AbortSession(c) \/ FindVersion(c) \/ FindFails(c) \/ DeleteVersion(c)
                        /\ UNCHANGED <<shape, source, made, job, row, tries, repeated>>
  BY DEF Cleanup
<1>2. objects' \subseteq objects
  BY <1>1 DEF AbortSession, FindVersion, FindFails, DeleteVersion, Remaining
<1>3. excused' \in BOOLEAN
  BY <1>1 DEF AbortSession, FindVersion, FindFails, DeleteVersion, CopyTyped
<1>4. sessions' = [n \in 1..MaxTries |-> sessions'[n]]
  BY <1>1 DEF AbortSession, FindVersion, FindFails, DeleteVersion, CopyTyped
<1>5. row = NoRow /\ job.at \in {"undo", "idle"}
  BY <1>1 DEF CopyTyped, CopyStored
<1>6. CopyTyped'
  BY <1>1, <1>3, <1>4, <1>5 DEF CopyTyped
<1>7. ObjectsApart'
  BY <1>1, <1>2 DEF CopyStored, ObjectsApart
<1> QED BY <1>1, <1>5, <1>6, <1>7 DEF CopyStored

\* A step of the request other than its copying.
LEMMA RequestIsKnown ==
    ASSUME CopyTyped, CopyStored, UNCHANGED <<shape, source, tries, repeated>>,
           Commit \/ CommitFails \/ CommitUnknown \/ Release \/ Drop \/ Crash
    PROVE  CopyTyped' /\ CopyStored'
<1>1. excused \in BOOLEAN
  BY DEF CopyTyped
<1>2. CASE Commit \/ CommitUnknown
  <2>1. job.at = "commit" /\ UNCHANGED <<objects, sessions, made, undo>> /\ row' \in {row, job.stored}
    BY <1>2 DEF Commit, CommitUnknown
  <2>2. job'.at \in {"idle", "done"}
    BY <1>2, DoingFields DEF Commit, CommitUnknown, Goto
  <2>3. excused' \in BOOLEAN
    BY <1>1, <1>2 DEF Commit, CommitUnknown
  <2>4. undo = {} /\ row = NoRow /\ job.stored \in objects /\ job.stored.content = Recorded
    BY <2>1 DEF CopyTyped, CopyStored
  <2>5. CopyTyped'
    BY <2>1, <2>2, <2>3, <2>4 DEF CopyTyped, Labels
  <2>6. ObjectsApart'
    BY <2>1 DEF CopyStored, ObjectsApart
  <2> QED BY <2>1, <2>2, <2>4, <2>5, <2>6 DEF CopyStored
<1>3. CASE CommitFails
  <2>1. Fail(Nothing) /\ NoEffect /\ job.at = "commit" /\ UNCHANGED <<row, excused>>
    BY <1>3 DEF CommitFails, NoEffect
  <2> QED BY <1>1, <2>1, FailIsKnown
<1>4. CASE Release
  <2>1. job.at = "undo" /\ undo = {} /\ UNCHANGED <<objects, sessions, made, undo, row, excused>>
    BY <1>4 DEF Release
  <2>2. job'.at \in {"idle", "done"}
    BY <1>4, DoingFields DEF Release, Goto
  <2>3. CopyTyped' /\ ObjectsApart'
    BY <2>1, <2>2 DEF CopyTyped, Labels, CopyStored, ObjectsApart
  <2> QED BY <2>1, <2>2, <2>3 DEF CopyStored
<1>5. CASE Drop
  <2>1. (TakesEffect \/ NoEffect) /\ row' = row /\ excused' \in BOOLEAN
    BY <1>1, <1>5 DEF Drop
  <2>2. job'.at = "idle"
    BY <1>5, DoingFields DEF Drop, Goto
  <2>3. row = NoRow
    BY <1>5 DEF Drop, CopyStored, Copying
  <2> QED BY <2>1, <2>2, <2>3, EndIsKnown
<1>6. CASE Crash
  <2>1. (TakesEffect \/ NoEffect) /\ row' = row /\ excused' = TRUE /\ undo' = {}
    BY <1>6 DEF Crash
  <2>2. job'.at = "idle"
    BY <1>6, DoingFields DEF Crash, Goto
  <2>3. CASE row = NoRow
    BY <2>1, <2>2, <2>3, EndIsKnown
  <2>4. CASE row # NoRow
    <3>1. job.at \in {"idle", "done"}
      BY <2>4 DEF CopyStored
    <3>2. UNCHANGED <<objects, sessions, made>>
      BY <2>1, <3>1 DEF TakesEffect, NoEffect
    <3>3. CopyTyped' /\ ObjectsApart'
      BY <2>1, <2>2, <3>2 DEF CopyTyped, Labels, CopyStored, ObjectsApart
    <3> QED BY <2>1, <2>2, <3>2, <3>3 DEF CopyStored
  <2> QED BY <2>3, <2>4
<1> QED BY <1>2, <1>3, <1>4, <1>5, <1>6

\* A copy carried out again: where versions are not kept it replaces the first.
LEMMA CopyRepeats ==
    ASSUME CopyTyped, CopyStored, CopyResent
    PROVE  /\ CopyTyped' /\ CopyStored'
           /\ CopyInductive /\ ~shape.versioned => CopyInductive'
<1>0. /\ job.at = "copy" /\ TakesEffect /\ repeated < Repeats /\ repeated' = repeated + 1
      /\ UNCHANGED <<shape, source, job, undo, row, tries, excused>>
  BY DEF CopyResent
<1>1. ObjectsApart' /\ made' \in Nat /\ sessions' = [n \in 1..MaxTries |-> sessions'[n]]
  BY <1>0, EffectApart DEF CopyStored
<1>2. CopyTyped'
  BY <1>0, <1>1 DEF CopyTyped
<1>3. row = NoRow
  BY <1>0 DEF CopyStored
<1>4. repeated' \in 0..Repeats
  BY <1>0, CopyAssumption DEF CopyAssumption, CopyStored
<1>5. CopyStored'
  BY <1>0, <1>1, <1>3, <1>4 DEF CopyStored
<1>6. ASSUME CopyInductive, ~shape.versioned PROVE CopyInductive'
  <2>1. PICK o : One(o)'
    BY <1>0, <1>6, EffectKnown
  <2>2. sessions' = sessions
    BY <1>0, <1>6, EffectKnown
  <2>3. KeyHolds'
    BY <1>0, <1>6, <2>1 DEF KeyHolds, Empty
  <2>4. SessionKnown'
    BY <1>0, <1>6, <2>2 DEF CopyInductive, SessionKnown, Sending, AtRest
  <2>5. ~excused => SessionsAccounted'
    BY <1>0, <1>6, <2>2 DEF CopyInductive, SessionsAccounted
  <2> QED BY <1>0, <1>1, <1>6, <2>3, <2>4, <2>5, TryProceeds DEF Copying
<1> QED BY <1>2, <1>5, <1>6

\* What is known of the key, the sessions and the cleanups at every stage of a restore holds
\* from the first try to the last, for every size of a file and number of tries.
THEOREM CopyStaysInductive == CopySpec => []CopyKnown
<1>1. CopyInit => CopyKnown
  <2> SUFFICES ASSUME CopyInit PROVE CopyKnown
    OBVIOUS
  <2>1. CopyInductive
    BY CopyStarts
  <2>2. job.at = "idle"
    BY DoingFields DEF CopyInit, NoJob
  <2>3. CopyStored
    BY <2>2, CopyAssumption DEF CopyAssumption, CopyInit, CopyStored, ObjectsApart
  <2> QED BY <2>1, <2>3 DEF CopyKnown, CopyInductive
<1>2. CopyKnown /\ [CopyNext]_copyVars => CopyKnown'
  <2> SUFFICES ASSUME CopyKnown, [CopyNext]_copyVars PROVE CopyKnown'
    OBVIOUS
  <2>0. CopyTyped /\ CopyStored /\ (~Doubled => CopyInductive)
    BY DEF CopyKnown
  <2>1. CASE BeginTry \/ SourceReplaced
    <3>1. repeated' = repeated /\ shape' = shape
      BY <2>1 DEF BeginTry, SourceReplaced
    <3>2. CopyTyped' /\ CopyStored'
      <4>1. CASE BeginTry
        <5>1. /\ job.at = "idle" /\ undo = {} /\ row = NoRow /\ tries < MaxTries /\ tries' = tries + 1
              /\ UNCHANGED <<shape, source, objects, sessions, made, undo, row, repeated, excused>>
          BY <4>1 DEF BeginTry
        <5>2. job'.at = "reconcile"
          BY <4>1, DoingFields DEF BeginTry
        <5>3. tries' \in 0..MaxTries
          BY <2>0, <5>1, CopyAssumption DEF CopyAssumption, CopyTyped
        <5>4. CopyTyped'
          BY <2>0, <5>1, <5>2, <5>3 DEF CopyTyped, Labels, Copying
        <5> QED BY <2>0, <5>1, <5>2, <5>4 DEF CopyStored, ObjectsApart
      <4>2. CASE SourceReplaced
        BY <2>0, <4>2 DEF SourceReplaced, CopyTyped, CopyStored, ObjectsApart
      <4> QED BY <2>1, <4>1, <4>2
    <3>3. ~Doubled' => CopyInductive'
      BY <2>0, <2>1, <3>1, TryBegins, SourceChanges DEF Doubled
    <3> QED BY <3>2, <3>3 DEF CopyKnown
  <2>2. CASE CopyResent
    <3>1. CopyTyped' /\ CopyStored' /\ (CopyInductive /\ ~shape.versioned => CopyInductive')
      BY <2>0, <2>2, CopyRepeats
    <3>2. shape' = shape /\ repeated' > 0
      BY <2>0, <2>2 DEF CopyResent, CopyStored
    <3>3. ~Doubled' => ~shape.versioned
      BY <3>2 DEF Doubled
    <3> QED BY <2>0, <3>1, <3>3 DEF CopyKnown, Doubled
  <2>3. CASE Cleanup
    <3>1. repeated' = repeated /\ shape' = shape
      BY <2>3 DEF Cleanup
    <3> QED BY <2>0, <2>3, <3>1, CleanupIsKnown, CleanupGoesOn DEF CopyKnown, Doubled
  <2>4. CASE Work /\ UNCHANGED row /\ UNCHANGED <<shape, source, tries, repeated>>
    BY <2>0, <2>4, WorkIsKnown, TryGoesOn DEF CopyKnown, Doubled
  <2>5. CASE /\ Commit \/ CommitFails \/ CommitUnknown \/ Release \/ Drop \/ Crash
             /\ UNCHANGED <<shape, source, tries, repeated>>
    <3>1. CopyTyped' /\ CopyStored'
      BY <2>0, <2>5, RequestIsKnown
    <3>2. CopyInductive => CopyInductive'
      BY <2>5, RowPublished, CommitRefused, RecordReleased, RequestDropped, ProcessStops
    <3> QED BY <2>0, <2>5, <3>1, <3>2 DEF CopyKnown, Doubled
  <2>6. CASE UNCHANGED copyVars
    BY <2>6 DEF copyVars, CopyKnown, CopyStored, ObjectsApart, Doubled, CopyInductive, CopyTyped,
                KeyHolds, SessionKnown, RowKept, SessionsAccounted, ObjectsAccounted, One
  <2> QED BY <2>1, <2>2, <2>3, <2>4, <2>5, <2>6 DEF CopyNext
<1> QED BY <1>1, <1>2, PTL DEF CopySpec

\* A published restore has an object with the bytes of the version it restores, and nothing
\* else is under its key; one that failed and cleaned up has left nothing, unless a copy was
\* carried out twice (put_version_restore and what it calls).
THEOREM CopiesAlwaysHold == CopySpec => []CopiesHold
<1>1. CopyKnown => CopiesHold
  <2> SUFFICES ASSUME CopyKnown PROVE CopiesHold
    OBVIOUS
  <2>0. CopyTyped /\ CopyStored /\ (~Doubled => CopyInductive)
    BY DEF CopyKnown
  <2>1. CopyTypeOK
    BY <2>0 DEF CopyTyped, CopyTypeOK, CopyStored, ObjectsApart
  <2>2. RestoredIsSource
    BY <2>0 DEF CopyStored, RestoredIsSource
  <2>3. RestoredAlone
    BY <2>0 DEF CopyInductive, RowKept, RestoredAlone, One
  <2>4. FailedRestoreLeavesNothing
    <3> SUFFICES ASSUME job.at \in {"idle", "done"}, undo = {}, row = NoRow, ~excused, ~Doubled
                 PROVE  objects = {} /\ \A n \in DOMAIN sessions : sessions[n] = Closed
      BY DEF FailedRestoreLeavesNothing
    <3>1. SessionsAccounted /\ ObjectsAccounted /\ DOMAIN sessions = 1..MaxTries
      BY <2>0 DEF CopyInductive, CopyTyped
    <3> QED BY <3>1 DEF SessionsAccounted, ObjectsAccounted, AtRest, Sending
  <2> QED BY <2>1, <2>2, <2>3, <2>4 DEF CopiesHold
<1> QED BY <1>1, CopyStaysInductive, PTL
===============================================================================
