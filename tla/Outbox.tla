-------------------------------- MODULE Outbox --------------------------------
(***************************************************************************)
(* The outbox: events enqueued in the transaction of a change, and worker   *)
(* hosts that claim them in batches under a lease, post the invitation mail *)
(* of each, and settle it: delivered, back to pending for a later try, or   *)
(* dead-lettered at the last one.  A host works on the events of a batch at *)
(* once and claims again when all of them have ended.                       *)
(*                                                                          *)
(* A claim is named by its host: a host has one batch, and a lease that     *)
(* outlives its batch is taken over like any other.                         *)
(***************************************************************************)
EXTENDS Naturals, Sequences, SequencesExt, FiniteSets

CONSTANTS
    Events,
    Invitations, \* the events of the topic that is mailed
    Hosts, Nobody,
    OutboxBatch, \* events claimed at once, at most
    MaxAttempts,
    MaxFaults    \* bound on the faults that befall an event

ASSUME OutboxAssumption ==
    /\ Invitations \subseteq Events /\ IsFiniteSet(Hosts) /\ Nobody \notin Hosts
    /\ OutboxBatch \in Nat \ {0} /\ MaxAttempts \in Nat \ {0} /\ MaxFaults \in Nat

VARIABLES
    event,  \* outbox_events; holder and lease stand for lease_token and lease_expires_at
    due,    \* events whose available_at has come, in its order
    work,   \* how far each host is with each event
    mails,  \* invitations Postmark has accepted
    faults  \* history: lapsed leases, crashes, lost answers, failed statements

outboxVars == <<event, due, work, mails, faults>>

Unsent == [status |-> "none", attempts |-> 0, holder |-> Nobody, lease |-> "none"]
Final == {"delivered", "dead_letter"}

OutboxInit ==
    /\ event = [e \in Events |-> Unsent]
    /\ due = <<>>
    /\ work = [h \in Hosts |-> [e \in Events |-> "idle"]]
    /\ mails = [e \in Events |-> 0]
    /\ faults = [e \in Events |-> 0]

Idle(h) == \A e \in Events : work[h][e] = "idle"
Holds(h, e) == event[e].status = "processing" /\ event[e].holder = h
At(h, e, stage) == work' = [work EXCEPT ![h][e] = stage]

Fault(e) == faults[e] < MaxFaults /\ faults' = [faults EXCEPT ![e] = @ + 1]

-----------------------------------------------------------------------------
\* The trigger of a notification, in the transaction that grants access.
Enqueue(e) ==
    /\ event[e].status = "none"
    /\ event' = [event EXCEPT ![e].status = "pending"]
    /\ due' = Append(due, e)
    /\ UNCHANGED <<work, mails, faults>>

\* The delay of a retry has passed.
RetryDue(e) ==
    /\ event[e].status = "pending"
    /\ ~Contains(due, e)
    /\ due' = Append(due, e)
    /\ UNCHANGED <<event, work, mails, faults>>

ClaimableHeld(e) == event[e].status \in {"pending", "processing"}

Claimable(e) ==
    \/ event[e].status = "pending"
    \/ event[e].status = "processing" /\ event[e].lease = "over"

Batch ==
    LET claimable == {i \in DOMAIN due : Claimable(due[i])}
        first == {i \in claimable : Cardinality({j \in claimable : j <= i}) <= OutboxBatch}
    IN {due[i] : i \in first}

NextAttempt(n) == IF n < MaxAttempts THEN n + 1 ELSE n

ClaimFor(h) ==
    /\ Idle(h)
    /\ Batch # {}
    /\ event' = [e \in Events |-> IF e \in Batch
            THEN [status |-> "processing", attempts |-> NextAttempt(event[e].attempts),
                  holder |-> h, lease |-> "on"]
            ELSE event[e]]
    /\ UNCHANGED <<due, mails>>

Claim(h) ==
    /\ ClaimFor(h)
    /\ work' = [work EXCEPT ![h] = [e \in Events |-> IF e \in Batch THEN "claimed" ELSE "idle"]]
    /\ UNCHANGED faults

\* The claim is committed and the host does not learn of it.
ClaimLost(h) ==
    /\ ClaimFor(h)
    /\ \A e \in Batch : faults[e] < MaxFaults
    /\ faults' = [e \in Events |-> IF e \in Batch THEN faults[e] + 1 ELSE faults[e]]
    /\ UNCHANGED work

-----------------------------------------------------------------------------
(* One event of a batch. *)

\* The topic has no dispatcher, or no active account has shared an address.
Undeliverable(h, e) ==
    /\ work[h][e] = "claimed"
    /\ At(h, e, "failed")
    /\ UNCHANGED <<event, due, mails, faults>>

Post(h, e) ==
    /\ work[h][e] = "claimed"
    /\ e \in Invitations
    /\ At(h, e, "posting")
    /\ UNCHANGED <<event, due, mails, faults>>

\* Postmark takes the request, and the answer says so or is lost.
Accept(h, e) ==
    /\ work[h][e] = "posting"
    /\ mails' = [mails EXCEPT ![e] = @ + 1]
    /\ \/ At(h, e, "sent") /\ UNCHANGED faults
       \/ At(h, e, "failed") /\ Fault(e)
    /\ UNCHANGED <<event, due>>

Refuse(h, e) ==
    /\ work[h][e] = "posting"
    /\ At(h, e, "failed")
    /\ UNCHANGED <<event, due, mails, faults>>

EndsAs(e, status) ==
    event' = [event EXCEPT ![e].status = status, ![e].holder = Nobody, ![e].lease = "none"]

MarkDelivered(h, e) ==
    /\ work[h][e] = "sent"
    /\ IF Holds(h, e)
       THEN EndsAs(e, "delivered") /\ due' = Remove(due, e)
       ELSE UNCHANGED <<event, due>>
    /\ At(h, e, "idle")
    /\ UNCHANGED <<mails, faults>>

\* A try that failed: pending again after a delay, or a dead letter.
ReleaseFailure(h, e) ==
    /\ work[h][e] = "failed"
    /\ IF Holds(h, e)
       THEN /\ EndsAs(e, IF event[e].attempts >= MaxAttempts THEN "dead_letter" ELSE "pending")
            /\ due' = Remove(due, e)
       ELSE UNCHANGED <<event, due>>
    /\ At(h, e, "idle")
    /\ UNCHANGED <<mails, faults>>

\* A request whose sender is gone may still be taken.
Orphaned(stage, e) == mails' \in {mails, IF stage = "posting" THEN [mails EXCEPT ![e] = @ + 1] ELSE mails}

\* The renewal finds that the lease is lost, and the dispatch is dropped.
LeaseLost(h, e) ==
    /\ work[h][e] # "idle"
    /\ ~(Holds(h, e) /\ event[e].lease = "on")
    /\ Orphaned(work[h][e], e)
    /\ At(h, e, "idle")
    /\ UNCHANGED <<event, due, faults>>

\* So it is when a statement of the renewal or of the settlement fails.
StatementFails(h, e) ==
    /\ work[h][e] # "idle"
    /\ Orphaned(work[h][e], e)
    /\ Fault(e)
    /\ At(h, e, "idle")
    /\ UNCHANGED <<event, due>>

\* A host stops with its whole batch, and starts again.
HostStops(h) ==
    /\ ~Idle(h)
    /\ LET hit == {e \in Events : work[h][e] # "idle"}
           posting == {e \in Events : work[h][e] = "posting"} IN
       /\ \A e \in hit : faults[e] < MaxFaults
       /\ faults' = [e \in Events |-> IF e \in hit THEN faults[e] + 1 ELSE faults[e]]
       /\ \E taken \in SUBSET posting :
            mails' = [e \in Events |-> IF e \in taken THEN mails[e] + 1 ELSE mails[e]]
    /\ work' = [work EXCEPT ![h] = [e \in Events |-> "idle"]]
    /\ UNCHANGED <<event, due>>

\* A lease ends.  It is a fault if its holder is still at work: renewals come
\* three to a lease.
LeaseEnds(e) ==
    /\ event[e].status = "processing" /\ event[e].lease = "on"
    /\ event' = [event EXCEPT ![e].lease = "over"]
    /\ IF work[event[e].holder][e] # "idle" THEN Fault(e) ELSE UNCHANGED faults
    /\ UNCHANGED <<due, work, mails>>

-----------------------------------------------------------------------------
Dispatch(h, e) ==
    \/ Undeliverable(h, e) \/ Post(h, e) \/ Accept(h, e) \/ Refuse(h, e)
    \/ MarkDelivered(h, e) \/ ReleaseFailure(h, e)

OutboxNext ==
    \/ \E e \in Events : Enqueue(e) \/ RetryDue(e) \/ LeaseEnds(e)
    \/ \E h \in Hosts : Claim(h) \/ ClaimLost(h) \/ HostStops(h)
    \/ \E h \in Hosts, e \in Events : Dispatch(h, e) \/ LeaseLost(h, e) \/ StatementFails(h, e)

\* Hosts poll for ever, requests time out, delays and leases end.
OutboxFairness ==
    /\ \A h \in Hosts : WF_outboxVars(Claim(h))
    /\ \A h \in Hosts, e \in Events : WF_outboxVars(Dispatch(h, e))
    /\ \A e \in Events : WF_outboxVars(RetryDue(e)) /\ WF_outboxVars(LeaseEnds(e))

OutboxSpec == OutboxInit /\ [][OutboxNext]_outboxVars /\ OutboxFairness

-----------------------------------------------------------------------------
(* Properties. *)

\* Rows satisfy the constraints of outbox_events, and are in the queue while
\* they are claimed.
OutboxTypeOK ==
    /\ \A e \in Events :
        /\ event[e].status \in {"none", "pending", "processing"} \cup Final
        /\ event[e].attempts \in 0..MaxAttempts
        /\ event[e].status = "processing" <=> event[e].holder \in Hosts
        /\ event[e].status = "processing" <=> event[e].lease \in {"on", "over"}
        /\ event[e].status = "processing" => Contains(due, e)
        /\ Contains(due, e) => event[e].status \in {"pending", "processing"}
        /\ mails[e] \in Nat /\ faults[e] \in 0..MaxFaults
    /\ IsInjective(due)
    /\ work \in [Hosts -> [Events -> {"idle", "claimed", "posting", "sent", "failed"}]]

\* Every mail after the first is paid for by a fault of its own.
MailedOncePerFault == \A e \in Events : mails[e] <= 1 + faults[e]

\* What is marked delivered was mailed; what is dead-lettered after less than
\* a fault per mail was not.
OutcomeIsTrue ==
    \A e \in Events :
        /\ event[e].status = "delivered" => mails[e] > 0
        /\ event[e].status = "dead_letter" => mails[e] <= faults[e]

\* What the outbox says of a mail is so, and no mail is sent without a reason,
\* however hosts crash, lose their lease or are overtaken.
MailsAccountedFor == MailedOncePerFault /\ OutcomeIsTrue

\* What makes MailsAccountedFor hold: a host whose lease has lapsed may still
\* send a mail, and a fault has paid for it in advance; the one mail that no
\* fault pays for is that of a delivery, done or about to be recorded.
InTime(h, e) == Holds(h, e) /\ event[e].lease = "on"
Overdue(e) == {h \in Hosts : work[h][e] \in {"claimed", "posting"} /\ ~InTime(h, e)}
Delivering(e) ==
    \/ event[e].status = "delivered"
    \/ \E h \in Hosts : InTime(h, e) /\ work[h][e] = "sent"
MailsPaid(e) ==
    /\ mails[e] + Cardinality(Overdue(e)) <= faults[e] + (IF Delivering(e) THEN 1 ELSE 0)
    /\ event[e].status = "delivered" \/ (\E h \in Hosts : work[h][e] = "sent") => mails[e] > 0

EventRows ==
    /\ event \in [Events -> [status : {"none", "pending", "processing"} \cup Final,
                             attempts : 0..MaxAttempts,
                             holder : Hosts \cup {Nobody}, lease : {"none", "on", "over"}]]
    /\ \A e \in Events : event[e].status = "processing" <=> event[e].holder \in Hosts
    /\ work \in [Hosts -> [Events -> {"idle", "claimed", "posting", "sent", "failed"}]]
    /\ mails \in [Events -> Nat]
    /\ faults \in [Events -> 0..MaxFaults]

OutboxInductive == EventRows /\ \A e \in Events : MailsPaid(e)

\* No host that was overtaken changes the outcome of an event.
OutcomeStays ==
    [][\A e \in Events : event[e].status \in Final => event'[e] = event[e]]_outboxVars

\* Every event is settled in the end, whatever fails on the way.
EventsSettle == \A e \in Events : []<>(event[e].status \in Final \cup {"none"})
=============================================================================
