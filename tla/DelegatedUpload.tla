---------------------------- MODULE DelegatedUpload ---------------------------
(***************************************************************************)
(* Delegated uploads: an app reserves room for a file, streams the bytes    *)
(* under a capability, and publishes the staged object in a third request.  *)
(* The writer holds a lease and asks the row before each call to the object *)
(* store, whose calls may be answered late or never.  Whatever ends an      *)
(* upload early leaves its row to a cleanup worker, which may only end it   *)
(* when no bytes can be left at the provider.  Until then the row counts    *)
(* against the limits of Quota.                                             *)
(*                                                                          *)
(* Each upload has an object key of its own and at most one writer: a row   *)
(* returns to reserved only by the end of its writer.  Time is counted in   *)
(* units; the client end of a store call stops by its deadline, but the     *)
(* call itself may still take effect at any later time.                     *)
(***************************************************************************)
EXTENDS Quota, FiniteSets

CONSTANTS
    Uploads,    \* operation identifiers
    Large,      \* those sent in parts
    Size,       \* size_bytes
    MaxSize,
    MaxPending, \* MAX_PENDING_RESERVATIONS
    Workers,    \* cleanup claims that can be at work at once
    NoWorker,
    TTL,        \* life of a reservation
    Lease,      \* life of a writer's lease
    Timeout,    \* longest wait for one store call
    Grace,      \* the two minutes added before cleanup
    MaxTime     \* bound on the clock

ASSUME UploadsAssumption ==
    /\ IsFiniteSet(Uploads)
    /\ Large \subseteq Uploads
    /\ MaxSize \in Nat
    /\ Size \in [Uploads -> 0..MaxSize]
    /\ NoWorker \notin Workers
    /\ {TTL, Lease, Timeout, Grace} \subseteq Nat \ {0}
    /\ MaxTime \in Nat

VARIABLES
    now,
    row,     \* delegated_uploads
    writer,  \* what the holder of the lease is doing
    learnt,  \* what the lease object remembers: "session", "object"
    commit,  \* progress of a commit request
    call,    \* the store call that has not taken effect yet
    session, \* the multipart session under the key
    object,  \* keys under which an object is stored
    version, \* uploads whose object a version row points at
    job      \* cleanup workers

provider == <<call, session, object>>
vars == <<usage, now, row, writer, learnt, commit, provider, version, job>>

Live == {"reserved", "receiving", "staged"}
Ended == {"cancelled", "expired"}
Statuses == Live \cup Ended \cup {"none", "committed", "cleanup_pending"}
Calls == {"put", "create", "part", "complete"}
Waiting(u) == writer[u] \in Calls
Idle == [step |-> "idle"]
Steps == {"list", "abort", "head", "delete", "confirm", "settle"}

NoRow == [status |-> "none", written |-> FALSE, completing |-> FALSE,
          named |-> FALSE, evidence |-> FALSE, expires |-> 0, lease |-> 0,
          deadline |-> 0, after |-> 0, claim |-> NoWorker, held |-> FALSE]

Init ==
    /\ QuotaInit
    /\ now = 0
    /\ row = [u \in Uploads |-> NoRow]
    /\ writer = [u \in Uploads |-> "none"]
    /\ learnt = [u \in Uploads |-> {}]
    /\ commit = [u \in Uploads |-> "none"]
    /\ call = [u \in Uploads |-> "none"]
    /\ session = [u \in Uploads |-> "none"]
    /\ object = {}
    /\ version = {}
    /\ job = [w \in Workers |-> Idle]

\* Bytes as units of an upload, so that the bytes of a set are counted.
Bytes(S) == Cardinality({p \in S \X (1..MaxSize) : p[2] <= Size[p[1]]})
Pending == {u \in Uploads : row[u].status \in {"reserved", "receiving", "staged", "cleanup_pending"}}

Larger(a, b) == IF a < b THEN b ELSE a
WriterGoes(u, phase) == writer' = [writer EXCEPT ![u] = phase]
Learn(u, what) == learnt' = [learnt EXCEPT ![u] = @ \cup {what}]

-----------------------------------------------------------------------------
(* The client's requests, each one transaction on the row. *)

Reserve(u) ==
    /\ row[u].status = "none"
    /\ Cardinality(Pending) < MaxPending
    /\ ReserveCapacity(Size[u], Bytes(Pending))
    /\ row' = [row EXCEPT ![u] = [NoRow EXCEPT !.status = "reserved", !.expires = now + TTL]]
    /\ UNCHANGED <<now, writer, learnt, commit, provider, version, job>>

LeaseAlone(r, time) == Larger(r.lease, time) + Grace

\* Cleanup may start two minutes after every call that could still be running.
CleanupDeadline(r, time) == Larger(Larger(r.lease, time), r.deadline) + Grace

\* A row that ends early: with possible bytes it goes to cleanup.
Abandon(r, end, after) ==
    IF r.written
    THEN [r EXCEPT !.status = "cleanup_pending", !.lease = 0, !.after = after]
    ELSE [r EXCEPT !.status = end, !.lease = 0]

\* Any request that finds the row past its expiry and commits.
Expire(u) ==
    /\ row[u].status \in Live
    /\ row[u].expires <= now
    /\ row' = [row EXCEPT ![u] = Abandon(@, "expired", CleanupDeadline(@, now))]
    /\ UNCHANGED <<usage, now, writer, learnt, commit, provider, version, job>>

Cancel(u) ==
    /\ row[u].status \in Live
    /\ row[u].expires > now
    /\ row' = [row EXCEPT ![u] = Abandon(@, "cancelled", CleanupDeadline(@, now))]
    /\ UNCHANGED <<usage, now, writer, learnt, commit, provider, version, job>>

ClaimTransfer(u) ==
    /\ row[u].status = "reserved"
    /\ row[u].expires > now
    /\ now + Lease <= row[u].expires
    /\ row' = [row EXCEPT ![u].status = "receiving", ![u].lease = now + Lease]
    /\ WriterGoes(u, "leased")
    /\ learnt' = [learnt EXCEPT ![u] = {}]
    /\ UNCHANGED <<usage, now, commit, provider, version, job>>

-----------------------------------------------------------------------------
(* The writer. *)

RequireWriter(u) ==
    /\ row[u].status = "receiving"
    /\ row[u].lease > now
    /\ row[u].expires > now

\* The row is marked before the call leaves, and the call's budget has begun
\* before that.
StartCall(u, from, kind, completing) ==
    /\ writer[u] \in from
    /\ RequireWriter(u)
    /\ row' = [row EXCEPT ![u].written = TRUE,
                          ![u].completing = @ \/ completing,
                          ![u].deadline = now + Timeout]
    /\ WriterGoes(u, kind)
    /\ call' = [call EXCEPT ![u] = kind]
    /\ UNCHANGED <<usage, now, learnt, commit, session, object, version, job>>

StoreSingle(u) == u \notin Large /\ StartCall(u, {"leased"}, "put", TRUE)
CreateMultipart(u) == u \in Large /\ StartCall(u, {"leased"}, "create", FALSE)
UploadPart(u) == StartCall(u, {"ready"}, "part", FALSE)
CompleteMultipart(u) == StartCall(u, {"sent"}, "complete", TRUE)

RecordMultipart(u) ==
    /\ writer[u] = "created"
    /\ RequireWriter(u)
    /\ row[u].written
    /\ row' = [row EXCEPT ![u].named = TRUE]
    /\ WriterGoes(u, "ready")
    /\ UNCHANGED <<usage, now, learnt, commit, provider, version, job>>

\* A write whose answer was an error is looked up before it is given up.
Reconcile(u) ==
    /\ writer[u] = "unsure"
    /\ u \in object
    /\ WriterGoes(u, "stored")
    /\ Learn(u, "object")
    /\ UNCHANGED <<usage, now, row, commit, provider, version, job>>

\* The lease is disarmed when the transaction is known to have committed, or
\* when that is unknown; otherwise it is dropped like any other.
CompleteTransfer(u) ==
    /\ writer[u] = "stored"
    /\ RequireWriter(u)
    /\ row[u].written /\ row[u].completing
    /\ row' = [row EXCEPT ![u].status = "staged", ![u].lease = 0, ![u].evidence = TRUE]
    /\ \E phase \in {"none", "dropped"} : WriterGoes(u, phase)
    /\ UNCHANGED <<usage, now, learnt, commit, provider, version, job>>

\* Any error, a disconnect or a lost lease drops the lease object.
Drop(u) ==
    /\ writer[u] \notin {"none", "dropped"}
    /\ WriterGoes(u, "dropped")
    /\ UNCHANGED <<usage, now, row, learnt, commit, provider, version, job>>

WriterCrash(u) ==
    /\ writer[u] # "none"
    /\ WriterGoes(u, "none")
    /\ UNCHANGED <<usage, now, row, learnt, commit, provider, version, job>>

\* The task that a dropped lease leaves behind.
Fail(r, known) ==
    LET possible == r.written \/ known # {}
        deadline == IF r.deadline = 0 THEN now + Timeout ELSE r.deadline
    IN  IF possible
        THEN [r EXCEPT !.status = "cleanup_pending", !.written = TRUE, !.lease = 0,
                       !.deadline = deadline,
                       !.after = CleanupDeadline(r, Larger(now, deadline)),
                       !.named = @ \/ "session" \in known,
                       !.evidence = @ \/ "object" \in known,
                       !.completing = @ \/ "object" \in known]
        ELSE [r EXCEPT !.status = IF r.expires > now THEN "reserved" ELSE "expired",
                       !.lease = 0]

FailAnyStatus(u) ==
    /\ writer[u] = "dropped"
    /\ row' = [row EXCEPT ![u] = Fail(@, learnt[u])]
    /\ WriterGoes(u, "none")
    /\ UNCHANGED <<usage, now, learnt, commit, provider, version, job>>

FailTransfer(u) ==
    /\ writer[u] = "dropped"
    /\ row' = [row EXCEPT ![u] = IF @.status = "receiving" THEN Fail(@, learnt[u]) ELSE @]
    /\ WriterGoes(u, "none")
    /\ UNCHANGED <<usage, now, learnt, commit, provider, version, job>>

-----------------------------------------------------------------------------
(* The object store and the network in front of it. *)

Answered == [put |-> "stored", create |-> "created", part |-> "sent", complete |-> "stored"]

\* The writer learns the answer, or the answer is lost.
Answer(u) ==
    \/ /\ Waiting(u)
       /\ WriterGoes(u, Answered[call[u]])
       /\ CASE call[u] \in {"put", "complete"} -> Learn(u, "object")
            [] call[u] = "create" -> Learn(u, "session")
            [] call[u] = "part" -> UNCHANGED learnt
    \/ UNCHANGED <<writer, learnt>>

TakeEffect(u) ==
    /\ call[u] # "none"
    /\ call[u] \in {"part", "complete"} => session[u] = "open"
    /\ call' = [call EXCEPT ![u] = "none"]
    /\ object' = IF call[u] \in {"put", "complete"} THEN object \cup {u} ELSE object
    /\ session' = [session EXCEPT ![u] = CASE call[u] = "create" -> "open"
                                           [] call[u] = "complete" -> "closed"
                                           [] OTHER -> @]
    /\ Answer(u)
    /\ UNCHANGED <<usage, now, row, commit, version, job>>

\* Refused, or lost on the way.
NoEffect(u) ==
    /\ call[u] # "none"
    /\ call' = [call EXCEPT ![u] = "none"]
    /\ UNCHANGED <<usage, now, row, writer, learnt, commit, session, object, version, job>>

\* The client gives up; the call may still be on its way.
ErrorOrTimeout(u) ==
    /\ Waiting(u)
    /\ WriterGoes(u, IF writer[u] \in {"put", "complete"} THEN "unsure" ELSE "dropped")
    /\ UNCHANGED <<usage, now, row, learnt, commit, provider, version, job>>

-----------------------------------------------------------------------------
(* Publication. *)

PrepareCommit(u) ==
    /\ commit[u] = "none"
    /\ row[u].status = "staged"
    /\ row[u].expires > now
    /\ commit' = [commit EXCEPT ![u] = "prepared"]
    /\ UNCHANGED <<usage, now, row, writer, learnt, provider, version, job>>

VerifyObject(u) ==
    /\ commit[u] = "prepared"
    /\ commit' = [commit EXCEPT ![u] = IF u \in object THEN "verified" ELSE "none"]
    /\ UNCHANGED <<usage, now, row, writer, learnt, provider, version, job>>

\* The reservation stops counting in the transaction that charges its bytes.
Commit(u) ==
    /\ commit[u] = "verified"
    /\ row[u].status = "staged"
    /\ row[u].expires > now
    /\ row' = [row EXCEPT ![u].status = "committed"]
    /\ ChargeUpload(Size[u], Bytes(Pending \ {u}))
    /\ version' = version \cup {u}
    /\ commit' = [commit EXCEPT ![u] = "none"]
    /\ UNCHANGED <<now, writer, learnt, provider, job>>

CommitRefused(u) ==
    /\ commit[u] # "none"
    /\ commit' = [commit EXCEPT ![u] = "none"]
    /\ UNCHANGED <<usage, now, row, writer, learnt, provider, version, job>>

\* The rest of the organization: uploads, restores and removed versions.
OtherUse(bytes) ==
    /\ \/ ChargeUpload(bytes, Bytes(Pending))
       \/ ChargeStorage(bytes, Bytes(Pending))
       \/ /\ bytes <= stored - Bytes(version)
          /\ ReleaseStorage(bytes)
    /\ UNCHANGED <<now, row, writer, learnt, commit, provider, version, job>>

Midnight ==
    /\ daily > 0
    /\ NewDay
    /\ UNCHANGED <<now, row, writer, learnt, commit, provider, version, job>>

-----------------------------------------------------------------------------
(* The cleanup worker. *)

Sweep(u) ==
    /\ \/ row[u].status \in Live /\ row[u].expires <= now
       \/ row[u].status = "receiving" /\ row[u].lease <= now
    /\ row' = [row EXCEPT ![u] =
                 Abandon(@, "expired",
                         Larger(now, Larger(IF @.lease = 0 THEN 0 ELSE @.lease + Grace,
                                            @.deadline + Grace)))]
    /\ UNCHANGED <<usage, now, writer, learnt, commit, provider, version, job>>

Holds(w, u) == row[u].status = "cleanup_pending" /\ row[u].claim = w /\ row[u].held

Claim(w, u) ==
    /\ job[w] = Idle
    /\ row[u].status = "cleanup_pending"
    /\ row[u].after <= now
    /\ ~row[u].held
    /\ row' = [row EXCEPT ![u].claim = w, ![u].held = TRUE]
    /\ job' = [job EXCEPT ![w] =
                 [step |-> IF u \in Large \/ row[u].named THEN "list" ELSE "head",
                  upload |-> u, checked |-> FALSE, named |-> row[u].named,
                  completing |-> row[u].completing, evidence |-> row[u].evidence]]
    /\ UNCHANGED <<usage, now, writer, learnt, commit, provider, version>>

\* owns_claim, asked before a call; the claim may be lost before the call ends.
CheckClaim(w) ==
    /\ job[w].step \in {"list", "abort", "head"}
    /\ ~job[w].checked
    /\ Holds(w, job[w].upload)
    /\ job' = [job EXCEPT ![w].checked = TRUE]
    /\ UNCHANGED <<usage, now, row, writer, learnt, commit, provider, version>>

ListSessions(w) ==
    LET u == job[w].upload
        open == session[u] = "open"
    IN
    /\ job[w].step = "list"
    /\ job[w].checked
    /\ ~job[w].named /\ open => Holds(w, u)
    /\ row' = [row EXCEPT ![u].named = @ \/ (open /\ Holds(w, u))]
    /\ job' = [job EXCEPT ![w].step = IF job[w].named \/ open THEN "abort" ELSE "head",
                          ![w].named = @ \/ open,
                          ![w].checked = FALSE]
    /\ UNCHANGED <<usage, now, writer, learnt, commit, provider, version>>

AbortSession(w) ==
    LET u == job[w].upload IN
    /\ job[w].step = "abort"
    /\ job[w].checked
    /\ session' = [session EXCEPT ![u] = IF @ = "open" THEN "closed" ELSE @]
    /\ job' = [job EXCEPT ![w].step = "head", ![w].checked = FALSE]
    /\ UNCHANGED <<usage, now, row, writer, learnt, commit, call, object, version>>

\* The version found is recorded before it is deleted.
HeadFound(w) ==
    LET u == job[w].upload IN
    /\ job[w].step = "head"
    /\ job[w].checked
    /\ u \in object
    /\ Holds(w, u)
    /\ row' = [row EXCEPT ![u].evidence = TRUE]
    /\ job' = [job EXCEPT ![w].step = "delete", ![w].checked = FALSE]
    /\ UNCHANGED <<usage, now, writer, learnt, commit, provider, version>>

AbsenceSuffices(w) ==
    /\ job[w].step = "head"
    /\ job[w].checked
    /\ job[w].upload \notin object
    /\ job' = [job EXCEPT ![w].step = "settle", ![w].checked = FALSE]
    /\ UNCHANGED <<usage, now, row, writer, learnt, commit, provider, version>>

\* Absence ends the upload only if no write can be outstanding.
HeadMissing(w) ==
    /\ job[w].step = "head"
    /\ job[w].checked
    /\ job[w].upload \notin object
    /\ job[w].evidence \/ (~job[w].completing /\ job[w].named)
    /\ job' = [job EXCEPT ![w].step = "settle", ![w].checked = FALSE]
    /\ UNCHANGED <<usage, now, row, writer, learnt, commit, provider, version>>

DeleteObject(w) ==
    /\ job[w].step = "delete"
    /\ object' = object \ {job[w].upload}
    /\ job' = [job EXCEPT ![w].step = "confirm"]
    /\ UNCHANGED <<usage, now, row, writer, learnt, commit, call, session, version>>

ConfirmDeleted(w) ==
    /\ job[w].step = "confirm"
    /\ job[w].upload \notin object
    /\ job' = [job EXCEPT ![w].step = "settle"]
    /\ UNCHANGED <<usage, now, row, writer, learnt, commit, provider, version>>

Settled(r) ==
    [r EXCEPT !.status = IF r.expires <= now THEN "expired" ELSE "cancelled",
              !.written = FALSE, !.completing = FALSE, !.lease = 0, !.after = 0,
              !.claim = NoWorker, !.held = FALSE]

Settle(w) ==
    LET u == job[w].upload IN
    /\ job[w].step = "settle"
    /\ Holds(w, u)
    /\ row' = [row EXCEPT ![u] = Settled(@)]
    /\ job' = [job EXCEPT ![w] = Idle]
    /\ UNCHANGED <<usage, now, writer, learnt, commit, provider, version>>

\* A failed call, a lost claim or an unknown outcome ends the attempt; the
\* claim is given up by its holder only.
Defer(w) ==
    LET u == job[w].upload IN
    /\ job[w].step # "idle"
    /\ row' = [row EXCEPT ![u] =
                 IF @.status = "cleanup_pending" /\ @.claim = w
                 THEN [@ EXCEPT !.claim = NoWorker, !.held = FALSE] ELSE @]
    /\ job' = [job EXCEPT ![w] = Idle]
    /\ UNCHANGED <<usage, now, writer, learnt, commit, provider, version>>

WorkerCrash(w) ==
    /\ job[w].step # "idle"
    /\ job' = [job EXCEPT ![w] = Idle]
    /\ UNCHANGED <<usage, now, row, writer, learnt, commit, provider, version>>

\* The lease of a claim is shorter than the work of a stalled worker.
ClaimLapses(u) ==
    /\ row[u].held
    /\ row' = [row EXCEPT ![u].held = FALSE]
    /\ UNCHANGED <<usage, now, writer, learnt, commit, provider, version, job>>

\* A client stops waiting by the deadline of its call.
Tick ==
    /\ now < MaxTime
    /\ \A u \in Uploads : Waiting(u) => now < row[u].deadline
    /\ now' = now + 1
    /\ UNCHANGED <<usage, row, writer, learnt, commit, provider, version, job>>

-----------------------------------------------------------------------------

ClientStep(u) ==
    \/ Reserve(u) \/ Expire(u) \/ Cancel(u) \/ ClaimTransfer(u)
    \/ PrepareCommit(u) \/ VerifyObject(u) \/ Commit(u) \/ CommitRefused(u)

WriterStep(u) ==
    \/ StoreSingle(u) \/ CreateMultipart(u) \/ UploadPart(u) \/ CompleteMultipart(u)
    \/ RecordMultipart(u) \/ Reconcile(u) \/ CompleteTransfer(u)
    \/ Drop(u) \/ WriterCrash(u) \/ FailTransfer(u)

StoreStep(u) == TakeEffect(u) \/ NoEffect(u) \/ ErrorOrTimeout(u)

WorkerStep(w) ==
    \/ \E u \in Uploads : Claim(w, u)
    \/ CheckClaim(w) \/ ListSessions(w) \/ AbortSession(w)
    \/ HeadFound(w) \/ HeadMissing(w) \/ DeleteObject(w) \/ ConfirmDeleted(w)
    \/ Settle(w) \/ Defer(w) \/ WorkerCrash(w)

Next ==
    \/ \E u \in Uploads : ClientStep(u) \/ WriterStep(u) \/ StoreStep(u)
    \/ \E u \in Uploads : Sweep(u) \/ ClaimLapses(u)
    \/ \E w \in Workers : WorkerStep(w)
    \/ \E bytes \in 1..MaxSize : OtherUse(bytes)
    \/ Midnight
    \/ Tick

Spec == Init /\ [][Next]_vars

-----------------------------------------------------------------------------

\* The CHECK constraints of the table, each of which would fail a statement.
RowConstraints(r) ==
    /\ (r.status = "receiving") = (r.lease > 0)
    /\ r.status = "reserved" => ~r.written
    /\ r.completing => r.written
    /\ r.written => r.deadline > 0
    /\ r.status \in {"staged", "committed"} => r.completing /\ r.evidence
    /\ r.status \in Ended => ~r.written
    /\ r.status = "cleanup_pending" => r.after > 0
    /\ r.claim # NoWorker => r.status = "cleanup_pending"

\* Types, and the CHECK constraints of the table.
TypeOK ==
    /\ daily \in 0..DailyLimit /\ stored \in 0..StorageLimit
    /\ now \in Nat
    /\ row \in [Uploads -> [status : Statuses, written : BOOLEAN, completing : BOOLEAN,
                            named : BOOLEAN, evidence : BOOLEAN, expires : Nat, lease : Nat,
                            deadline : Nat, after : Nat, claim : Workers \cup {NoWorker},
                            held : BOOLEAN]]
    /\ \A u \in Uploads : RowConstraints(row[u])
    /\ writer \in [Uploads -> Calls \cup {"none", "leased", "created", "ready", "sent",
                                          "unsure", "stored", "dropped"}]
    /\ learnt \in [Uploads -> SUBSET {"session", "object"}]
    /\ commit \in [Uploads -> {"none", "prepared", "verified"}]
    /\ call \in [Uploads -> Calls \cup {"none"}]
    /\ session \in [Uploads -> {"none", "open", "closed"}]
    /\ object \subseteq Uploads
    /\ version \subseteq Uploads
    /\ job \in [Workers -> {Idle} \cup
                 [step : Steps, upload : Uploads, checked : BOOLEAN, named : BOOLEAN,
                  completing : BOOLEAN, evidence : BOOLEAN]]

\* No failure, late task or cleanup removes the object of a published upload,
\* whatever store calls are answered late.
PublishedStored == version \subseteq object

\* "Cancellation completed, with no remaining possible provider bytes": an
\* ended upload has no object, no open session and no call on its way that
\* could still make one.
NothingLeft ==
    \A u \in Uploads : row[u].status \in Ended =>
        u \notin object /\ session[u] # "open" /\ call[u] \notin {"put", "create"}

\* Whatever the provider holds, for uploads in any state, fits the limits
\* together with all other versions, and so does what may still be published
\* today: bytes are never counted neither as pending nor as stored.
WithinLimits ==
    /\ daily + Bytes(Pending) <= DailyLimit
    /\ stored + Bytes(Pending) <= StorageLimit
    /\ stored - Bytes(version) + Bytes(object) <= StorageLimit

\* Cleanup touches the provider only after every client has stopped waiting
\* for its own calls.
QuiescentCleanup ==
    \A w \in Workers : job[w].step # "idle" => ~Waiting(job[w].upload)

\* Cleanup waits for the last client, takes everything of an upload that has
\* ended, also what a late call could still bring, and nothing of one that was
\* published.
CleanupIsSafe == PublishedStored /\ NothingLeft /\ QuiescentCleanup
===============================================================================
