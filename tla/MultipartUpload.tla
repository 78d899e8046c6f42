---------------------------- MODULE MultipartUpload ----------------------------
(***************************************************************************)
(* Uploading a large file: the handler opens a multipart session at the     *)
(* provider, sends and records the parts one by one, lets the provider put  *)
(* them together, and publishes the result.  Two idempotency records, both  *)
(* under the client's key, cover the first and the last step; between them  *)
(* the session's row says what may still be done.                           *)
(*                                                                          *)
(* A try is one run of the handler.  All tries here carry the same request; *)
(* some may run at once.  An upload, its row and its object key are named   *)
(* by the try that reserved them, a provider session by the try that opened *)
(* it.  The bucket keeps versions, so a deletion removes one known object.  *)
(***************************************************************************)
EXTENDS Naturals, FiniteSets

CONSTANTS
    Tries,
    NoTry,
    Parts,       \* part_count of the plan
    Tag,         \* Tag[t]: the ETag of every part t sends
    Outlasting,  \* tries that may run longer than the lease of their record
    Interrupted, \* tries that may be cancelled, or whose host may crash
    LosingCommit \* tries that may miss the answer to the COMMIT of a publication

ASSUME TriesAssumption ==
    /\ NoTry \notin Tries
    /\ Parts \in Nat \ {0}
    /\ DOMAIN Tag = Tries
    /\ \A t \in Tries : Tag[t] # NoTry
    /\ Outlasting \subseteq Tries
    /\ Interrupted \subseteq Tries
    /\ LosingCommit \subseteq Tries

VARIABLES
    record,    \* status of the two idempotency records, "none" for no row
    leased,    \* those whose locked_until is still ahead
    reserved,  \* resource_id of the record of the initiation
    upload,    \* multipart_uploads.status, "none" for no row
    opened,    \* whose provider session the row names
    etag,      \* multipart_parts.etag, NoTry for no row
    overdue,   \* uploads whose expires_at has passed
    job,       \* uploads with an abort job that is not finished
    session,   \* provider sessions
    chunk,     \* ETags of the parts a session holds
    object,    \* uploads whose object is stored
    assembled, \* ETags of the parts the object was made of
    published, \* tries that published a version
    pc,        \* what a try is doing, or how it ended
    id,        \* the upload it works on
    at,        \* the part it works on
    call,      \* the call of a try the provider has not carried out
    detached,  \* tries that were dropped, whose guard cleans up on its own
    careless,  \* history: tries that ended without knowing what the provider did
    mistaken   \* history: tries whose lease ran out before they ended, or that took
               \* a COMMIT which has taken effect for one that has not

records == <<record, leased, reserved>>
row == <<upload, opened, etag, overdue, job>>
provider == <<session, chunk, object, assembled, call>>
try == <<pc, id, at, detached, careless, mistaken>>
vars == <<records, row, provider, published, try>>

Operations == {"initiate", "complete"}
Part == 1..Parts
NoParts == [p \in Part |-> NoTry]
Uploadable == {"initiated", "uploading"}
Holding(op) == IF op = "initiate" THEN {"open", "insert", "abort", "delete", "release"}
                                  ELSE {"assemble", "reconcile", "commit", "reply", "withdraw"}
Running == {"open", "insert", "inserted", "abort", "delete", "withdraw", "release", "authorize",
            "send", "save", "reabort", "prepare", "assemble", "reconcile", "commit", "reply"}
Ended == {"answered", "busy", "not_uploadable", "failed", "unknown", "crashed"}

Init ==
    /\ record = [op \in Operations |-> "none"]
    /\ leased = {}
    /\ reserved = NoTry
    /\ upload = [u \in Tries |-> "none"]
    /\ opened = [u \in Tries |-> NoTry]
    /\ etag = [u \in Tries |-> NoParts]
    /\ overdue = {}
    /\ job = {}
    /\ session = [t \in Tries |-> "none"]
    /\ chunk = [t \in Tries |-> NoParts]
    /\ object = {}
    /\ assembled = [u \in Tries |-> NoParts]
    /\ published = {}
    /\ pc = [t \in Tries |-> "new"]
    /\ id = [t \in Tries |-> NoTry]
    /\ at = [t \in Tries |-> 1]
    /\ call = [t \in Tries |-> "none"]
    /\ detached = {}
    /\ careless = {}
    /\ mistaken = {}

Goto(t, label) == pc' = [pc EXCEPT ![t] = label]
Forget(t) == careless' = careless \cup {t}

-----------------------------------------------------------------------------
(* Initiation. *)

Prepare(t, label) ==
    /\ Goto(t, label)
    /\ UNCHANGED <<row, provider, published, at, detached, careless, mistaken>>

PrepareInitiation(t) ==
    /\ pc[t] = "new"
    /\ \/ /\ record["initiate"] = "none"
          /\ record' = [record EXCEPT !["initiate"] = "in_progress"]
          /\ reserved' = t
       \/ /\ record["initiate"] = "in_progress"
          /\ "initiate" \notin leased
          /\ UNCHANGED <<record, reserved>>
    /\ leased' = leased \cup {"initiate"}
    /\ id' = [id EXCEPT ![t] = reserved']
    /\ Prepare(t, "open")

\* The receipt of the upload is replayed, and its parts are sent again.
ReplayInitiation(t) ==
    /\ pc[t] = "new"
    /\ record["initiate"] = "completed"
    /\ id' = [id EXCEPT ![t] = reserved]
    /\ UNCHANGED records
    /\ Prepare(t, "authorize")

RefuseInitiation(t) ==
    /\ pc[t] = "new"
    /\ record["initiate"] = "in_progress"
    /\ "initiate" \in leased
    /\ UNCHANGED <<records, id>>
    /\ Prepare(t, "busy")

OpenSession(t) ==
    /\ pc[t] = "open"
    /\ session' = [session EXCEPT ![t] = "open"]
    /\ Goto(t, "insert")
    /\ UNCHANGED <<records, row, chunk, object, assembled, call, published, id, at, detached, careless, mistaken>>

\* The call fails, with or without a session.
OpenFails(t) ==
    /\ pc[t] = "open"
    /\ \/ UNCHANGED <<session, careless>>
       \/ session' = [session EXCEPT ![t] = "open"] /\ Forget(t)
    /\ Goto(t, "release")
    /\ UNCHANGED <<records, row, chunk, object, assembled, call, published, id, at, detached, mistaken>>

\* The transaction needs a record in progress, whoever reserved it, and completes
\* it with the upload it has inserted.
Insert(t) ==
    /\ pc[t] = "insert"
    /\ record["initiate"] = "in_progress"
    /\ upload[id[t]] = "none"
    /\ upload' = [upload EXCEPT ![id[t]] = "initiated"]
    /\ opened' = [opened EXCEPT ![id[t]] = t]
    /\ record' = [record EXCEPT !["initiate"] = "completed"]
    /\ reserved' = id[t]
    /\ leased' = leased \ {"initiate"}
    /\ UNCHANGED <<etag, overdue, job, provider, published, id, at, detached, mistaken>>

CommitInitiation(t) ==
    /\ Insert(t)
    /\ Goto(t, "inserted")
    /\ UNCHANGED careless

\* The answer to COMMIT arrives, and the guard is disarmed: until then a dropped
\* handler aborts the session and deletes what is stored under the key.
InitiationAnswered(t) ==
    /\ pc[t] = "inserted"
    /\ Goto(t, "authorize")
    /\ UNCHANGED <<records, row, provider, published, id, at, detached, careless, mistaken>>

\* COMMIT fails before or after it has taken effect: the outcome is unknown.
LoseInitiation(t) ==
    /\ pc[t] \in {"insert", "inserted"}
    /\ Goto(t, "unknown")
    /\ UNCHANGED <<records, row, provider, published, id, at, detached, mistaken>>
    /\ Forget(t)

\* The record is gone or completed, the row exists, or a statement fails.
InsertFails(t) ==
    /\ pc[t] = "insert"
    /\ Goto(t, "abort")
    /\ UNCHANGED <<records, row, provider, published, id, at, detached, careless, mistaken>>

-----------------------------------------------------------------------------
(* The parts. *)

InTime(u) == upload[u] # "expired" /\ u \notin overdue
MayUpload(u) == upload[u] \in Uploadable /\ u \notin overdue

Authorize(t) ==
    /\ pc[t] = "authorize"
    /\ IF MayUpload(id[t])
       THEN Goto(t, "send") /\ call' = [call EXCEPT ![t] = "part"]
       ELSE Goto(t, "not_uploadable") /\ UNCHANGED call
    /\ UNCHANGED <<records, row, session, chunk, object, assembled, published, id, at, detached, careless, mistaken>>

\* A part reaches the provider while the session is open, or in spite of an
\* abort that came while it was on its way.
StorePart(t) ==
    /\ call[t] = "part"
    /\ chunk' = [chunk EXCEPT ![opened[id[t]]][at[t]] = IF session[opened[id[t]]] = "done" THEN @ ELSE Tag[t]]
    /\ call' = [call EXCEPT ![t] = "none"]
    /\ UNCHANGED <<records, row, session, object, assembled, published, try>>

PartSent(t) ==
    /\ pc[t] = "send"
    /\ call[t] = "none"
    /\ Goto(t, "save")
    /\ UNCHANGED <<records, row, provider, published, id, at, detached, careless, mistaken>>

PartFails(t) ==
    /\ pc[t] = "send"
    /\ Goto(t, "failed")
    /\ Forget(t)
    /\ UNCHANGED <<records, row, provider, published, id, at, detached, mistaken>>

\* The part is recorded and the next one follows.
RecordPart(t) ==
    /\ pc[t] = "save"
    /\ MayUpload(id[t])
    /\ etag' = [etag EXCEPT ![id[t]][at[t]] = Tag[t]]
    /\ upload' = [upload EXCEPT ![id[t]] = "uploading"]
    /\ IF at[t] = Parts
       THEN Goto(t, "prepare") /\ UNCHANGED at
       ELSE Goto(t, "authorize") /\ at' = [at EXCEPT ![t] = @ + 1]
    /\ UNCHANGED <<records, opened, overdue, job, provider, published, id, detached, careless, mistaken>>

RecordFails(t) ==
    /\ pc[t] = "save"
    /\ Goto(t, "reabort")
    /\ UNCHANGED <<records, row, provider, published, id, at, detached, careless, mistaken>>

LeaveSession(t) ==
    /\ pc[t] = "reabort"
    /\ Goto(t, "failed")
    /\ UNCHANGED <<records, row, provider, published, id, at, detached, careless, mistaken>>

\* An abort takes the parts that have arrived.
CloseSession(s) ==
    /\ session' = [session EXCEPT ![s] = IF @ = "open" THEN "aborted" ELSE @]
    /\ chunk' = [chunk EXCEPT ![s] = IF session[s] = "done" THEN @ ELSE NoParts]
    /\ UNCHANGED <<object, assembled, call>>

\* The part came too late: it may have arrived after an abort.
AbortAgain(t) ==
    /\ pc[t] = "reabort"
    /\ CloseSession(opened[id[t]])
    /\ Goto(t, "failed")
    /\ UNCHANGED <<records, row, published, id, at, detached, careless, mistaken>>

AbortAgainFails(t) ==
    /\ pc[t] = "reabort"
    /\ Goto(t, "failed")
    /\ Forget(t)
    /\ UNCHANGED <<records, row, provider, published, id, at, detached, mistaken>>

-----------------------------------------------------------------------------
(* Completion. *)

Tagged(t) == [p \in Part |-> Tag[t]]

\* One transaction takes the record and the row.
PrepareCompletion(t) ==
    /\ pc[t] = "prepare"
    /\ upload[id[t]] \in Uploadable => id[t] \notin overdue
    /\ record["complete"] = "none" \/ (record["complete"] = "in_progress" /\ "complete" \notin leased)
    /\ upload[id[t]] \in Uploadable \cup {"completing"}
    /\ etag[id[t]] = Tagged(t)
    /\ record' = [record EXCEPT !["complete"] = "in_progress"]
    /\ leased' = leased \cup {"complete"}
    /\ upload' = [upload EXCEPT ![id[t]] = "completing"]
    /\ call' = [call EXCEPT ![t] = "complete"]
    /\ Goto(t, "assemble")
    /\ UNCHANGED <<reserved, opened, etag, overdue, job, session, chunk, object, assembled,
                   published, id, at, detached, careless, mistaken>>

ReplayUnfinished(t) ==
    /\ pc[t] = "prepare"
    /\ record["complete"] # "none"
    /\ Goto(t, "answered")
    /\ UNCHANGED <<records, row, provider, published, id, at, detached, careless, mistaken>>

ReplayCompletion(t) ==
    /\ pc[t] = "prepare"
    /\ record["complete"] = "completed"
    /\ Goto(t, "answered")
    /\ UNCHANGED <<records, row, provider, published, id, at, detached, careless, mistaken>>

RefusedWithdraws(t) ==
    /\ pc[t] = "prepare"
    /\ Goto(t, "withdraw")
    /\ UNCHANGED <<records, row, provider, published, id, at, detached, careless, mistaken>>

\* Expired, in progress elsewhere, parts recorded by someone else, or an error.
CompletionRefused(t) ==
    /\ pc[t] = "prepare"
    /\ Goto(t, "failed")
    /\ UNCHANGED <<records, row, provider, published, id, at, detached, careless, mistaken>>

\* The provider puts together the parts it was told of, if it holds them.
Assemble(t) ==
    LET u == id[t] s == opened[u] IN
    /\ call[t] = "complete"
    /\ IF session[s] = "open" /\ chunk[s] = Tagged(t)
       THEN /\ session' = [session EXCEPT ![s] = "done"]
            /\ object' = object \cup {u}
            /\ assembled' = [assembled EXCEPT ![u] = chunk[s]]
       ELSE UNCHANGED <<session, object, assembled>>
    /\ call' = [call EXCEPT ![t] = "none"]
    /\ UNCHANGED <<records, row, chunk, published, try>>

\* A second completion of a session is refused, so an answer of success means
\* that this call, or one that had the same parts, made the object.
Assembled(t) ==
    /\ pc[t] = "assemble"
    /\ call[t] = "none"
    /\ id[t] \in object
    /\ Goto(t, "commit")
    /\ UNCHANGED <<records, row, provider, published, id, at, detached, careless, mistaken>>

AssembleFails(t) ==
    /\ pc[t] = "assemble"
    /\ Goto(t, "reconcile")
    /\ UNCHANGED <<records, row, provider, published, id, at, detached, careless, mistaken>>

\* An error says nothing; the object is looked for.
Reconcile(t) ==
    /\ pc[t] = "reconcile"
    /\ \/ id[t] \in object /\ Goto(t, "commit") /\ UNCHANGED careless
       \/ Goto(t, "failed") /\ Forget(t)
    /\ UNCHANGED <<records, row, provider, published, id, at, detached, mistaken>>

CommitCompletion(t) ==
    /\ pc[t] = "commit"
    /\ upload[id[t]] = "completing"
    /\ record["complete"] = "in_progress"
    /\ published' = published \cup {t}
    /\ upload' = [upload EXCEPT ![id[t]] = "completed"]
    /\ record' = [record EXCEPT !["complete"] = "completed"]
    /\ leased' = leased \ {"complete"}
    /\ Goto(t, "reply")
    /\ UNCHANGED <<reserved, opened, etag, overdue, job, provider, id, at, detached, careless, mistaken>>

Reply(t) ==
    /\ pc[t] = "reply"
    /\ Goto(t, "answered")
    /\ UNCHANGED <<records, row, provider, published, id, at, detached, careless, mistaken>>

\* The row has moved on, the record is gone, or the transaction fails; a COMMIT
\* whose answer is lost counts as one that failed.
CommitFails(t) ==
    /\ pc[t] = "commit" \/ (pc[t] = "reply" /\ t \in LosingCommit)
    /\ Goto(t, "withdraw")
    /\ mistaken' = IF pc[t] = "reply" THEN mistaken \cup {t} ELSE mistaken
    /\ UNCHANGED <<records, row, provider, published, id, at, detached, careless>>

-----------------------------------------------------------------------------
(* Compensation: first the session of a failed initiation, then the object. *)

AbortOwn(t) ==
    /\ pc[t] = "abort"
    /\ \/ CloseSession(t) /\ UNCHANGED careless
       \/ UNCHANGED provider /\ Forget(t)
    /\ Goto(t, "delete")
    /\ UNCHANGED <<records, row, published, id, at, detached, mistaken>>

\* The object of a failed completion, or the one found under the key of a
\* failed initiation, whose record goes next unless the guard acts alone.
DeleteObject(t) ==
    /\ pc[t] \in {"delete", "withdraw"}
    /\ \/ object' = object \ {id[t]} /\ UNCHANGED careless
       \/ UNCHANGED object /\ Forget(t)
    /\ Goto(t, IF pc[t] = "delete" /\ t \notin detached THEN "release" ELSE "failed")
    /\ UNCHANGED <<records, row, session, chunk, assembled, call, published, id, at, detached, mistaken>>

Release(t) ==
    /\ pc[t] = "release"
    /\ IF record["initiate"] = "in_progress"
       THEN /\ record' = [record EXCEPT !["initiate"] = "none"]
            /\ leased' = leased \ {"initiate"}
            /\ reserved' = NoTry
       ELSE UNCHANGED records
    /\ Goto(t, "failed")
    /\ UNCHANGED <<row, provider, published, id, at, detached, careless, mistaken>>

ReleaseFails(t) ==
    /\ pc[t] = "release"
    /\ Goto(t, "failed")
    /\ UNCHANGED <<records, row, provider, published, id, at, detached, careless, mistaken>>

\* The handler is dropped where it awaits: the guard cleans up, if it is armed.
Dropped(label) ==
    IF label \in {"insert", "inserted", "abort", "delete"} THEN "abort"
    ELSE IF label \in {"commit", "reply", "withdraw"} THEN "withdraw"
    ELSE "failed"

Cancel(t) ==
    /\ pc[t] \in Running
    /\ t \in Interrupted \ detached
    /\ pc[t] \in {"inserted", "reply"} => t \in LosingCommit
    /\ detached' = detached \cup {t}
    /\ mistaken' = IF pc[t] \in {"inserted", "reply"} THEN mistaken \cup {t} ELSE mistaken
    /\ Goto(t, Dropped(pc[t]))
    /\ Forget(t)
    /\ UNCHANGED <<records, row, provider, published, id, at>>

Crash(t) ==
    /\ pc[t] \in Running
    /\ t \in Interrupted
    /\ Goto(t, "crashed")
    /\ Forget(t)
    /\ UNCHANGED <<records, row, provider, published, id, at, detached, mistaken>>

-----------------------------------------------------------------------------
(* Time and the worker. *)

LeaseExpires(op) ==
    /\ op \in leased
    /\ \A t \in Tries \ Outlasting : pc[t] \notin Holding(op)
    /\ leased' = leased \ {op}
    /\ mistaken' = mistaken \cup {t \in Tries : pc[t] \in Holding(op)}
    /\ UNCHANGED <<record, reserved, row, provider, published, pc, id, at, detached, careless>>

\* Maintenance leaves the records of completions alone.
ExpireRecord ==
    /\ record["initiate"] = "in_progress"
    /\ "initiate" \notin leased
    /\ \A t \in Tries : pc[t] \notin Holding("initiate")
    /\ record' = [record EXCEPT !["initiate"] = "none"]
    /\ reserved' = NoTry
    /\ UNCHANGED <<leased, row, provider, published, try>>

Overdue(u) ==
    /\ upload[u] # "none"
    /\ u \notin overdue
    /\ overdue' = overdue \cup {u}
    /\ UNCHANGED <<records, upload, opened, etag, job, provider, published, try>>

ScheduleAbort(u) ==
    /\ upload[u] \in Uploadable
    /\ u \in overdue
    /\ upload' = [upload EXCEPT ![u] = "expired"]
    /\ job' = job \cup {u}
    /\ UNCHANGED <<records, opened, etag, overdue, provider, published, try>>

RunAbort(u) ==
    /\ u \in job
    /\ job' = job \ {u}
    /\ CloseSession(opened[u])
    /\ UNCHANGED <<records, upload, opened, etag, overdue, published, try>>

-----------------------------------------------------------------------------
Initiation(t) ==
    \/ PrepareInitiation(t) \/ ReplayInitiation(t) \/ RefuseInitiation(t)
    \/ OpenSession(t) \/ OpenFails(t) \/ CommitInitiation(t) \/ InitiationAnswered(t)
    \/ LoseInitiation(t) \/ InsertFails(t)

Transfer(t) ==
    \/ Authorize(t) \/ StorePart(t) \/ PartSent(t) \/ PartFails(t)
    \/ RecordPart(t) \/ RecordFails(t) \/ AbortAgain(t) \/ AbortAgainFails(t)

Completion(t) ==
    \/ PrepareCompletion(t) \/ ReplayCompletion(t) \/ CompletionRefused(t)
    \/ Assemble(t) \/ Assembled(t) \/ AssembleFails(t) \/ Reconcile(t)
    \/ CommitCompletion(t) \/ Reply(t) \/ CommitFails(t)

Compensation(t) ==
    AbortOwn(t) \/ DeleteObject(t) \/ Release(t) \/ ReleaseFails(t) \/ Cancel(t) \/ Crash(t)

Next ==
    \/ \E t \in Tries : Initiation(t) \/ Transfer(t) \/ Completion(t) \/ Compensation(t)
    \/ \E op \in Operations : LeaseExpires(op)
    \/ ExpireRecord
    \/ \E u \in Tries : Overdue(u) \/ ScheduleAbort(u) \/ RunAbort(u)

Spec == Init /\ [][Next]_vars

-----------------------------------------------------------------------------
\* Types, and a lease belongs to a record in progress.
TypeOK ==
    /\ record \in [Operations -> {"none", "in_progress", "completed"}]
    /\ leased \subseteq {op \in Operations : record[op] = "in_progress"}
    /\ reserved \in Tries \cup {NoTry}
    /\ upload \in [Tries -> Uploadable \cup {"none", "completing", "completed", "expired"}]
    /\ opened \in [Tries -> Tries \cup {NoTry}]
    /\ \A u \in Tries : opened[u] = NoTry <=> upload[u] = "none"
    /\ overdue \subseteq Tries
    /\ job \subseteq {u \in Tries : upload[u] = "expired"}
    /\ session \in [Tries -> {"none", "open", "aborted", "done"}]
    /\ object \subseteq Tries
    /\ published \subseteq Tries
    /\ pc \in [Tries -> {"new"} \cup Running \cup Ended]
    /\ id \in [Tries -> Tries \cup {NoTry}]
    /\ at \in [Tries -> Part]
    /\ call \in [Tries -> {"none", "part", "complete"}]
    /\ detached \subseteq Tries
    /\ careless \subseteq Tries

\* The object of a published file is in the store, whatever retries, expiries
\* and cleanups of failed tries do.
PublishedStored == \A t \in published : id[t] \in object

\* The object of a published file is lost only to a mistake: a try with its key ran
\* past its lease, or was dropped or misled while it awaited COMMIT.  Whatever else
\* tries go through, their cleanups leave it alone.
LostOnlyByMistake ==
    \A t \in published :
        id[t] \in object \/ \E s \in mistaken : id[s] = id[t]

\* A published file consists of the recorded parts: no part was recorded, or
\* exchanged at the provider, after the completion had read them.
AssembledAsRecorded ==
    \A t \in published : assembled[id[t]] = etag[id[t]] /\ etag[id[t]] = Tagged(t)

\* Parts of an upload that was given up are gone once its abort has run and
\* every try has ended, even one that arrived after the abort, unless a try
\* ended without knowing what the provider did.
StrayPartsAborted ==
    \A u \in Tries :
        (/\ upload[u] = "expired" /\ u \notin job
         /\ \A t \in Tries : id[t] = u => pc[t] \in Ended /\ t \notin careless)
            => chunk[opened[u]] = NoParts

\* What becomes of the parts: those recorded make the file, and no others stay.
PartsAccountedFor == AssembledAsRecorded /\ StrayPartsAborted

Once == INSTANCE PublishOnce WITH
            Requests <- {"complete"},
            Attempts <- Tries,
            RequestOf <- [t \in Tries |-> "complete"],
            answered <- {op \in {"complete"} : \E t \in Tries : pc[t] = "answered"}

\* The key publishes at most once and for good, and success is reported only
\* for a file that was published: see PublishOnce.
OnceSpec == Once!Spec
=============================================================================
