----------------------------- MODULE Publication ------------------------------
(***************************************************************************)
(* Publishing content: uploading a file in one request, and restoring an    *)
(* old version of it.  Both reserve an idempotency record, write an object  *)
(* to the store while no transaction is open, and then publish a version    *)
(* row that points at the object.  When publication fails, the object is    *)
(* deleted and the record released, so that the client can retry.           *)
(*                                                                          *)
(* The requests here all concern one file.  An attempt is one run of the    *)
(* handler: a client retries a request with its key, and may do so while    *)
(* an earlier attempt is still running.  The bucket keeps versions, so an   *)
(* attempt's object is told apart from others written under the same key,   *)
(* which is the identifier some attempt proposed for the record.  An upload *)
(* may take longer than its lease; a restore renews its lease.  (What the   *)
(* retry of a restore does with an object it finds under its key is the     *)
(* subject of VersionCopy.)                                                 *)
(***************************************************************************)
EXTENDS Integers, FiniteSets

CONSTANTS
    Requests,    \* idempotency keys, each with its body
    Restores,    \* the requests that restore a version; others upload
    Attempts,    \* runs of the handler
    RequestOf,   \* RequestOf[a]: the request a carries out
    Outlasting,  \* uploads whose attempts may run longer than their lease
    Interrupted, \* attempts that may be cancelled, or whose host may crash
    Abandoned,   \* those that may be cancelled even while they await COMMIT
    NoAttempt

ASSUME AttemptsAssumption ==
    /\ Restores \subseteq Requests
    /\ Outlasting \subseteq Requests \ Restores
    /\ Interrupted \subseteq Attempts
    /\ Abandoned \subseteq Interrupted
    /\ RequestOf \in [Attempts -> Requests]
    /\ NoAttempt \notin Attempts

VARIABLES
    status,   \* idempotency_records.status, "none" for no row
    resource, \* idempotency_records.resource_id, as the attempt that proposed it
    leased,   \* requests whose locked_until is still ahead
    outlived, \* history: requests whose lease ran out while an attempt was running
    pc,       \* what each attempt is doing, or how it ended
    key,      \* the object key each attempt writes under
    known,    \* attempts that have learnt the provider version of their object
    detached, \* attempts that were cancelled and left the guard's cleanup behind
    victim,   \* the object each cleanup is about to delete
    leaked,   \* history: attempts whose cleanup failed at the provider
    wire,     \* attempts whose write the provider may still carry out
    landed,   \* order in which stored objects were written, 0 when not stored
    writes,   \* objects written so far
    locker,   \* the attempt whose transaction holds the file's row lock
    draft,    \* the version number a transaction has computed
    number    \* entry_versions.version_number of a's version, 0 for no row

record == <<status, resource, leased, outlived>>
store == <<wire, landed, writes>>
file == <<locker, draft, number>>
guard == <<known, detached, victim, leaked>>
vars == <<record, pc, key, guard, store, file>>

Writing == {"put", "commit", "publish"}
Ending == {"reply", "cleanup", "delete", "release"}
Ended == {"answered", "refused", "unknown", "failed", "swept", "crashed"}

Stored(a) == landed[a] > 0
Published(a) == number[a] > 0
Versions == {a \in Attempts : Published(a)}
Existing == IF Restores = {} THEN 0 ELSE 1  \* there is a version to restore
Busy(r) == \E a \in Attempts : RequestOf[a] = r /\ pc[a] \in Writing \cup Ending

Init ==
    /\ status = [r \in Requests |-> "none"]
    /\ resource = [r \in Requests |-> NoAttempt]
    /\ leased = {}
    /\ outlived = {}
    /\ pc = [a \in Attempts |-> "new"]
    /\ key = [a \in Attempts |-> NoAttempt]
    /\ known = {}
    /\ detached = {}
    /\ victim = [a \in Attempts |-> NoAttempt]
    /\ leaked = {}
    /\ wire = {}
    /\ landed = [a \in Attempts |-> 0]
    /\ writes = 0
    /\ locker = NoAttempt
    /\ draft = [a \in Attempts |-> 0]
    /\ number = [a \in Attempts |-> 0]

\* A publishing transaction locks the record of its request too.
RecordLocked(r) == locker # NoAttempt /\ RequestOf[locker] = r

Goto(a, label) == pc' = [pc EXCEPT ![a] = label]

-----------------------------------------------------------------------------
(* Prepare: one transaction reserves, takes over or replays the record. *)

\* The transaction locks the folder and the file, so it waits for a publication
\* to end.
CanPrepare(a) == pc[a] = "new" /\ locker = NoAttempt

StartWrite(a, identifier) ==
    /\ leased' = leased \cup {RequestOf[a]}
    /\ key' = [key EXCEPT ![a] = identifier]
    /\ wire' = wire \cup {a}
    /\ Goto(a, "put")
    /\ UNCHANGED <<outlived, guard, landed, writes, file>>

Reserve(a) ==
    LET r == RequestOf[a] IN
    /\ CanPrepare(a)
    /\ status[r] = "none"
    /\ status' = [status EXCEPT ![r] = "in_progress"]
    /\ resource' = [resource EXCEPT ![r] = a]
    /\ StartWrite(a, a)

LeaseOver(r) == status[r] = "in_progress" /\ r \notin leased

\* A retry goes on under the identifier that is already reserved.
TakeOver(a) ==
    LET r == RequestOf[a] IN
    /\ CanPrepare(a)
    /\ LeaseOver(r)
    /\ StartWrite(a, resource[r])
    /\ UNCHANGED <<status, resource>>

Replay(a) ==
    /\ CanPrepare(a)
    /\ status[RequestOf[a]] = "completed"
    /\ Goto(a, "answered")
    /\ UNCHANGED <<record, key, guard, store, file>>

RefuseBusy(a) ==
    /\ CanPrepare(a)
    /\ status[RequestOf[a]] = "in_progress"
    /\ RequestOf[a] \in leased
    /\ Goto(a, "refused")
    /\ UNCHANGED <<record, key, guard, store, file>>

-----------------------------------------------------------------------------
(* The write.  What the attempt is told and what the provider does are two  *)
(* things: a write given up on may still land.                              *)

Land(a) ==
    /\ a \in wire
    /\ wire' = wire \ {a}
    /\ writes' = writes + 1
    /\ landed' = [landed EXCEPT ![a] = writes + 1]
    /\ UNCHANGED <<record, pc, key, guard, file>>

PutSucceeds(a) ==
    /\ pc[a] = "put"
    /\ a \notin wire
    /\ known' = known \cup {a}
    /\ Goto(a, "commit")
    /\ UNCHANGED <<record, key, detached, victim, leaked, store, file>>

\* The write fails, or is given up because renewing the lease failed.
PutFails(a) ==
    /\ pc[a] = "put"
    /\ Goto(a, "cleanup")
    /\ UNCHANGED <<record, key, guard, store, file>>

\* A restore renews its lease every minute, whoever holds the record now.
Renew(a) ==
    LET r == RequestOf[a] IN
    /\ pc[a] = "put"
    /\ r \in Restores
    /\ status[r] = "in_progress"
    /\ ~RecordLocked(r)
    /\ leased' = leased \cup {r}
    /\ UNCHANGED <<status, resource, outlived, pc, key, guard, store, file>>

-----------------------------------------------------------------------------
(* Publication: a transaction that locks the file's row (and, for an        *)
(* upload, the folder's), then the record.                                  *)

Reserved(r) == status[r] = "in_progress"

\* MAX(version_number) + 1.
NextNumber == LET numbers == {number[b] : b \in Attempts} \cup {Existing} IN
              1 + CHOOSE n \in numbers : \A m \in numbers : m <= n

BeginCommitUnlocked(a) ==
    /\ pc[a] = "commit"
    /\ Reserved(RequestOf[a])
    /\ locker' = a
    /\ draft' = [draft EXCEPT ![a] = NextNumber]
    /\ Goto(a, "publish")
    /\ UNCHANGED <<record, key, guard, store, number>>

BeginCommit(a) ==
    /\ pc[a] = "commit"
    /\ locker = NoAttempt
    /\ Reserved(RequestOf[a])
    /\ locker' = a
    /\ draft' = [draft EXCEPT ![a] = NextNumber]
    /\ Goto(a, "publish")
    /\ UNCHANGED <<record, key, guard, store, number>>

\* The transaction ends, if there is one.
Unlock(a) ==
    /\ locker' = IF locker = a THEN NoAttempt ELSE locker
    /\ draft' = [draft EXCEPT ![a] = 0]

CommitFailsUncleaned(a) ==
    /\ pc[a] \in {"commit", "publish"}
    /\ Goto(a, "release")
    /\ Unlock(a)
    /\ UNCHANGED <<record, key, guard, store, number>>

\* The record is gone or completed, the folder is gone, access was revoked, a
\* quota is reached, or a statement fails.
CommitFails(a) ==
    /\ pc[a] \in {"commit", "publish"}
    /\ Goto(a, "cleanup")
    /\ Unlock(a)
    /\ UNCHANGED <<record, key, guard, store, number>>

\* The number must be free: a UNIQUE constraint.
Publish(a) ==
    LET r == RequestOf[a] IN
    /\ pc[a] = "publish"
    /\ draft[a] \notin {number[b] : b \in Versions}
    /\ number' = [number EXCEPT ![a] = draft[a]]
    /\ status' = [status EXCEPT ![r] = "completed"]
    /\ leased' = leased \ {r}
    /\ Unlock(a)
    /\ Goto(a, "reply")
    /\ UNCHANGED <<resource, outlived, key, guard, store>>

Reply(a) ==
    /\ pc[a] = "reply"
    /\ Goto(a, "answered")
    /\ UNCHANGED <<record, key, guard, store, file>>

LoseCommitCompensated(a) ==
    /\ pc[a] \in {"publish", "reply"}
    /\ Goto(a, "cleanup")
    /\ Unlock(a)
    /\ UNCHANGED <<record, key, guard, store, number>>

LoseCommitAnswered(a) ==
    /\ pc[a] \in {"publish", "reply"}
    /\ Goto(a, "answered")
    /\ Unlock(a)
    /\ UNCHANGED <<record, key, guard, store, number>>

\* COMMIT fails before or after the server has executed it: the outcome is
\* unknown, and object and record stay as they are.
LoseCommit(a) ==
    /\ pc[a] \in {"publish", "reply"}
    /\ Goto(a, "unknown")
    /\ Unlock(a)
    /\ UNCHANGED <<record, key, guard, store, number>>

-----------------------------------------------------------------------------
(* Compensation. *)

\* The object found under a's key when its provider version was never learnt.
Latest(a) ==
    LET found == {b \in Attempts : Stored(b) /\ key[b] = key[a]} IN
    IF found = {} THEN NoAttempt
    ELSE CHOOSE b \in found : \A c \in found : landed[c] <= landed[b]

\* A deadline passes or the client disconnects: the handler is dropped where
\* it awaits, its transaction rolls back, and the guard cleans up on its own.
Cancel(a) ==
    /\ pc[a] \in Writing \cup {"cleanup", "delete"} \/ (pc[a] = "reply" /\ a \in Abandoned)
    /\ a \in Interrupted \ detached
    /\ detached' = detached \cup {a}
    /\ Goto(a, "cleanup")
    /\ victim' = [victim EXCEPT ![a] = NoAttempt]
    /\ Unlock(a)
    /\ UNCHANGED <<record, key, known, leaked, store, number>>

FinishCleanup(a) == Goto(a, IF a \in detached THEN "swept" ELSE "release")

Discover(a) ==
    LET found == IF a \in known THEN a ELSE Latest(a) IN
    /\ pc[a] = "cleanup"
    /\ victim' = [victim EXCEPT ![a] = found]
    /\ IF found = NoAttempt THEN FinishCleanup(a) ELSE Goto(a, "delete")
    /\ UNCHANGED <<record, key, known, detached, leaked, store, file>>

Delete(a) ==
    /\ pc[a] = "delete"
    /\ landed' = [landed EXCEPT ![victim[a]] = 0]
    /\ victim' = [victim EXCEPT ![a] = NoAttempt]
    /\ FinishCleanup(a)
    /\ UNCHANGED <<record, key, known, detached, leaked, wire, writes, file>>

\* The provider refuses the lookup or the deletion; nobody tries again.
CleanupFails(a) ==
    /\ pc[a] \in {"cleanup", "delete"}
    /\ leaked' = leaked \cup {a}
    /\ victim' = [victim EXCEPT ![a] = NoAttempt]
    /\ FinishCleanup(a)
    /\ UNCHANGED <<record, key, known, detached, store, file>>

\* The record goes if it is still in progress, whichever attempt holds it.
Release(a) ==
    LET r == RequestOf[a] IN
    /\ pc[a] = "release"
    /\ ~RecordLocked(r)
    /\ IF status[r] = "in_progress"
       THEN /\ status' = [status EXCEPT ![r] = "none"]
            /\ resource' = [resource EXCEPT ![r] = NoAttempt]
            /\ leased' = leased \ {r}
            /\ UNCHANGED outlived
       ELSE UNCHANGED record
    /\ Goto(a, "failed")
    /\ UNCHANGED <<key, guard, store, file>>

\* The database refuses, or the handler is dropped here: the lease remains.
ReleaseFails(a) ==
    /\ pc[a] = "release"
    /\ Goto(a, "failed")
    /\ UNCHANGED <<record, key, guard, store, file>>

Crash(a) ==
    /\ pc[a] \in Writing \cup Ending
    /\ a \in Interrupted
    /\ Goto(a, "crashed")
    /\ Unlock(a)
    /\ UNCHANGED <<record, key, guard, store, number>>

-----------------------------------------------------------------------------
(* Time. *)

LeaseExpires(r) ==
    /\ status[r] = "in_progress"
    /\ r \in leased
    /\ r \in Outlasting \/ ~Busy(r)
    /\ leased' = leased \ {r}
    /\ outlived' = IF Busy(r) THEN outlived \cup {r} ELSE outlived
    /\ UNCHANGED <<status, resource, pc, key, guard, store, file>>

\* A day after the last reservation, maintenance deletes an unfinished record.
ExpireRecord(r) ==
    /\ LeaseOver(r)
    /\ ~Busy(r)
    /\ status' = [status EXCEPT ![r] = "none"]
    /\ resource' = [resource EXCEPT ![r] = NoAttempt]
    /\ UNCHANGED <<leased, outlived, pc, key, guard, store, file>>

-----------------------------------------------------------------------------
Step(a) ==
    \/ Reserve(a) \/ TakeOver(a) \/ Replay(a) \/ RefuseBusy(a)
    \/ Land(a) \/ PutSucceeds(a) \/ PutFails(a) \/ Renew(a)
    \/ BeginCommit(a) \/ CommitFails(a) \/ Publish(a) \/ Reply(a) \/ LoseCommit(a)
    \/ Cancel(a) \/ Discover(a) \/ Delete(a) \/ CleanupFails(a)
    \/ Release(a) \/ ReleaseFails(a) \/ Crash(a)

Next ==
    \/ \E a \in Attempts : Step(a)
    \/ \E r \in Requests : LeaseExpires(r) \/ ExpireRecord(r)

Spec == Init /\ [][Next]_vars

-----------------------------------------------------------------------------
\* Every variable is in the range the tables allow; only a record in progress
\* is leased.
TypeOK ==
    /\ status \in [Requests -> {"none", "in_progress", "completed"}]
    /\ resource \in [Requests -> Attempts \cup {NoAttempt}]
    /\ leased \subseteq {r \in Requests : status[r] = "in_progress"}
    /\ outlived \subseteq Outlasting
    /\ pc \in [Attempts -> {"new"} \cup Writing \cup Ending \cup Ended]
    /\ key \in [Attempts -> Attempts \cup {NoAttempt}]
    /\ known \subseteq Attempts
    /\ detached \subseteq Attempts
    /\ victim \in [Attempts -> Attempts \cup {NoAttempt}]
    /\ leaked \subseteq Attempts
    /\ wire \subseteq Attempts
    /\ writes \in Nat
    /\ landed \in [Attempts -> 0..writes]
    /\ locker \in Attempts \cup {NoAttempt}
    /\ draft \in [Attempts -> Nat]
    /\ number \in [Attempts -> Nat]

\* Every version row points at an object that is in the store, whatever failed,
\* was cancelled or was retried: compensation deletes unpublished objects only.
PublishedContentStored == \A a \in Versions : Stored(a)

\* Uploads and restores of one file give its versions consecutive numbers, and
\* none of them fails because another has just used the number it computed.
VersionsNumbered ==
    /\ {number[a] : a \in Versions} = (Existing + 1)..(Existing + Cardinality(Versions))
    /\ \A a \in Attempts : pc[a] = "publish" =>
            draft[a] \notin {number[b] : b \in Versions}

\* There are two ways to lose the object of a version, and no other.  Its attempt
\* was cancelled in COMMIT, whose guard is still armed.  Or the request ran past its
\* lease and was retried under the same key, and an attempt that never learnt which
\* object it wrote cleaned up the one written last.
LostToItself(a) == a \in detached
LostToAnother(a) ==
    /\ RequestOf[a] \in outlived
    /\ \E b \in Attempts \ (known \cup {a}) : key[b] = key[a] /\ pc[b] \notin {"new", "put"}
ContentLostTwoWays ==
    \A a \in Versions : Stored(a) \/ LostToItself(a) \/ LostToAnother(a)

\* A failed attempt whose object reached the store leaves nothing behind unless
\* the provider refused the cleanup; only a lost COMMIT, a crash, or a write
\* that lands after it was given up may leave an object nobody knows of.
FailureLeavesNoObject ==
    \A a \in known \ leaked : pc[a] \in {"failed", "swept"} => ~Stored(a)

Once == INSTANCE PublishOnce WITH
            published <- Versions,
            answered <- {RequestOf[a] : a \in {b \in Attempts : pc[b] = "answered"}}

\* At most one version per request, and success is reported only for requests
\* that published: see PublishOnce.
OnceSpec == Once!Spec

-----------------------------------------------------------------------------
(* What makes these properties inductive. *)

\* The transaction that holds the file's lock is the one about to publish; the
\* number it has computed is the next one, and its record is in progress.
Locking ==
    /\ \A a \in Attempts : pc[a] = "publish" <=> locker = a
    /\ locker # NoAttempt => status[RequestOf[locker]] = "in_progress"
    /\ locker # NoAttempt => draft[locker] = Existing + Cardinality(Versions) + 1

\* A record is completed exactly when an attempt with its key has published.
Recorded ==
    /\ \A r \in Requests : status[r] = "completed" =>
            \E a \in Versions : RequestOf[a] = r
    /\ \A a \in Versions : status[RequestOf[a]] = "completed"
    /\ \A a \in Attempts : pc[a] \in {"reply", "answered"} =>
            status[RequestOf[a]] = "completed"

Numbered ==
    /\ IsFiniteSet(Versions)
    /\ {number[a] : a \in Versions} = (Existing + 1)..(Existing + Cardinality(Versions))

\* An attempt that knows its object cleans up that one.
Cleaned ==
    \A a \in known :
        /\ a \notin wire
        /\ pc[a] \notin {"new", "put"}
        /\ pc[a] = "delete" => victim[a] = a
        /\ pc[a] \in {"release", "failed", "swept"} => a \in leaked \/ ~Stored(a)

\* Until a request outlives its lease, one attempt at a time runs with its key, and
\* until that has published or given up, the record is its own.
Active == Writing \cup Ending
Exclusive ==
    \A a \in Attempts : pc[a] \in Active /\ RequestOf[a] \notin outlived =>
        /\ \A b \in Attempts : pc[b] \in Active /\ RequestOf[b] = RequestOf[a] => b = a
        /\ ~Published(a) =>
            /\ status[RequestOf[a]] = "in_progress"
            /\ RequestOf[a] \in leased

\* Object keys are not shared between requests, and a cleanup is of its own key.
Keyed ==
    /\ \A r \in Requests : status[r] # "none" =>
            resource[r] \in Attempts /\ RequestOf[resource[r]] = r
    /\ \A a \in Attempts :
        /\ pc[a] \in Active => key[a] \in Attempts
        /\ key[a] # NoAttempt => RequestOf[key[a]] = RequestOf[a]
        /\ pc[a] = "new" => key[a] = NoAttempt /\ a \notin known
        /\ a \in wire \/ Stored(a) => pc[a] # "new"
        /\ pc[a] = "delete" =>
            /\ victim[a] # NoAttempt /\ pc[victim[a]] # "new" /\ key[victim[a]] = key[a]
            /\ a \in known => victim[a] = a

\* Only an attempt that was cancelled cleans up after it has published.
Settled ==
    \A a \in Attempts :
        /\ pc[a] \in {"commit", "publish"} \/ Published(a) => a \in known
        /\ Published(a) => pc[a] \in {"reply", "answered", "unknown", "crashed"} \/ a \in detached
        /\ pc[a] = "reply" => Published(a)

\* What an attempt has written stays until it is published, and after.
Kept ==
    \A a \in Attempts :
        (pc[a] = "put" /\ a \notin wire) \/ pc[a] \in {"commit", "publish"} \/ Published(a) =>
            Stored(a) \/ LostToItself(a) \/ LostToAnother(a)

Inductive ==
    /\ TypeOK
    /\ Locking
    /\ Recorded
    /\ Numbered
    /\ Cleaned
    /\ Keyed
    /\ Settled
    /\ Exclusive
    /\ Kept

=============================================================================
