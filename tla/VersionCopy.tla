----------------------------- MODULE VersionCopy ------------------------------
(***************************************************************************)
(* The bytes of a version restore: the object of an old version is copied   *)
(* to the key of the new one, by whichever route its size and the two       *)
(* buckets call for, while no transaction is open.  Publication has the     *)
(* idempotency record and the competition for it; here one try follows      *)
(* another under one destination key, and what matters is what each         *)
(* provider call leaves there when it is answered, not answered, dropped    *)
(* with its request, or cut off by a crash.                                 *)
(*                                                                          *)
(* A call takes effect before it is answered or given up.  A destination    *)
(* key is used again only if the record was not released, and only once     *)
(* the cleanup of a dropped try is over: it has the ten minutes of the      *)
(* lease.  Losing the object to a request that is dropped while it awaits   *)
(* COMMIT is Publication's subject and left out here.                       *)
(***************************************************************************)
EXTENDS Integers, Sequences

CONSTANTS
    Routes,      \* the ways of copying to consider, a subset of AllRoutes
    LargeParts,   \* parts of a large object
    MaxTries,    \* bound: runs of the handler
    Repeats      \* bound: copies the SDK sends again, which were carried out already

AllRoutes == {"copy", "copyParts", "file", "ranges"}
ASSUME CopyAssumption ==
    /\ Routes \subseteq AllRoutes
    /\ LargeParts \in Nat \ {0} /\ MaxTries \in Nat /\ Repeats \in Nat

VARIABLES
    shape,    \* route, kind of the source's checksum, and whether the bucket keeps versions
    source,   \* the content a read of the source object returns
    objects,  \* versions under the destination key, the latest with the greatest id
    sessions, \* what the multipart session of each try holds; Closed before and after
    made,     \* objects stored so far
    job,      \* what the handler is doing
    undo,     \* cleanups that have not ended
    row,      \* the version row that was published, NoRow before
    tries,
    repeated, \* copies carried out again so far
    excused   \* history: something happened after which a failure may leave bytes

copyVars == <<shape, source, objects, sessions, made, job, undo, row, tries, repeated, excused>>

Parts == 1..LargeParts
Recorded == [n \in Parts |-> "kept"]       \* what the version row says of the source
Foreign == [n \in Parts |-> "foreign"] \* what somebody else put in its place
Closed == <<"closed">>
NoRow == [id |-> -1]
NoSession == 0
Unknown == -1

\* Large objects carry a checksum of their parts, unless one request copied them.
Shapes ==
    [route : Routes \cap {"copy", "ranges"}, sum : {"full", "composite"}, versioned : BOOLEAN]
        \cup [route : Routes \cap {"copyParts"}, sum : {"composite"}, versioned : BOOLEAN]
        \cup [route : Routes \cap {"file"}, sum : {"full"}, versioned : BOOLEAN]

Copying ==
    {"reconcile", "discard", "check", "fetch", "put", "copy", "lookAtCopy", "create",
     "fetchPart", "copyPart", "sendPart", "complete", "lookAtWhole", "adopt"}
Labels == Copying \cup {"idle", "commit", "undo", "done"}

Doing(at, parts, session, stored) ==
    [at |-> at, parts |-> parts, session |-> session, stored |-> stored]
NoJob == Doing("idle", <<>>, NoSession, NoRow)

CopyInit ==
    /\ shape \in Shapes
    /\ source = Recorded
    /\ objects = {}
    /\ sessions = [n \in 1..MaxTries |-> Closed]
    /\ made = 0
    /\ job = NoJob
    /\ undo = {}
    /\ row = NoRow
    /\ tries = 0
    /\ repeated = 0
    /\ excused = FALSE

Latest == CHOOSE o \in objects : \A p \in objects : p.id <= o.id
Remaining(id) == {o \in objects : o.id # id}
Goto(label) == job' = Doing(label, job.parts, job.session, job.stored)
GotoWith(label, o) == job' = Doing(label, job.parts, job.session, o)

-----------------------------------------------------------------------------
(* What the calls do at the provider.  The SDK repeats no write but the copy  *)
(* of a whole object and the parts, which a number identifies                 *)
(* (one_provider_write_attempt).                                              *)

StoreObject(content, sum) ==
    LET o == [id |-> IF shape.versioned THEN made + 1 ELSE 0, content |-> content, sum |-> sum] IN
    /\ objects' = IF shape.versioned THEN objects \cup {o} ELSE {o}
    /\ made' = made + 1

AnySource == TRUE
\* x-amz-copy-source-if-match, with the ETag of the checked source.
CopyAccepted == source = Recorded

TakesEffect ==
    \/ /\ job.at = "discard"
       /\ objects' = Remaining(job.stored.id)
       /\ UNCHANGED <<sessions, made>>
    \/ /\ job.at = "put" /\ StoreObject(job.parts, "full")
       /\ UNCHANGED sessions
    \/ /\ job.at = "copy" /\ CopyAccepted /\ StoreObject(source, "full")
       /\ UNCHANGED sessions
    \/ /\ job.at = "create"
       /\ sessions' = [sessions EXCEPT ![tries] = <<>>]
       /\ UNCHANGED <<objects, made>>
    \/ /\ job.at = "copyPart" /\ CopyAccepted
       /\ sessions' = [sessions EXCEPT ![job.session] = Append(@, source[Len(@) + 1])]
       /\ UNCHANGED <<objects, made>>
    \/ /\ job.at = "sendPart"
       /\ sessions' = [sessions EXCEPT ![job.session] = Append(@, job.parts[Len(job.parts)])]
       /\ UNCHANGED <<objects, made>>
    \/ /\ job.at = "complete" /\ StoreObject(sessions[job.session], "composite")
       /\ sessions' = [sessions EXCEPT ![job.session] = Closed]

NoEffect == UNCHANGED <<objects, sessions, made>>

-----------------------------------------------------------------------------
(* Cleanup: abort the session if there is one, find the version unless it   *)
(* is known, delete it.  The cleanup of an inner step comes before that of   *)
(* the request, except when both were dropped.                              *)

CleaningAt(at, session, version, turn) ==
    [at |-> at, session |-> session, version |-> version, turn |-> turn]
CleanupOf(session, version, turn) ==
    CleaningAt(IF session # NoSession THEN "abort" ELSE "find", session, version, turn)

\* The request learns the version only when the copy has been checked.
Outer(turn) == CleanupOf(NoSession, IF job.at = "commit" THEN job.stored.id ELSE Unknown, turn)

\* The step that failed cleans up after itself, then the request does.
Fail(inner) ==
    /\ undo' = inner \cup {Outer(2)}
    /\ Goto("undo")

Nothing == {}
Session(version) == {CleanupOf(job.session, version, 1)}
Object(version) == {CleanupOf(NoSession, version, 1)}

CleanupEnds(c) == undo' = undo \ {c}
CleanupGoes(c, next) == undo' = (undo \ {c}) \cup {next}

AbortSession(c) ==
    /\ c.at = "abort"
    /\ \/ sessions' = [sessions EXCEPT ![c.session] = Closed] /\ UNCHANGED excused
       \/ UNCHANGED sessions /\ excused' = TRUE
    /\ CleanupGoes(c, CleaningAt("find", c.session, c.version, c.turn))
    /\ UNCHANGED objects

FindVersion(c) ==
    /\ c.at = "find"
    /\ IF c.version # Unknown THEN CleanupGoes(c, CleaningAt("delete", c.session, c.version, c.turn))
       ELSE IF objects = {} THEN CleanupEnds(c)
       ELSE CleanupGoes(c, CleaningAt("delete", c.session, Latest.id, c.turn))
    /\ UNCHANGED <<objects, sessions, excused>>

FindFails(c) ==
    /\ c.at = "find" /\ c.version = Unknown
    /\ CleanupEnds(c)
    /\ excused' = TRUE
    /\ UNCHANGED <<objects, sessions>>

DeleteVersion(c) ==
    /\ c.at = "delete"
    /\ \/ objects' = Remaining(c.version) /\ UNCHANGED excused
       \/ UNCHANGED objects /\ excused' = TRUE
    /\ CleanupEnds(c)
    /\ UNCHANGED sessions

Cleanup ==
    \E c \in undo :
        /\ \A d \in undo : c.turn <= d.turn
        /\ AbortSession(c) \/ FindVersion(c) \/ FindFails(c) \/ DeleteVersion(c)
        /\ UNCHANGED <<shape, source, made, job, row, tries, repeated>>

-----------------------------------------------------------------------------
(* The handler. *)

BeginTry ==
    /\ job.at = "idle" /\ undo = {} /\ row = NoRow /\ tries < MaxTries
    /\ tries' = tries + 1
    /\ job' = Doing("reconcile", <<>>, NoSession, NoRow)
    /\ UNCHANGED <<shape, source, objects, sessions, made, undo, row, repeated, excused>>

FirstStep == IF shape.route = "file" THEN "fetch" ELSE "check"

IsWanted(o) == o.content = Recorded /\ o.sum = shape.sum

\* What an earlier try left under the key is taken if it is the wanted object,
\* and deleted otherwise.
ReconcileReserved ==
    /\ job.at = "reconcile"
    /\ IF objects = {} THEN Goto(FirstStep)
       ELSE GotoWith(IF IsWanted(Latest) THEN "commit" ELSE "discard", Latest)
    /\ UNCHANGED <<objects, sessions, made, undo, excused>>

Discarded ==
    /\ job.at = "discard" /\ TakesEffect
    /\ GotoWith(FirstStep, NoRow)
    /\ UNCHANGED <<undo, excused>>

\* The source is looked at first; every read after that names its ETag.
CheckSource ==
    /\ job.at = "check"
    /\ IF source = Recorded THEN Goto(IF shape.route = "copy" THEN "copy" ELSE "create") /\ UNCHANGED undo
       ELSE Fail(Nothing)
    /\ UNCHANGED <<objects, sessions, made, excused>>

FetchFile ==
    /\ job.at = "fetch"
    /\ IF source = Recorded
       THEN job' = Doing("put", source, job.session, job.stored) /\ UNCHANGED undo
       ELSE Fail(Nothing)
    /\ UNCHANGED <<objects, sessions, made, excused>>

FilePut ==
    /\ job.at = "put" /\ TakesEffect
    /\ GotoWith("commit", Latest')
    /\ UNCHANGED <<undo, excused>>

Copied ==
    /\ job.at = "copy" /\ TakesEffect
    /\ GotoWith("lookAtCopy", Latest')
    /\ UNCHANGED <<undo, excused>>

\* The SDK repeats a copy whose answer it did not get.
CopyResent ==
    /\ repeated < Repeats
    /\ job.at = "copy" /\ TakesEffect
    /\ repeated' = repeated + 1
    /\ UNCHANGED <<shape, source, job, undo, row, tries, excused>>

\* A copy whose checksum is of the other kind than the source's cannot be compared.
CopyChecked ==
    /\ job.at = "lookAtCopy"
    /\ IF shape.sum = "full" /\ Latest.content # Recorded THEN Fail(Object(job.stored.id))
       ELSE Goto("commit") /\ UNCHANGED undo
    /\ UNCHANGED <<objects, sessions, made, excused>>

FirstPart == IF shape.route = "ranges" THEN "fetchPart" ELSE "copyPart"

SessionCreated ==
    /\ job.at = "create" /\ TakesEffect
    /\ job' = Doing(FirstPart, job.parts, tries, job.stored)
    /\ UNCHANGED <<undo, excused>>

\* A ranged read states the ETag, and gets the bytes of one object or none.
FetchPart ==
    /\ job.at = "fetchPart"
    /\ IF source = Recorded
       THEN /\ job' = Doing("sendPart", Append(job.parts, source[Len(job.parts) + 1]),
                              job.session, job.stored)
            /\ UNCHANGED undo
       ELSE Fail(Session(Unknown))
    /\ UNCHANGED <<objects, sessions, made, excused>>

NextPart == Goto(IF Len(sessions'[job.session]) < LargeParts THEN FirstPart ELSE "complete")

PartCopied ==
    /\ job.at = "copyPart" /\ TakesEffect /\ NextPart
    /\ UNCHANGED <<undo, excused>>

PartSent ==
    /\ job.at = "sendPart" /\ TakesEffect /\ NextPart
    /\ UNCHANGED <<undo, excused>>

\* An object made of the parts is looked at before it is accepted.
Completed ==
    /\ job.at = "complete" /\ TakesEffect
    /\ GotoWith("lookAtWhole", Latest')
    /\ UNCHANGED <<undo, excused>>

WholeChecked ==
    /\ job.at = "lookAtWhole"
    /\ IF job.stored.content = Recorded THEN Goto("commit") /\ UNCHANGED undo
       ELSE Fail(Session(IF shape.route = "ranges" THEN Unknown ELSE job.stored.id))
    /\ UNCHANGED <<objects, sessions, made, excused>>

\* A completion that failed may have happened: between buckets the key is
\* looked at once more.
Adopt ==
    /\ job.at = "adopt"
    /\ IF objects # {} /\ Latest.content = Recorded /\ Latest.sum = "composite"
       THEN GotoWith("commit", Latest) /\ UNCHANGED undo
       ELSE Fail(Session(Unknown))
    /\ UNCHANGED <<objects, sessions, made, excused>>

\* A call fails, or its answer is lost.
CallFails ==
    /\ job.at \in Copying
    /\ TakesEffect \/ NoEffect
    /\ IF job.at \in {"complete", "lookAtWhole"} /\ shape.route = "ranges" THEN Goto("adopt") /\ UNCHANGED undo
       ELSE IF job.at \in {"put", "copy"} THEN Fail(Object(Unknown))
       ELSE IF job.at = "lookAtCopy" THEN Fail(Object(job.stored.id))
       ELSE IF job.session # NoSession THEN Fail(Session(Unknown))
       ELSE Fail(Nothing)
    \* A session whose identifier did not arrive is nobody's.
    /\ excused' = (excused \/ (job.at = "create" /\ sessions' # sessions))

\* The lease cannot be renewed.  The request cleans up while the copy is still
\* there, unpolled, and the copy's own cleanup starts when it is dropped.
RenewalFails ==
    /\ job.at \in Copying
    /\ TakesEffect \/ NoEffect
    /\ undo' = {Outer(1)} \cup (IF job.session = NoSession THEN {} ELSE {CleanupOf(job.session, Unknown, 2)})
    /\ Goto("undo")
    /\ excused' = (excused \/ (job.at = "create" /\ sessions' # sessions))

Commit ==
    /\ job.at = "commit"
    /\ row' = job.stored
    /\ Goto("done")
    /\ UNCHANGED <<objects, sessions, made, undo, excused>>

CommitFails ==
    /\ job.at = "commit"
    /\ Fail(Nothing)
    /\ UNCHANGED <<objects, sessions, made, row, excused>>

\* The answer to COMMIT is lost, so that nothing may be touched.
CommitUnknown ==
    /\ job.at = "commit"
    /\ row' \in {row, job.stored}
    /\ Goto("idle")
    /\ excused' = TRUE
    /\ UNCHANGED <<objects, sessions, made, undo>>

\* The record is released when everything has been tried, or the release fails
\* and the record lapses.
Release ==
    /\ job.at = "undo" /\ undo = {}
    /\ Goto("done") \/ Goto("idle")
    /\ UNCHANGED <<objects, sessions, made, undo, row, excused>>

\* The request is dropped: its guards clean up in tasks of their own.
Drop ==
    /\ job.at \in Copying \/ (job.at = "undo" /\ undo # {})
    /\ TakesEffect \/ NoEffect
    /\ undo' = {CleaningAt(c.at, c.session, c.version, 0) : c \in IF job.at # "undo" THEN
                  {Outer(0)} \cup (IF job.session = NoSession THEN {} ELSE Session(Unknown)) ELSE undo}
    /\ Goto("idle")
    /\ excused' = (excused \/ (job.at = "create" /\ sessions' # sessions))
    /\ UNCHANGED row

Crash ==
    /\ job.at # "done" \/ undo # {}
    /\ TakesEffect \/ NoEffect
    /\ undo' = {}
    /\ Goto("idle")
    /\ excused' = TRUE
    /\ UNCHANGED row

\* Somebody else writes to a customer's bucket.
SourceReplaced ==
    /\ source = Recorded
    /\ source' = Foreign
    /\ UNCHANGED <<shape, objects, sessions, made, job, undo, row, tries, repeated, excused>>

Work ==
    \/ ReconcileReserved \/ Discarded \/ CheckSource \/ FetchFile \/ FilePut
    \/ Copied \/ CopyChecked \/ SessionCreated \/ FetchPart \/ PartCopied \/ PartSent
    \/ Completed \/ WholeChecked \/ Adopt \/ CallFails \/ RenewalFails

CopyNext ==
    \/ BeginTry \/ CopyResent \/ Cleanup \/ SourceReplaced
    \/ /\ \/ Work /\ UNCHANGED row
          \/ Commit \/ CommitFails \/ CommitUnknown \/ Release \/ Drop \/ Crash
       /\ UNCHANGED <<shape, source, tries, repeated>>

CopySpec == CopyInit /\ [][CopyNext]_copyVars

-----------------------------------------------------------------------------
(* Properties *)

\* Types, and a key holds no more than one object where versions are not kept.
CopyTypeOK ==
    /\ shape \in Shapes
    /\ source \in {Recorded, Foreign}
    /\ job.at \in Labels
    /\ shape.versioned \/ \A o, p \in objects : o = p
    /\ tries \in 0..MaxTries /\ repeated \in 0..Repeats
    /\ excused \in BOOLEAN

\* A version that was published by a restore has an object, and it holds what
\* the restored version recorded, whatever happened to the source, to the
\* answers of the provider, and to earlier tries.
RestoredIsSource ==
    row # NoRow => \E o \in objects : o.id = row.id /\ o.content = Recorded

\* A bucket with versions keeps what the first of two copies stored, and nobody
\* has heard of it.
Doubled == shape.versioned /\ repeated > 0

\* And nothing else is under its key: what earlier tries left was taken or deleted.
RestoredAlone == row # NoRow /\ ~Doubled => \A o, p \in objects : o = p

\* A restore that failed and cleaned up has left nothing: no object that nobody
\* lists, and no session that is billed for its parts.
FailedRestoreLeavesNothing ==
    (job.at \in {"idle", "done"} /\ undo = {} /\ row = NoRow /\ ~excused /\ ~Doubled) =>
        /\ objects = {}
        /\ \A n \in DOMAIN sessions : sessions[n] = Closed

CopiesHold == CopyTypeOK /\ RestoredIsSource /\ RestoredAlone /\ FailedRestoreLeavesNothing
=============================================================================
