---------------------------- MODULE ObjectCleanup ----------------------------
(***************************************************************************)
(* Retention and physical deletion: the bin (soft delete, restore), the     *)
(* self-destruct sweep, the durable object-cleanup queue with its leased    *)
(* workers, and the finalizer that purges a deletion batch's metadata.      *)
(*                                                                          *)
(* One action is one PostgreSQL transaction or one object-store call, but   *)
(* for a restore from the bin: it checks the retention deadline of the      *)
(* entry it was asked for, under that entry's row lock, and only later      *)
(* locks and updates the entry's subtree.  Time is abstract: a deletion     *)
(* batch is either retained or due, and batches become due in the order of  *)
(* their purge_after.  A version stands for its row and for the one stored  *)
(* object that row describes.                                               *)
(***************************************************************************)
EXTENDS Integers, FiniteSets

CONSTANTS
    Folders,     \* folder entries, below the drive root
    Files,       \* file entries
    Root,        \* the drive root: a system folder, never deleted
    Home,        \* Home[e]: the folder an entry is created in
    Versions,    \* immutable file versions
    FileOf,      \* FileOf[v]: the file a version belongs to
    Initial,     \* the versions (hence files) present at the start
    Uploads,     \* multipart uploads; upload u publishes version u of a new file
    Timed,       \* files uploaded with a self-destruct timer
    Lanes,       \* cleanup slots of all workers (buffer_unordered times hosts)
    Broken,      \* versions whose provider call never succeeds
    BatchSize,   \* batches one finalizer pass considers
    MaxBatches,  \* bound on the deletion batches of a behaviour
    NoVersion,
    NoLane,
    NoEntry

Entries == Folders \cup Files
Batches == 1..MaxBatches

ASSUME EntriesAssumption ==
    /\ Folders \cap Files = {}
    /\ Root \notin Entries
    /\ Home \in [Entries -> Folders \cup {Root}]

ASSUME VersionsAssumption ==
    /\ FileOf \in [Versions -> Files]
    /\ Initial \subseteq Versions
    /\ Uploads \subseteq Versions \ Initial
    /\ \A u \in Uploads, v \in Versions : FileOf[u] = FileOf[v] /\ v # u =>
            v \notin Uploads /\ v \notin Initial
    /\ NoVersion \notin Versions

ASSUME LimitsAssumption ==
    /\ MaxBatches \in Nat
    /\ BatchSize \in Nat \ {0}
    /\ NoLane \notin Lanes
    /\ NoEntry \notin Entries

VersionJob(v) == <<"version_delete", v>>
AbortJob(u) == <<"multipart_abort", u>>
VersionJobs == {"version_delete"} \X Versions
AbortJobs == {"multipart_abort"} \X Uploads
Jobs == VersionJobs \cup AbortJobs
NoJob == <<"none", "none">>
Idle == [pc |-> "idle", job |-> NoJob]
LaneStates == {Idle} \cup [pc : {"preflight", "provider", "settle"}, job : Jobs]

VARIABLES
    state,      \* entries: "absent" (no row), "live" or "deleted"
    parent,     \* entries.parent_id
    batch,      \* entries.deletion_batch_id, 0 for NULL
    timer,      \* self_destruct_at: none, still running, or passed
    restoring,  \* the entry a restore transaction has checked and locked
    lastBatch,  \* deletion batch ids handed out so far
    dueCount,   \* batches that became due so far
    dueRank,    \* 0 while purge_after is ahead, then the order of purge_after
    versions,   \* rows of entry_versions
    current,    \* entries.current_version_id
    objects,    \* versions whose object is in the store
    upload,     \* multipart_uploads.status; aborted and expired are "stopped"
    job,        \* object_cleanup_jobs.status, "none" for no row
    token,      \* the lane whose claim wrote lease_token
    leased,     \* jobs whose lease_expires_at is still ahead
    lane,       \* what each worker slot is doing
    pass,       \* batches left in the finalizer's current pass
    late        \* history: files a restore held over their retention deadline

tree == <<state, parent, batch, timer, restoring, late>>
clock == <<lastBatch, dueCount, dueRank>>
content == <<versions, current, objects>>
queue == <<job, token, leased>>
vars == <<tree, clock, content, upload, queue, lane, pass>>

IsDue(b) == b \in Batches /\ dueRank[b] > 0
Due(e) == state[e] = "deleted" /\ IsDue(batch[e])
Rows(b) == {e \in Entries : state[e] # "absent" /\ batch[e] = b}
IsLiveFolder(p) == p = Root \/ (p \in Folders /\ state[p] = "live")
VersionsOf(S) == {v \in Versions : FileOf[v] \in S}

\* entry_closure: the entries at or below e.
Below(e) ==
    {x \in Entries :
        \A S \in SUBSET Entries :
            (e \in S /\ \A y \in Entries : parent[y] \in S => y \in S) => x \in S}

Init ==
    LET present == {FileOf[v] : v \in Initial} IN
    /\ state = [e \in Entries |->
                    IF e \in Folders \cup present THEN "live" ELSE "absent"]
    /\ parent = Home
    /\ batch = [e \in Entries |-> 0]
    /\ timer = [f \in Files |-> IF f \in present \cap Timed THEN "running" ELSE "none"]
    /\ restoring = NoEntry
    /\ late = {}
    /\ lastBatch = 0
    /\ dueCount = 0
    /\ dueRank = [b \in Batches |-> 0]
    /\ versions = Initial
    /\ current \in [Files -> Initial \cup {NoVersion}]
    /\ \A f \in Files : IF f \in present
                        THEN current[f] \in Initial /\ FileOf[current[f]] = f
                        ELSE current[f] = NoVersion
    /\ objects = Initial
    /\ upload = [u \in Uploads |-> "none"]
    /\ job = [j \in Jobs |-> "none"]
    /\ token = [j \in Jobs |-> NoLane]
    /\ leased = {}
    /\ lane = [w \in Lanes |-> Idle]
    /\ pass = {}

-----------------------------------------------------------------------------
(* The API: deletion, the bin, and content. *)

BecomeDue(b) ==
    /\ dueCount' = dueCount + 1
    /\ dueRank' = [dueRank EXCEPT ![b] = dueCount + 1]

\* Self-destructing files of the subtree form a batch of their own, already due.
ElapsedOnly(S) == {f \in S \cap Files : timer[f] = "elapsed"}
SelfDestructing(S) == {f \in S \cap Files : timer[f] # "none"}

SoftDelete(e) ==
    LET doomed == {x \in Below(e) : state[x] = "live"}
        timed == SelfDestructing(doomed)
        binned == lastBatch + 1
        permanent == lastBatch + 2
        last == IF timed = {} THEN binned ELSE permanent
    IN  /\ state[e] = "live"
        /\ restoring \notin Below(e)
        /\ last \in Batches
        /\ state' = [x \in Entries |-> IF x \in doomed THEN "deleted" ELSE state[x]]
        /\ batch' = [x \in Entries |-> IF x \in timed THEN permanent
                                       ELSE IF x \in doomed THEN binned ELSE batch[x]]
        /\ lastBatch' = last
        /\ IF timed = {} THEN UNCHANGED <<dueCount, dueRank>> ELSE BecomeDue(permanent)
        /\ UNCHANGED <<parent, timer, restoring, late, content, upload, queue, lane, pass>>

\* Only the root of a retained batch can be restored; it goes back to its
\* folder, or to the drive root when that folder is deleted.
AnyDeleted(e) == state[e] = "deleted"
AnyRetained(e) == state[e] = "deleted" /\ ~IsDue(batch[e])
IsBinRoot(e) == /\ state[e] = "deleted"
                /\ ~IsDue(batch[e])
                /\ parent[e] \in Entries => batch[parent[e]] # batch[e]

RestoreParent(e) == IF IsLiveFolder(parent[e]) THEN parent[e] ELSE Root

BeginRestore(e) ==
    /\ restoring = NoEntry
    /\ IsBinRoot(e)
    /\ restoring' = e
    /\ UNCHANGED <<state, parent, batch, timer, late, clock, content, upload, queue, lane, pass>>

FinishRestore ==
    LET e == restoring
        back == {x \in Below(e) : state[x] = "deleted" /\ batch[x] = batch[e]}
    IN  /\ e # NoEntry
        /\ state' = [x \in Entries |-> IF x \in back THEN "live" ELSE state[x]]
        /\ batch' = [x \in Entries |-> IF x \in back THEN 0 ELSE batch[x]]
        /\ parent' = [parent EXCEPT ![e] = RestoreParent(e)]
        /\ restoring' = NoEntry
        /\ UNCHANGED <<timer, late, clock, content, upload, queue, lane, pass>>

\* A capability is missing somewhere in the subtree, or the connection is lost.
RefuseRestore ==
    /\ restoring # NoEntry
    /\ restoring' = NoEntry
    /\ UNCHANGED <<state, parent, batch, timer, late, clock, content, upload, queue, lane, pass>>

MakePermanent(f) ==
    /\ state[f] = "live"
    /\ timer[f] = "running"
    /\ timer' = [timer EXCEPT ![f] = "none"]
    /\ UNCHANGED <<state, parent, batch, restoring, late, clock, content, upload, queue, lane, pass>>

\* A version gets a new UUID: no row, job or worker knows it.
IsFresh(v) == /\ v \notin versions
              /\ job[VersionJob(v)] = "none"
              /\ \A w \in Lanes : lane[w].job # VersionJob(v)

PublishVersion(v) ==
    /\ v \notin Uploads
    /\ IsFresh(v)
    /\ state[FileOf[v]] = "live"
    /\ versions' = versions \cup {v}
    /\ objects' = objects \cup {v}
    /\ current' = [current EXCEPT ![FileOf[v]] = v]
    /\ UNCHANGED <<tree, clock, upload, queue, lane, pass>>

InitiateUpload(u) ==
    /\ upload[u] = "none"
    /\ IsLiveFolder(Home[FileOf[u]])
    /\ upload' = [upload EXCEPT ![u] = "open"]
    /\ UNCHANGED <<tree, clock, content, queue, lane, pass>>

PrepareCompletion(u) ==
    /\ upload[u] = "open"
    /\ IsLiveFolder(Home[FileOf[u]])
    /\ upload' = [upload EXCEPT ![u] = "completing"]
    /\ UNCHANGED <<tree, clock, content, queue, lane, pass>>

CommitCompletion(u) ==
    LET f == FileOf[u] IN
    /\ upload[u] = "completing"
    /\ IsLiveFolder(Home[f])
    /\ state[f] = "absent"
    /\ IsFresh(u)
    /\ upload' = [upload EXCEPT ![u] = "completed"]
    /\ state' = [state EXCEPT ![f] = "live"]
    /\ parent' = [parent EXCEPT ![f] = Home[f]]
    /\ batch' = [batch EXCEPT ![f] = 0]
    /\ timer' = [timer EXCEPT ![f] = IF f \in Timed THEN "running" ELSE "none"]
    /\ versions' = versions \cup {u}
    /\ current' = [current EXCEPT ![f] = u]
    /\ objects' = objects \cup {u}
    /\ UNCHANGED <<restoring, late, clock, queue, lane, pass>>

AbortUpload(u) ==
    /\ upload[u] = "open"
    /\ job[AbortJob(u)] = "none"       \* one job per upload: a unique index
    /\ upload' = [upload EXCEPT ![u] = "stopped"]
    /\ job' = [job EXCEPT ![AbortJob(u)] = "pending"]
    /\ UNCHANGED <<tree, clock, content, token, leased, lane, pass>>

-----------------------------------------------------------------------------
(* Time. *)

RetentionElapses(b) ==
    /\ Rows(b) # {}
    /\ ~IsDue(b)
    /\ \A c \in Batches : c < b /\ Rows(c) # {} => IsDue(c)
    /\ BecomeDue(b)
    /\ late' = IF restoring \in Rows(b) THEN late \cup (Rows(b) \cap Files) ELSE late
    /\ UNCHANGED <<state, parent, batch, timer, restoring, lastBatch>>
    /\ UNCHANGED <<content, upload, queue, lane, pass>>

TimerElapses(f) ==
    /\ timer[f] = "running"
    /\ state[f] = "live"
    /\ timer' = [timer EXCEPT ![f] = "elapsed"]
    /\ UNCHANGED <<state, parent, batch, restoring, late, clock, content, upload, queue, lane, pass>>

LeaseExpires(j) ==
    /\ job[j] = "processing"
    /\ j \in leased
    /\ leased' = leased \ {j}
    /\ UNCHANGED <<tree, clock, content, upload, job, token, lane, pass>>

-----------------------------------------------------------------------------
(* The worker: sweep, schedule, claim, delete, settle. *)

SweepSelfDestruct(f) ==
    /\ timer[f] = "elapsed"
    /\ state[f] = "live"
    /\ lastBatch + 1 \in Batches
    /\ state' = [state EXCEPT ![f] = "deleted"]
    /\ batch' = [batch EXCEPT ![f] = lastBatch + 1]
    /\ lastBatch' = lastBatch + 1
    /\ BecomeDue(lastBatch + 1)
    /\ UNCHANGED <<parent, timer, restoring, late, content, upload, queue, lane, pass>>

\* The expiry of an open upload and the enqueueing of its abort are one
\* transaction; so is the enqueueing for a stopped upload that has no job.
ScheduleMultipartAbort(u) ==
    /\ upload[u] \in {"open", "stopped"}
    /\ job[AbortJob(u)] = "none"
    /\ upload' = [upload EXCEPT ![u] = "stopped"]
    /\ job' = [job EXCEPT ![AbortJob(u)] = "pending"]
    /\ UNCHANGED <<tree, clock, content, token, leased, lane, pass>>

ScheduleVersionDeletion(v) ==
    /\ v \in versions
    /\ Due(FileOf[v])
    /\ FileOf[v] # restoring
    /\ job[VersionJob(v)] = "none"
    /\ job' = [job EXCEPT ![VersionJob(v)] = "pending"]
    /\ UNCHANGED <<tree, clock, content, upload, token, leased, lane, pass>>

PendingOnly(j) == job[j] = "pending"
Claimable(j) == job[j] = "pending" \/ (job[j] = "processing" /\ j \notin leased)

ClaimOne(w, j) ==
    /\ lane[w] = Idle
    /\ Claimable(j)
    /\ job' = [job EXCEPT ![j] = "processing"]
    /\ token' = [token EXCEPT ![j] = w]
    /\ leased' = leased \cup {j}
    /\ lane' = [lane EXCEPT ![w] = [pc |-> "preflight", job |-> j]]
    /\ UNCHANGED <<tree, clock, content, upload, pass>>

InProcessing(w, j) == job[j] = "processing"
Held(w, j) == job[j] = "processing" /\ token[j] = w

\* The job leaves "processing": every such update is guarded by the lease token.
LeaveKeepingToken(w, j, status) ==
    /\ lane' = [lane EXCEPT ![w] = Idle]
    /\ job' = IF Held(w, j) THEN [job EXCEPT ![j] = status] ELSE job
    /\ UNCHANGED <<token, leased>>
Leave(w, j, status) ==
    /\ lane' = [lane EXCEPT ![w] = Idle]
    /\ IF Held(w, j)
       THEN /\ job' = [job EXCEPT ![j] = status]
            /\ token' = [token EXCEPT ![j] = NoLane]
            /\ leased' = leased \ {j}
       ELSE UNCHANGED queue

Eligible(j) ==
    IF j \in VersionJobs THEN j[2] \in versions => Due(FileOf[j[2]])
                         ELSE upload[j[2]] \in {"stopped", "gone"}

Preflight(w) ==
    LET j == lane[w].job IN
    /\ lane[w].pc = "preflight"
    /\ IF Eligible(j)
       THEN lane' = [lane EXCEPT ![w].pc = "provider"] /\ UNCHANGED queue
       ELSE Leave(w, j, "none")
    /\ UNCHANGED <<tree, clock, content, upload, pass>>

\* Success, or NotFound, which counts as success.
ProviderDeletes(w) ==
    LET j == lane[w].job IN
    /\ lane[w].pc = "provider"
    /\ j[2] \notin Broken
    /\ objects' = IF j \in VersionJobs THEN objects \ {j[2]} ELSE objects
    /\ lane' = [lane EXCEPT ![w].pc = "settle"]
    /\ UNCHANGED <<tree, clock, versions, current, upload, queue, pass>>

ErrorsCountAsDone(w) ==
    /\ lane[w].pc = "provider"
    /\ lane' = [lane EXCEPT ![w].pc = "settle"]
    /\ UNCHANGED <<tree, clock, content, upload, queue, pass>>

\* An error says nothing of whether the provider executed the call.
ProviderFails(w) ==
    LET j == lane[w].job IN
    /\ lane[w].pc = "provider"
    /\ \/ objects' = objects
       \/ j \in VersionJobs /\ j[2] \notin Broken /\ objects' = objects \ {j[2]}
    /\ Leave(w, j, "pending")
    /\ UNCHANGED <<tree, clock, versions, current, upload, pass>>

SettleMultipart(w) ==
    LET j == lane[w].job
        gone == Held(w, j) /\ upload[j[2]] = "stopped"
    IN  /\ lane[w].pc = "settle"
        /\ j \in AbortJobs
        /\ upload' = IF gone THEN [upload EXCEPT ![j[2]] = "gone"] ELSE upload
        /\ Leave(w, j, "none")
        /\ UNCHANGED <<tree, clock, content, pass>>

\* A live, superseded version loses its row; a live current one is only
\* reported (cleanup_current_version_invariant).
SettleVersion(w) ==
    LET j == lane[w].job
        v == j[2]
        f == FileOf[v]
        superseded == v \in versions /\ state[f] # "deleted" /\ current[f] # v
    IN  /\ lane[w].pc = "settle"
        /\ j \in VersionJobs
        /\ f # restoring
        /\ Leave(w, j, IF v \in versions /\ ~superseded THEN "object_deleted" ELSE "none")
        /\ versions' = IF Held(w, j) /\ superseded THEN versions \ {v} ELSE versions
        /\ UNCHANGED <<tree, clock, current, objects, upload, pass>>

Crash(w) ==
    /\ lane[w] # Idle
    /\ lane' = [lane EXCEPT ![w] = Idle]
    /\ UNCHANGED <<tree, clock, content, upload, queue, pass>>

-----------------------------------------------------------------------------
(* The finalizer: one transaction per batch, oldest purge_after first. *)

DueBatches == {b \in Batches : IsDue(b) /\ Rows(b) # {}}

StartPass ==
    /\ pass = {}
    /\ DueBatches # {}
    /\ pass' = {b \in DueBatches :
                    Cardinality({c \in DueBatches : dueRank[c] < dueRank[b]}) < BatchSize}
    /\ UNCHANGED <<tree, clock, content, upload, queue, lane>>

NextInPass(b) ==
    /\ b \in pass
    /\ \A c \in pass : dueRank[b] <= dueRank[c]
    /\ restoring \notin Rows(b)     \* the transaction locks every row of the batch

Unclaimed(b) == \E v \in versions : /\ FileOf[v] \in Rows(b)
                                    /\ job[VersionJob(v)] \in {"none", "pending"}
Unconfirmed(b) == \E v \in versions : /\ FileOf[v] \in Rows(b)
                                      /\ job[VersionJob(v)] # "object_deleted"
\* A multipart row below the batch that has not completed keeps the batch.
Pins(u, b) == /\ upload[u] \in {"open", "completing", "stopped"}
              /\ Home[FileOf[u]] \in Rows(b)

Finalizable(b) ==
    /\ Rows(b) # {}
    /\ \A e \in Rows(b) : Due(e)
    /\ ~Unconfirmed(b)
    /\ \A u \in Uploads : ~Pins(u, b)

\* entries.parent_id has no ON DELETE: a child in another batch blocks the row.
ChildOutside(b) == \E e \in Entries : /\ state[e] # "absent"
                                      /\ e \notin Rows(b)
                                      /\ parent[e] \in Rows(b)

FinalizeSkips(b) ==
    /\ NextInPass(b)
    /\ ~Finalizable(b)
    /\ pass' = pass \ {b}
    /\ UNCHANGED <<tree, clock, content, upload, queue, lane>>

\* The constraint error propagates out of the loop over the pass's batches.
FinalizeFails(b) ==
    /\ NextInPass(b)
    /\ Finalizable(b)
    /\ ChildOutside(b)
    /\ pass' = {}
    /\ UNCHANGED <<tree, clock, content, upload, queue, lane>>

FinalizePurges(b) ==
    LET rows == Rows(b)
        purged == {VersionJob(v) : v \in VersionsOf(rows)}
    IN  /\ NextInPass(b)
        /\ Finalizable(b)
        /\ ~ChildOutside(b)
        /\ state' = [e \in Entries |-> IF e \in rows THEN "absent" ELSE state[e]]
        /\ batch' = [e \in Entries |-> IF e \in rows THEN 0 ELSE batch[e]]
        /\ timer' = [f \in Files |-> IF f \in rows THEN "none" ELSE timer[f]]
        /\ versions' = versions \ VersionsOf(rows)
        /\ current' = [f \in Files |-> IF f \in rows THEN NoVersion ELSE current[f]]
        /\ upload' = [u \in Uploads |->
                        IF upload[u] = "completed"
                           /\ (Home[FileOf[u]] \in rows \/ FileOf[u] \in rows)
                        THEN "gone" ELSE upload[u]]
        /\ job' = [j \in Jobs |-> IF j \in purged THEN "none" ELSE job[j]]
        /\ token' = [j \in Jobs |-> IF j \in purged THEN NoLane ELSE token[j]]
        /\ leased' = leased \ purged
        /\ pass' = pass \ {b}
        /\ UNCHANGED <<parent, restoring, late, clock, objects, lane>>

-----------------------------------------------------------------------------
Api ==
    \/ \E e \in Entries : SoftDelete(e) \/ BeginRestore(e)
    \/ FinishRestore
    \/ RefuseRestore
    \/ \E f \in Files : MakePermanent(f)
    \/ \E v \in Versions : PublishVersion(v)
    \/ \E u \in Uploads : \/ InitiateUpload(u)
                          \/ PrepareCompletion(u)
                          \/ CommitCompletion(u)
                          \/ AbortUpload(u)

Time ==
    \/ \E b \in Batches : RetentionElapses(b)
    \/ \E f \in Files : TimerElapses(f)
    \/ \E j \in Jobs : LeaseExpires(j)

Worker ==
    \/ \E f \in Files : SweepSelfDestruct(f)
    \/ \E u \in Uploads : ScheduleMultipartAbort(u)
    \/ \E v \in Versions : ScheduleVersionDeletion(v)
    \/ \E w \in Lanes, j \in Jobs : ClaimOne(w, j)
    \/ \E w \in Lanes : \/ Preflight(w)
                        \/ ProviderDeletes(w)
                        \/ ProviderFails(w)
                        \/ SettleMultipart(w)
                        \/ SettleVersion(w)
                        \/ Crash(w)
    \/ StartPass
    \/ \E b \in Batches : FinalizeSkips(b) \/ FinalizeFails(b) \/ FinalizePurges(b)

Next == Api \/ Time \/ Worker
Spec == Init /\ [][Next]_vars

\* Clients promise nothing.  Clocks advance; the worker loop ticks forever; a
\* claim, a provider call or a settlement that keeps being possible is not
\* lost to crashes, lease losses and provider errors forever.
Works(w, j) == lane[w].job = j /\ Held(w, j)
Fairness ==
    /\ WF_vars(FinishRestore \/ RefuseRestore)
    /\ \A b \in Batches : WF_vars(RetentionElapses(b))
    /\ \A v \in Versions : WF_vars(ScheduleVersionDeletion(v))
    /\ \A u \in Uploads : WF_vars(ScheduleMultipartAbort(u))
    /\ \A j \in Jobs : /\ WF_vars(LeaseExpires(j))
                       /\ SF_vars(\E w \in Lanes : ClaimOne(w, j))
                       /\ SF_vars(\E w \in Lanes : Works(w, j) /\ Preflight(w))
                       /\ SF_vars(\E w \in Lanes : Works(w, j) /\ ProviderDeletes(w))
                       /\ SF_vars(\E w \in Lanes : /\ Works(w, j)
                                            /\ \/ SettleMultipart(w)
                                                  \/ SettleVersion(w))
    /\ WF_vars(StartPass)
    /\ WF_vars(\E b \in Batches : FinalizeSkips(b) \/ FinalizeFails(b) \/ FinalizePurges(b))
FairSpec == Spec /\ Fairness

-----------------------------------------------------------------------------
\* The CHECK constraints of the tables entries and object_cleanup_jobs.
RowChecks ==
    /\ \A e \in Entries : (state[e] = "deleted") <=> (batch[e] # 0)
    /\ \A j \in Jobs : (job[j] = "processing") <=> (token[j] # NoLane)
    /\ \A j \in leased : job[j] = "processing"

\* Types, and the CHECK constraints of the tables.
TypeOK ==
    /\ state \in [Entries -> {"absent", "live", "deleted"}]
    /\ parent \in [Entries -> Folders \cup {Root}]
    /\ batch \in [Entries -> 0..MaxBatches]
    /\ timer \in [Files -> {"none", "running", "elapsed"}]
    /\ restoring \in Entries \cup {NoEntry}
    /\ late \subseteq Files
    /\ lastBatch \in 0..MaxBatches
    /\ dueCount \in Nat
    /\ dueRank \in [Batches -> Nat]
    /\ versions \subseteq Versions
    /\ current \in [Files -> Versions \cup {NoVersion}]
    /\ objects \subseteq Versions
    /\ upload \in [Uploads -> {"none", "open", "completing", "completed", "stopped", "gone"}]
    /\ job \in [Jobs -> {"none", "pending", "processing", "object_deleted"}]
    /\ token \in [Jobs -> Lanes \cup {NoLane}]
    /\ leased \subseteq Jobs
    /\ lane \in [Lanes -> LaneStates]
    /\ pass \subseteq Batches
    /\ RowChecks

\* Whatever the workers, leases, retries and crashes do, the content of a file
\* that is live or can still be restored is in the store: schedule, preflight
\* and settlement only ever touch versions that are due.  The exception is a
\* file whose restore passed its check before the deadline and committed after.
RetainedContentStored ==
    \A v \in versions : v \in objects \/ Due(FileOf[v]) \/ FileOf[v] \in late

\* Metadata is purged only after its object: no object is left without a row.
NoOrphanedObject == objects \subseteq versions

\* A version reported object_deleted really is gone from the provider.
ConfirmedIsGone ==
    \A v \in Versions : job[VersionJob(v)] = "object_deleted" => v \notin objects

\* Settlement deletes no metadata of a retained file: a claim that reached the
\* provider is still about a version that is due when it settles, however long
\* the call took and whatever was restored meanwhile.
SettleNeverSeesLive ==
    \A w \in Lanes :
        LET f == FileOf[lane[w].job[2]] IN
        /\ lane[w].pc = "settle"
        /\ lane[w].job \in VersionJobs
        /\ lane[w].job[2] \in versions
        => Due(f) \/ f \in late

\* The provider call runs outside any transaction and may outlive its lease, so
\* two lanes may come back about one version: both find it doomed, and what the
\* first reports gone is gone when the second settles.
CallsSettleTruly == ConfirmedIsGone /\ SettleNeverSeesLive

\* "cleanup_current_version_invariant": a settlement never finds that the
\* version whose object it deleted is the current version of a live file.
CurrentVersionInvariant ==
    \A w \in Lanes, v \in versions :
        /\ lane[w].pc = "settle"
        /\ lane[w].job = VersionJob(v)
        /\ Held(w, VersionJob(v))
        => ~(state[FileOf[v]] = "live" /\ current[FileOf[v]] = v)

\* The row trigger's rule, across delete, restore and upload: no live entry
\* lies below a folder that is deleted or purged.
NoLiveBelowDeleted ==
    \A e \in Entries : state[e] = "live" => IsLiveFolder(parent[e])

\* A deleted file with a timer is never recoverable.
SelfDestructSkipsBin ==
    \A f \in Files : state[f] = "deleted" /\ timer[f] # "none" => Due(f)

\* What was deleted together is restored together or purged together.
BatchesMoveTogether ==
    [][\A b \in Batches : Rows(b) # {} /\ Rows(b)' # Rows(b) => Rows(b)' = {}]_vars

\* Only the lane holding the lease token ends a claim; a lane whose lease was
\* taken over changes nothing.  (The purge deletes confirmed jobs only.)
OnlyHolderEndsClaim ==
    [][\A j \in Jobs : job[j] = "processing" /\ job'[j] # "processing" =>
            /\ lane[token[j]].job = j
            /\ lane'[token[j]] = Idle]_vars

\* What makes the safety properties inductive.  A job exists only for a version
\* of a doomed file, one that is due or was restored too late; a lane that is
\* past its preflight works on such a version, or on one whose row is gone.
Doomed(f) == Due(f) \/ f \in late

WorkIsDoomed ==
    /\ \A v \in Versions : job[VersionJob(v)] # "none" =>
            v \in versions /\ Doomed(FileOf[v])
    /\ \A w \in Lanes, v \in versions :
            lane[w].pc \in {"provider", "settle"} /\ lane[w].job = VersionJob(v) =>
                Doomed(FileOf[v])
    /\ \A w \in Lanes, v \in Versions :
            lane[w].pc = "settle" /\ lane[w].job = VersionJob(v) => v \notin objects

\* A restore in progress keeps its entry deleted, and once its batch is due
\* every file it will bring back is known to be late.
RestoreIsTracked ==
    restoring # NoEntry =>
        /\ state[restoring] = "deleted"
        /\ IsDue(batch[restoring]) =>
                \A f \in Files : batch[f] = batch[restoring] => f \in late

RowsAgree ==
    /\ \A v \in versions : state[FileOf[v]] # "absent"
    /\ \A e \in Entries : batch[e] <= lastBatch

Inductive ==
    /\ TypeOK
    /\ RowsAgree
    /\ RestoreIsTracked
    /\ WorkIsDoomed
    /\ RetainedContentStored
    /\ NoOrphanedObject
    /\ ConfirmedIsGone

\* What makes BatchesMoveTogether hold: a batch that can still be restored hangs
\* together below its root, so that a restore of the root finds every row of it,
\* and a batch being restored stays so, though it may become due meanwhile.
HangsBelow(e, b) ==
    /\ \A y \in Rows(b) \ {e} : parent[y] \in Rows(b)
    /\ \A S \in SUBSET Entries :
            (e \in S /\ \A y \in Rows(b) : parent[y] \in S => y \in S) => Rows(b) \subseteq S

BatchesAreWhole ==
    /\ NoLiveBelowDeleted
    /\ \A b \in Batches : \A e \in Rows(b) :
            ~IsDue(b) /\ parent[e] \notin Rows(b) => HangsBelow(e, b)
    /\ restoring # NoEntry => HangsBelow(restoring, batch[restoring])

\* A multipart upload below a deleted folder that nobody completes or aborts.
Stuck == \E u \in Uploads : /\ upload[u] = "completing"
                            /\ ~IsLiveFolder(Home[FileOf[u]])

\* Every due batch is eventually purged, unless a multipart upload stuck in
\* 'completing' below a deleted folder holds it (see DueBatchesPurged).
DuePurgedUnlessStuck ==
    \A b \in Batches : (IsDue(b) /\ Rows(b) # {}) ~> (Rows(b) = {} \/ Stuck)

\* "For any file deleted, they should be stored in the bin for 45 days before
\* being permanently discarded."
DueBatchesPurged ==
    \A b \in Batches : (IsDue(b) /\ Rows(b) # {}) ~> (Rows(b) = {})

\* The finalizer "permanently retires deletion batches whose exact objects are
\* all gone": one batch that cannot be deleted does not keep the others.
ConfirmedBatchesRetired ==
    \A b \in Batches :
        (Rows(b) # {} /\ Finalizable(b) /\ ~ChildOutside(b)) ~> (Rows(b) = {})
=============================================================================
