------------------------ MODULE ObjectCleanup_proofs -------------------------
(***************************************************************************)
(* Safety of retention and cleanup for any number of entries, versions,     *)
(* uploads and lanes.  The invariant is Inductive: jobs, and lanes past     *)
(* their preflight, only ever concern versions that are doomed, and a file  *)
(* stops being due in one way only, by a restore that was in flight when    *)
(* its batch became due, which RestoreIsTracked follows.  HangsBelow joins  *)
(* it for the deletion batches, which leave and come back as a whole.       *)
(***************************************************************************)
EXTENDS ObjectCleanup, TLAPS

USE EntriesAssumption, VersionsAssumption, LimitsAssumption

\* The two kinds of jobs are distinct, and a version has one job.
LEMMA JobFacts ==
    /\ \A v \in Versions : VersionJob(v) \in Jobs
    /\ \A u \in Uploads : AbortJob(u) \in Jobs
    /\ \A v \in Versions, u \in Uploads : VersionJob(v) # AbortJob(u)
    /\ \A v, x \in Versions : VersionJob(v) = VersionJob(x) => v = x
    /\ \A j \in VersionJobs : j[2] \in Versions /\ j = VersionJob(j[2])
    /\ \A j \in AbortJobs : j[2] \in Uploads /\ j = AbortJob(j[2])
    /\ \A v \in Versions : NoJob # VersionJob(v) /\ VersionJob(v)[2] = v
    /\ \A v \in Versions : VersionJob(v) \in VersionJobs /\ VersionJob(v) \notin AbortJobs
    /\ \A j \in Jobs : j \in VersionJobs \/ j \in AbortJobs
  BY DEF VersionJob, AbortJob, VersionJobs, AbortJobs, Jobs, NoJob

\* A lane is idle or works on a job; every step of a lane keeps it so.
LEMMA LaneFacts ==
    ASSUME TypeOK, NEW w \in Lanes
    PROVE  /\ [lane EXCEPT ![w] = Idle] \in [Lanes -> LaneStates]
           /\ lane[w].pc # "idle" =>
                /\ lane[w].job \in Jobs
                /\ \A p \in {"preflight", "provider", "settle"} :
                        [lane EXCEPT ![w].pc = p] \in [Lanes -> LaneStates]
<1>1. lane \in [Lanes -> LaneStates]
  BY DEF TypeOK
<1>2. Idle \in LaneStates /\ Idle.pc = "idle"
  BY DEF LaneStates, Idle
<1>3. ASSUME lane[w].pc # "idle", NEW p \in {"preflight", "provider", "settle"}
      PROVE  lane[w].job \in Jobs /\ [lane[w] EXCEPT !.pc = p] \in LaneStates
  <2>1. lane[w] \in [pc : {"preflight", "provider", "settle"}, job : Jobs]
    BY <1>1, <1>2, <1>3 DEF LaneStates
  <2> QED BY <2>1 DEF LaneStates
<1>4. ASSUME lane[w].pc # "idle", NEW p \in {"preflight", "provider", "settle"}
      PROVE  [lane EXCEPT ![w].pc = p] \in [Lanes -> LaneStates]
  BY <1>1, <1>3, <1>4
<1> QED BY <1>1, <1>2, <1>3, <1>4

\* Leave keeps the queue well typed, whoever holds the job's lease.
LEMMA LeaveTypes ==
    ASSUME TypeOK, NEW w \in Lanes, NEW j \in Jobs,
           NEW status \in {"none", "pending", "object_deleted"},
           Leave(w, j, status)
    PROVE  /\ lane' \in [Lanes -> LaneStates]
           /\ job' \in [Jobs -> {"none", "pending", "processing", "object_deleted"}]
           /\ token' \in [Jobs -> Lanes \cup {NoLane}]
           /\ leased' \subseteq Jobs
           /\ \A i \in Jobs : (job'[i] = "processing") <=> (token'[i] # NoLane)
           /\ \A i \in leased' : job'[i] = "processing"
<1>1. lane' \in [Lanes -> LaneStates]
  BY LaneFacts DEF Leave
<1>2. CASE Held(w, j)
  BY <1>1, <1>2 DEF Leave, TypeOK, RowChecks
<1>3. CASE ~Held(w, j)
  BY <1>1, <1>3 DEF Leave, TypeOK, RowChecks, queue
<1> QED BY <1>2, <1>3

\* Every initial state satisfies the invariant.
LEMMA InitInductive == Init => Inductive
<1> SUFFICES ASSUME Init PROVE Inductive
  OBVIOUS
<1>1. TypeOK
  <2>1. lane \in [Lanes -> LaneStates]
    BY DEF Init, Idle, LaneStates
  <2>2. current \in [Files -> Versions \cup {NoVersion}]
    BY DEF Init
  <2> QED BY <2>1, <2>2, JobFacts DEF Init, TypeOK, RowChecks, LaneStates, Entries, Batches
<1>2. RowsAgree
  BY DEF Init, RowsAgree, Entries
<1>3. RestoreIsTracked
  BY DEF Init, RestoreIsTracked
<1>4. WorkIsDoomed
  BY JobFacts DEF Init, WorkIsDoomed, Idle
<1>5. RetainedContentStored /\ NoOrphanedObject /\ ConfirmedIsGone
  BY JobFacts DEF Init, RetainedContentStored, NoOrphanedObject, ConfirmedIsGone
<1> QED BY <1>1, <1>2, <1>3, <1>4, <1>5 DEF Inductive

\* A deletion takes live rows only, into batches that are not due: no job or lane
\* concerns them, and no restore is tracking them.
LEMMA SoftDeleteKeeps ==
    ASSUME Inductive, NEW e \in Entries, SoftDelete(e)
    PROVE  Inductive'
<1>1. TypeOK'
  <2> DEFINE doomed == {x \in Below(e) : state[x] = "live"}
             timed == SelfDestructing(doomed)
             last == IF timed = {} THEN lastBatch + 1 ELSE lastBatch + 2
  <2>1. TypeOK
    BY DEF Inductive
  <2>2. last \in Batches /\ lastBatch' = last
    BY DEF SoftDelete
  <2>3. last \in 1..MaxBatches /\ lastBatch + 1 \in 1..MaxBatches
    BY <2>1, <2>2 DEF Batches, TypeOK
  <2>4. state' \in [Entries -> {"absent", "live", "deleted"}]
    BY <2>1 DEF SoftDelete, TypeOK
  <2>5. /\ batch' \in [Entries -> 0..MaxBatches]
        /\ \A x \in Entries : (state'[x] = "deleted") <=> (batch'[x] # 0)
    <3> HIDE DEF doomed, timed
    <3>1. timed \subseteq doomed
      BY DEF timed, SelfDestructing
    <3>2. timed # {} => lastBatch + 2 \in 1..MaxBatches
      BY <2>3 DEF timed
    <3>3. state' = [x \in Entries |-> IF x \in doomed THEN "deleted" ELSE state[x]]
      BY DEF SoftDelete, doomed
    <3>4. batch' = [x \in Entries |-> IF x \in timed THEN lastBatch + 2
                                     ELSE IF x \in doomed THEN lastBatch + 1 ELSE batch[x]]
      BY DEF SoftDelete, doomed, timed
    <3> QED BY <2>1, <2>3, <3>1, <3>2, <3>3, <3>4 DEF TypeOK, RowChecks
  <2>6. dueCount' \in Nat /\ dueRank' \in [Batches -> Nat]
    BY <2>1 DEF SoftDelete, BecomeDue, TypeOK
  <2>7. lastBatch' \in 0..MaxBatches
    BY <2>2, <2>3
  <2>8. UNCHANGED <<parent, timer, restoring, late, content, upload, queue, lane, pass>>
    BY DEF SoftDelete
  <2> HIDE DEF doomed, timed, last
  <2> QED BY <2>1, <2>4, <2>5, <2>6, <2>7, <2>8 DEF TypeOK, RowChecks, content, queue
<1>2. RowsAgree'
  BY DEF SoftDelete, Inductive, TypeOK, RowsAgree, content, Entries,
        LaneStates
<1>3. RestoreIsTracked'
  BY DEF SoftDelete, SelfDestructing, BecomeDue, Inductive, TypeOK,
        RestoreIsTracked, RowsAgree, IsDue, Entries
<1>4. WorkIsDoomed'
  BY DEF SoftDelete, SelfDestructing, BecomeDue, Inductive, TypeOK,
        WorkIsDoomed, Doomed, Due, IsDue, content, queue, Entries
<1>5. RetainedContentStored'
  BY DEF SoftDelete, SelfDestructing, BecomeDue, Inductive, TypeOK,
        RetainedContentStored, Due, IsDue, content, Entries
<1>6. NoOrphanedObject' /\ ConfirmedIsGone'
  BY DEF SoftDelete, Inductive, NoOrphanedObject, ConfirmedIsGone, content,
        queue
<1> QED BY <1>1, <1>2, <1>3, <1>4, <1>5, <1>6 DEF Inductive

\* A restore starts while its batch is not due, which is what it is tracked by.
LEMMA BeginRestoreKeeps ==
    ASSUME Inductive, NEW e \in Entries, BeginRestore(e)
    PROVE  Inductive'
<1>1. TypeOK'
  BY DEF BeginRestore, Inductive, TypeOK, RowChecks, clock, content, queue
<1>2. RestoreIsTracked'
  BY DEF BeginRestore, IsBinRoot, RestoreIsTracked, IsDue, clock
<1>3. /\ RowsAgree'
      /\ WorkIsDoomed'
      /\ RetainedContentStored'
      /\ NoOrphanedObject'
      /\ ConfirmedIsGone'
  BY DEF BeginRestore, IsBinRoot, Inductive, TypeOK, RowsAgree, WorkIsDoomed,
        RetainedContentStored, NoOrphanedObject, ConfirmedIsGone, Doomed, Due,
        IsDue, clock, content, queue
<1> QED BY <1>1, <1>2, <1>3 DEF Inductive

\* A batch that fell due under its restore comes back late: the one way a file
\* stops being due, and the one exception the invariant allows.
LEMMA FinishRestoreKeeps ==
    ASSUME Inductive, FinishRestore
    PROVE  Inductive'
<1>1. TypeOK'
  BY DEF FinishRestore, RestoreParent, Inductive, TypeOK, RowChecks, clock,
        content, queue
<1>2. RowsAgree'
  BY DEF FinishRestore, Inductive, TypeOK, RowsAgree, clock, content, Entries
<1>3. RestoreIsTracked'
  BY DEF FinishRestore, RestoreIsTracked
<1>4. WorkIsDoomed'
  BY DEF FinishRestore, RestoreParent, IsLiveFolder, Inductive, TypeOK,
        WorkIsDoomed, RowChecks, RestoreIsTracked, Doomed, Due, IsDue, clock,
        content, queue, Entries
<1>5. RetainedContentStored'
  BY DEF FinishRestore, RestoreParent, IsLiveFolder, Inductive, TypeOK,
        RetainedContentStored, RowChecks, RowsAgree, RestoreIsTracked, Due,
        IsDue, clock, content, Entries
<1>6. NoOrphanedObject' /\ ConfirmedIsGone'
  BY DEF FinishRestore, Inductive, NoOrphanedObject, ConfirmedIsGone, content,
        queue
<1> QED BY <1>1, <1>2, <1>3, <1>4, <1>5, <1>6 DEF Inductive

\* Giving a restore up leaves every row as it was.
LEMMA RefuseRestoreKeeps ==
    ASSUME Inductive, RefuseRestore
    PROVE  Inductive'
<1>1. TypeOK'
  BY DEF RefuseRestore, Inductive, TypeOK, RowChecks, clock, content, queue
<1>2. RestoreIsTracked'
  BY DEF RefuseRestore, RestoreIsTracked
<1>3. /\ RowsAgree'
      /\ WorkIsDoomed'
      /\ RetainedContentStored'
      /\ NoOrphanedObject'
      /\ ConfirmedIsGone'
  BY DEF RefuseRestore, Inductive, TypeOK, RowsAgree, WorkIsDoomed,
        RetainedContentStored, NoOrphanedObject, ConfirmedIsGone, Doomed, Due,
        IsDue, clock, content, queue
<1> QED BY <1>1, <1>2, <1>3 DEF Inductive

\* Removing a timer concerns no row the invariant speaks of.
LEMMA MakePermanentKeeps ==
    ASSUME Inductive, NEW f \in Files, MakePermanent(f)
    PROVE  Inductive'
<1>1. TypeOK'
  BY DEF MakePermanent, Inductive, TypeOK, RowChecks, clock, content, queue
<1>2. /\ RowsAgree'
      /\ RestoreIsTracked'
      /\ WorkIsDoomed'
      /\ RetainedContentStored'
      /\ NoOrphanedObject'
      /\ ConfirmedIsGone'
  BY DEF MakePermanent, Inductive, TypeOK, RowsAgree, RestoreIsTracked,
        WorkIsDoomed, RetainedContentStored, NoOrphanedObject,
        ConfirmedIsGone, Doomed, Due, IsDue, clock, content, queue
<1> QED BY <1>1, <1>2 DEF Inductive

\* A published version is fresh: no job names it and its object is its own.
LEMMA PublishVersionKeeps ==
    ASSUME Inductive, NEW v \in Versions, PublishVersion(v)
    PROVE  Inductive'
<1>1. TypeOK'
  BY DEF PublishVersion, IsFresh, Inductive, TypeOK, RowChecks, tree, clock,
        queue
<1>2. RowsAgree'
  BY DEF PublishVersion, Inductive, RowsAgree, tree, clock
<1>3. WorkIsDoomed'
  BY DEF PublishVersion, IsFresh, Inductive, WorkIsDoomed, Doomed, Due, IsDue,
        tree, clock, queue
<1>4. RetainedContentStored'
  BY DEF PublishVersion, IsFresh, Inductive, RetainedContentStored, Due,
        IsDue, tree, clock
<1>5. NoOrphanedObject'
  BY DEF PublishVersion, Inductive, NoOrphanedObject
<1>6. ConfirmedIsGone'
  BY DEF PublishVersion, IsFresh, Inductive, ConfirmedIsGone, queue
<1>7. RestoreIsTracked'
  BY DEF PublishVersion, Inductive, RestoreIsTracked, IsDue, tree, clock
<1> QED BY <1>1, <1>2, <1>3, <1>4, <1>5, <1>6, <1>7 DEF Inductive

\* A new session has no version yet.
LEMMA InitiateUploadKeeps ==
    ASSUME Inductive, NEW u \in Uploads, InitiateUpload(u)
    PROVE  Inductive'
<1>1. TypeOK'
  BY DEF InitiateUpload, Inductive, TypeOK, RowChecks, tree, clock, content,
        queue
<1>2. /\ RowsAgree'
      /\ RestoreIsTracked'
      /\ WorkIsDoomed'
      /\ RetainedContentStored'
      /\ NoOrphanedObject'
      /\ ConfirmedIsGone'
  BY DEF InitiateUpload, Inductive, TypeOK, RowsAgree, RestoreIsTracked,
        WorkIsDoomed, RetainedContentStored, NoOrphanedObject,
        ConfirmedIsGone, Doomed, Due, IsDue, tree, clock, content, queue
<1> QED BY <1>1, <1>2 DEF Inductive

\* Preparing a completion changes the session alone.
LEMMA PrepareCompletionKeeps ==
    ASSUME Inductive, NEW u \in Uploads, PrepareCompletion(u)
    PROVE  Inductive'
<1>1. TypeOK'
  BY DEF PrepareCompletion, Inductive, TypeOK, RowChecks, tree, clock,
        content, queue
<1>2. /\ RowsAgree'
      /\ RestoreIsTracked'
      /\ WorkIsDoomed'
      /\ RetainedContentStored'
      /\ NoOrphanedObject'
      /\ ConfirmedIsGone'
  BY DEF PrepareCompletion, Inductive, TypeOK, RowsAgree, RestoreIsTracked,
        WorkIsDoomed, RetainedContentStored, NoOrphanedObject,
        ConfirmedIsGone, Doomed, Due, IsDue, tree, clock, content, queue
<1> QED BY <1>1, <1>2 DEF Inductive

\* A completion publishes a fresh version of a file that had none.
LEMMA CommitCompletionKeeps ==
    ASSUME Inductive, NEW u \in Uploads, CommitCompletion(u)
    PROVE  Inductive'
<1>1. TypeOK'
  BY DEF CommitCompletion, IsFresh, Inductive, TypeOK, RowChecks, clock,
        queue, Entries
<1>2. RowsAgree'
  BY DEF CommitCompletion, Inductive, TypeOK, RowsAgree, clock, Entries
<1>3. RestoreIsTracked'
  BY DEF CommitCompletion, IsFresh, IsLiveFolder, Inductive, TypeOK,
        RestoreIsTracked, RowChecks, IsDue, clock
<1>4. WorkIsDoomed'
  BY DEF CommitCompletion, IsFresh, IsLiveFolder, Inductive, TypeOK,
        WorkIsDoomed, Doomed, Due, IsDue, clock, queue
<1>5. RetainedContentStored'
  BY DEF CommitCompletion, IsFresh, IsLiveFolder, Inductive,
        RetainedContentStored, Due, IsDue, clock
<1>6. NoOrphanedObject'
  BY DEF CommitCompletion, Inductive, NoOrphanedObject
<1>7. ConfirmedIsGone'
  BY DEF CommitCompletion, IsFresh, Inductive, ConfirmedIsGone, queue
<1> QED BY <1>1, <1>2, <1>3, <1>4, <1>5, <1>6, <1>7 DEF Inductive

\* An aborted session queues a job about an upload, never about a version.
LEMMA AbortUploadKeeps ==
    ASSUME Inductive, NEW u \in Uploads, AbortUpload(u)
    PROVE  Inductive'
<1>1. TypeOK'
  BY JobFacts DEF AbortUpload, Inductive, TypeOK, RowChecks, tree, clock,
        content
<1>2. WorkIsDoomed'
  BY JobFacts DEF AbortUpload, Inductive, WorkIsDoomed, Doomed, Due, IsDue,
        tree, clock, content
<1>3. ConfirmedIsGone'
  BY DEF AbortUpload, Inductive, ConfirmedIsGone, content
<1>4. /\ RowsAgree'
      /\ RestoreIsTracked'
      /\ RetainedContentStored'
      /\ NoOrphanedObject'
  BY DEF AbortUpload, Inductive, RowsAgree, RestoreIsTracked,
        RetainedContentStored, NoOrphanedObject, Due, IsDue, tree, clock,
        content
<1> QED BY <1>1, <1>2, <1>3, <1>4 DEF Inductive

\* When a batch falls due its files become doomed, but for those a restore holds.
LEMMA RetentionElapsesKeeps ==
    ASSUME Inductive, NEW b \in Batches, RetentionElapses(b)
    PROVE  Inductive'
<1>1. TypeOK'
  BY DEF RetentionElapses, BecomeDue, Inductive, TypeOK, RowChecks, content,
        queue
<1>2. RestoreIsTracked'
  BY DEF RetentionElapses, BecomeDue, Rows, Inductive, TypeOK,
        RestoreIsTracked, RowChecks, IsDue, Entries
<1>3. WorkIsDoomed'
  BY DEF RetentionElapses, BecomeDue, Rows, Inductive, WorkIsDoomed, Doomed,
        Due, IsDue, content, queue
<1>4. RetainedContentStored'
  BY DEF RetentionElapses, BecomeDue, Rows, Inductive, RetainedContentStored,
        Due, IsDue, content
<1>5. RowsAgree' /\ NoOrphanedObject' /\ ConfirmedIsGone'
  BY DEF RetentionElapses, Inductive, RowsAgree, NoOrphanedObject,
        ConfirmedIsGone, content, queue
<1> QED BY <1>1, <1>2, <1>3, <1>4, <1>5 DEF Inductive

\* An elapsed timer deletes nothing by itself.
LEMMA TimerElapsesKeeps ==
    ASSUME Inductive, NEW f \in Files, TimerElapses(f)
    PROVE  Inductive'
<1>1. TypeOK'
  BY DEF TimerElapses, Inductive, TypeOK, RowChecks, clock, content, queue
<1>2. /\ RowsAgree'
      /\ RestoreIsTracked'
      /\ WorkIsDoomed'
      /\ RetainedContentStored'
      /\ NoOrphanedObject'
      /\ ConfirmedIsGone'
  BY DEF TimerElapses, Inductive, TypeOK, RowsAgree, RestoreIsTracked,
        WorkIsDoomed, RetainedContentStored, NoOrphanedObject,
        ConfirmedIsGone, Doomed, Due, IsDue, clock, content, queue
<1> QED BY <1>1, <1>2 DEF Inductive

\* Losing a lease leaves the job and its lane where they were.
LEMMA LeaseExpiresKeeps ==
    ASSUME Inductive, NEW j \in Jobs, LeaseExpires(j)
    PROVE  Inductive'
<1>1. TypeOK'
  BY DEF LeaseExpires, Inductive, TypeOK, RowChecks, tree, clock, content
<1>2. /\ RowsAgree'
      /\ RestoreIsTracked'
      /\ WorkIsDoomed'
      /\ RetainedContentStored'
      /\ NoOrphanedObject'
      /\ ConfirmedIsGone'
  BY DEF LeaseExpires, Inductive, TypeOK, RowsAgree, RestoreIsTracked,
        WorkIsDoomed, RetainedContentStored, NoOrphanedObject,
        ConfirmedIsGone, Doomed, Due, IsDue, tree, clock, content
<1> QED BY <1>1, <1>2 DEF Inductive

\* The sweep takes a live file, so no job or lane concerns its versions yet.
LEMMA SweepSelfDestructKeeps ==
    ASSUME Inductive, NEW f \in Files, SweepSelfDestruct(f)
    PROVE  Inductive'
<1>1. TypeOK'
  BY DEF SweepSelfDestruct, BecomeDue, Inductive, TypeOK, RowChecks, content,
        queue, Entries, Batches
<1>2. RowsAgree'
  BY DEF SweepSelfDestruct, Inductive, TypeOK, RowsAgree, content
<1>3. RestoreIsTracked'
  BY DEF SweepSelfDestruct, BecomeDue, Inductive, TypeOK, RestoreIsTracked,
        RowsAgree, IsDue
<1>4. WorkIsDoomed'
  BY DEF SweepSelfDestruct, BecomeDue, Inductive, TypeOK, WorkIsDoomed,
        Doomed, Due, IsDue, content, queue
<1>5. RetainedContentStored'
  BY DEF SweepSelfDestruct, BecomeDue, Inductive, TypeOK,
        RetainedContentStored, Due, IsDue, content
<1>6. NoOrphanedObject' /\ ConfirmedIsGone'
  BY DEF SweepSelfDestruct, Inductive, NoOrphanedObject, ConfirmedIsGone,
        content, queue
<1> QED BY <1>1, <1>2, <1>3, <1>4, <1>5, <1>6 DEF Inductive

\* Expiry of a session queues a job about an upload, never about a version.
LEMMA ScheduleMultipartAbortKeeps ==
    ASSUME Inductive, NEW u \in Uploads, ScheduleMultipartAbort(u)
    PROVE  Inductive'
<1>1. TypeOK'
  BY JobFacts DEF ScheduleMultipartAbort, Inductive, TypeOK, RowChecks, tree,
        clock, content
<1>2. WorkIsDoomed'
  BY JobFacts DEF ScheduleMultipartAbort, Inductive, WorkIsDoomed, Doomed,
        Due, IsDue, tree, clock, content
<1>3. ConfirmedIsGone'
  BY DEF ScheduleMultipartAbort, Inductive, ConfirmedIsGone, content
<1>4. /\ RowsAgree'
      /\ RestoreIsTracked'
      /\ RetainedContentStored'
      /\ NoOrphanedObject'
  BY DEF ScheduleMultipartAbort, Inductive, RowsAgree, RestoreIsTracked,
        RetainedContentStored, NoOrphanedObject, Due, IsDue, tree, clock,
        content
<1> QED BY <1>1, <1>2, <1>3, <1>4 DEF Inductive

\* A version is queued because its file is due.
LEMMA ScheduleVersionDeletionKeeps ==
    ASSUME Inductive, NEW v \in Versions, ScheduleVersionDeletion(v)
    PROVE  Inductive'
<1>1. TypeOK'
  BY JobFacts DEF ScheduleVersionDeletion, Inductive, TypeOK, RowChecks, tree,
        clock, content
<1>2. WorkIsDoomed'
  BY JobFacts DEF ScheduleVersionDeletion, Inductive, WorkIsDoomed, Doomed,
        Due, IsDue, tree, clock, content
<1>3. ConfirmedIsGone'
  BY DEF ScheduleVersionDeletion, Inductive, ConfirmedIsGone, content
<1>4. /\ RowsAgree'
      /\ RestoreIsTracked'
      /\ RetainedContentStored'
      /\ NoOrphanedObject'
  BY DEF ScheduleVersionDeletion, Inductive, RowsAgree, RestoreIsTracked,
        RetainedContentStored, NoOrphanedObject, Due, IsDue, tree, clock,
        content
<1> QED BY <1>1, <1>2, <1>3, <1>4 DEF Inductive

\* A claim takes over a job that was already about a doomed version.
LEMMA ClaimOneKeeps ==
    ASSUME Inductive, NEW w \in Lanes, NEW j \in Jobs, ClaimOne(w, j)
    PROVE  Inductive'
<1>1. TypeOK'
  BY DEF ClaimOne, Claimable, Idle, Inductive, TypeOK, RowChecks, tree, clock,
        content, LaneStates
<1>2. WorkIsDoomed'
  BY DEF ClaimOne, Claimable, Idle, Inductive, WorkIsDoomed, Doomed, Due,
        IsDue, tree, clock, content
<1>3. ConfirmedIsGone'
  BY DEF ClaimOne, Inductive, ConfirmedIsGone, content
<1>4. /\ RowsAgree'
      /\ RestoreIsTracked'
      /\ RetainedContentStored'
      /\ NoOrphanedObject'
  BY DEF ClaimOne, Claimable, Idle, Inductive, TypeOK, RowsAgree,
        RestoreIsTracked, RetainedContentStored, NoOrphanedObject, Due, IsDue,
        tree, clock, content
<1> QED BY <1>1, <1>2, <1>3, <1>4 DEF Inductive

\* A lane passes its preflight only about a doomed version: the job it holds was
\* doomed when it was queued, and the preflight reads that it still is.
LEMMA PreflightKeeps ==
    ASSUME Inductive, NEW w \in Lanes, Preflight(w)
    PROVE  Inductive'
<1>1. TypeOK'
  <2>1. TypeOK /\ lane[w].job \in Jobs
    BY LaneFacts DEF Preflight, Inductive
  <2>2. CASE Eligible(lane[w].job)
    <3>1. lane' \in [Lanes -> LaneStates]
      BY ZenonT(40), <2>1, <2>2, LaneFacts DEF Preflight
    <3> QED BY <2>1, <2>2, <3>1 DEF Preflight, TypeOK, RowChecks, tree, clock, content, queue
  <2>3. CASE ~Eligible(lane[w].job)
    <3>1. Leave(w, lane[w].job, "none")
      BY <2>3 DEF Preflight
    <3> QED BY <2>1, <3>1, LeaveTypes DEF Preflight, TypeOK, RowChecks, tree, clock, content
  <2> QED BY <2>2, <2>3
<1>2. WorkIsDoomed'
  <2> DEFINE j == lane[w].job
  <2>1. CASE Eligible(j)
    <3>1. /\ lane' = [lane EXCEPT ![w].pc = "provider"]
          /\ UNCHANGED <<state, batch, dueRank, late, versions, objects, job>>
      BY <2>1 DEF Preflight, tree, clock, content, queue
    <3>2. lane'[w].job = j /\ lane'[w].pc = "provider" /\ \A x \in Lanes \ {w} : lane'[x] = lane[x]
      BY <3>1 DEF Inductive, TypeOK
    <3>3. \A v \in versions : j = VersionJob(v) => Doomed(FileOf[v])
      BY <2>1, JobFacts DEF Eligible, Inductive, TypeOK, Doomed
    <3>4. \A f \in Files : Doomed(f)' = Doomed(f)
      BY <3>1 DEF Doomed, Due, IsDue
    <3>5. \A v \in versions : FileOf[v] \in Files
      BY DEF Inductive, TypeOK
    <3> QED BY <3>1, <3>2, <3>3, <3>4, <3>5 DEF Inductive, WorkIsDoomed
  <2>2. CASE ~Eligible(j)
    <3>1. Leave(w, j, "none") /\ UNCHANGED <<state, batch, dueRank, late, versions, objects>>
      BY <2>2 DEF Preflight, tree, clock, content, queue
    <3>2. lane'[w] = Idle /\ \A x \in Lanes \ {w} : lane'[x] = lane[x]
      BY <3>1 DEF Leave, Inductive, TypeOK
    <3>3. \A v \in Versions : job'[VersionJob(v)] # "none" => job[VersionJob(v)] # "none"
      BY <3>1, JobFacts DEF Leave, queue, Inductive, TypeOK
    <3>4. \A f \in Files : Doomed(f)' = Doomed(f)
      BY <3>1 DEF Doomed, Due, IsDue
    <3> QED BY <3>1, <3>2, <3>3, <3>4 DEF Inductive, TypeOK, WorkIsDoomed, Idle
  <2> QED BY <2>1, <2>2
<1>3. ConfirmedIsGone'
  BY JobFacts DEF Preflight, Leave, Inductive, TypeOK, ConfirmedIsGone,
        content, queue
<1>4. /\ RowsAgree'
      /\ RestoreIsTracked'
      /\ RetainedContentStored'
      /\ NoOrphanedObject'
  BY DEF Preflight, Eligible, Leave, Held, Idle, Inductive, TypeOK, RowsAgree,
        RestoreIsTracked, RetainedContentStored, NoOrphanedObject, Due, IsDue,
        tree, clock, content
<1> QED BY <1>1, <1>2, <1>3, <1>4 DEF Inductive

\* The object that goes is that of a doomed version.
LEMMA ProviderDeletesKeeps ==
    ASSUME Inductive, NEW w \in Lanes, ProviderDeletes(w)
    PROVE  Inductive'
<1>1. TypeOK'
  <2>1. TypeOK /\ lane' \in [Lanes -> LaneStates]
    BY LaneFacts DEF ProviderDeletes, Inductive
  <2> QED BY <2>1 DEF ProviderDeletes, TypeOK, RowChecks, tree, clock, content, queue
<1>2. WorkIsDoomed'
  BY JobFacts DEF ProviderDeletes, Inductive, WorkIsDoomed, Doomed, Due,
        IsDue, tree, clock, queue
<1>3. RetainedContentStored'
  BY JobFacts DEF ProviderDeletes, Inductive, TypeOK, RetainedContentStored,
        WorkIsDoomed, Doomed, Due, IsDue, tree, clock
<1>4. NoOrphanedObject'
  BY DEF ProviderDeletes, Inductive, NoOrphanedObject
<1>5. ConfirmedIsGone'
  BY DEF ProviderDeletes, Inductive, ConfirmedIsGone, queue
<1>6. RowsAgree' /\ RestoreIsTracked'
  BY DEF ProviderDeletes, Inductive, RowsAgree, RestoreIsTracked, IsDue, tree,
        clock
<1> QED BY <1>1, <1>2, <1>3, <1>4, <1>5, <1>6 DEF Inductive

\* A failed call puts the job back, whether or not the object is gone.
LEMMA ProviderFailsKeeps ==
    ASSUME Inductive, NEW w \in Lanes, ProviderFails(w)
    PROVE  Inductive'
<1>1. TypeOK'
  <2>1. TypeOK /\ lane[w].job \in Jobs
    BY LaneFacts DEF ProviderFails, Inductive
  <2> QED BY <2>1, LeaveTypes DEF ProviderFails, TypeOK, RowChecks, tree, clock
<1>2. WorkIsDoomed'
  BY JobFacts DEF ProviderFails, Leave, Held, Idle, Inductive, TypeOK,
        WorkIsDoomed, Doomed, Due, IsDue, tree, clock, queue
<1>3. RetainedContentStored'
  BY JobFacts DEF ProviderFails, Leave, Held, Idle, Inductive, TypeOK,
        RetainedContentStored, RowChecks, RowsAgree, WorkIsDoomed, Doomed,
        Due, IsDue, tree, clock
<1>4. NoOrphanedObject'
  BY DEF ProviderFails, Inductive, NoOrphanedObject
<1>5. ConfirmedIsGone'
  BY JobFacts DEF ProviderFails, Leave, Inductive, TypeOK, ConfirmedIsGone,
        queue
<1>6. RowsAgree' /\ RestoreIsTracked'
  BY DEF ProviderFails, Leave, Held, Idle, Inductive, RowsAgree,
        RestoreIsTracked, IsDue, tree, clock
<1> QED BY <1>1, <1>2, <1>3, <1>4, <1>5, <1>6 DEF Inductive

\* Settling an abort concerns an upload, never a version.
LEMMA SettleMultipartKeeps ==
    ASSUME Inductive, NEW w \in Lanes, SettleMultipart(w)
    PROVE  Inductive'
<1>1. TypeOK'
  <2>1. TypeOK /\ lane[w].job \in Jobs
    BY LaneFacts DEF SettleMultipart, Inductive
  <2> QED BY <2>1, LeaveTypes DEF SettleMultipart, TypeOK, RowChecks, tree, clock, content
<1>2. WorkIsDoomed'
  BY JobFacts DEF SettleMultipart, Leave, Held, Idle, Inductive, TypeOK,
        WorkIsDoomed, Doomed, Due, IsDue, tree, clock, content, queue
<1>3. ConfirmedIsGone'
  BY JobFacts DEF SettleMultipart, Leave, Inductive, TypeOK, ConfirmedIsGone,
        content, queue
<1>4. /\ RowsAgree'
      /\ RestoreIsTracked'
      /\ RetainedContentStored'
      /\ NoOrphanedObject'
  BY DEF SettleMultipart, Leave, Held, Idle, Inductive, TypeOK, RowsAgree,
        RestoreIsTracked, RetainedContentStored, NoOrphanedObject, Due, IsDue,
        tree, clock, content
<1> QED BY <1>1, <1>2, <1>3, <1>4 DEF Inductive

\* Only a version whose object is gone is confirmed or loses its row.
LEMMA SettleVersionKeeps ==
    ASSUME Inductive, NEW w \in Lanes, SettleVersion(w)
    PROVE  Inductive'
<1>1. TypeOK'
  <2>1. TypeOK /\ lane[w].job \in Jobs
    BY LaneFacts DEF SettleVersion, Inductive
  <2> QED BY <2>1, LeaveTypes DEF SettleVersion, TypeOK, RowChecks, tree, clock
<1>2. RowsAgree'
  BY DEF SettleVersion, Inductive, RowsAgree, tree, clock
<1>3. WorkIsDoomed'
  BY JobFacts DEF SettleVersion, Leave, Held, Idle, Inductive, TypeOK,
        WorkIsDoomed, Doomed, Due, IsDue, tree, clock, queue
<1>4. RetainedContentStored'
  BY DEF SettleVersion, Leave, Held, Idle, Inductive, RetainedContentStored,
        Due, IsDue, tree, clock
<1>5. NoOrphanedObject'
  BY JobFacts DEF SettleVersion, Leave, Inductive, NoOrphanedObject,
        WorkIsDoomed
<1>6. ConfirmedIsGone'
  BY JobFacts DEF SettleVersion, Leave, Held, Idle, Inductive, TypeOK,
        ConfirmedIsGone, WorkIsDoomed, queue
<1>7. RestoreIsTracked'
  BY DEF SettleVersion, Leave, Inductive, RestoreIsTracked, IsDue, tree, clock
<1> QED BY <1>1, <1>2, <1>3, <1>4, <1>5, <1>6, <1>7 DEF Inductive

\* A lane that stops forgets its job, whose row stays.
LEMMA CrashKeeps ==
    ASSUME Inductive, NEW w \in Lanes, Crash(w)
    PROVE  Inductive'
<1>1. TypeOK'
  BY DEF Crash, Idle, Inductive, TypeOK, RowChecks, tree, clock, content,
        queue, LaneStates
<1>2. WorkIsDoomed'
  BY DEF Crash, Idle, Inductive, WorkIsDoomed, Doomed, Due, IsDue, tree,
        clock, content, queue
<1>3. /\ RowsAgree'
      /\ RestoreIsTracked'
      /\ RetainedContentStored'
      /\ NoOrphanedObject'
      /\ ConfirmedIsGone'
  BY DEF Crash, Idle, Inductive, TypeOK, RowsAgree, RestoreIsTracked,
        RetainedContentStored, NoOrphanedObject, ConfirmedIsGone, Due, IsDue,
        tree, clock, content, queue
<1> QED BY <1>1, <1>2, <1>3 DEF Inductive

\* Listing the due batches changes no row.
LEMMA StartPassKeeps ==
    ASSUME Inductive, StartPass
    PROVE  Inductive'
<1>1. TypeOK'
  BY DEF StartPass, DueBatches, Inductive, TypeOK, RowChecks, tree, clock,
        content, queue
<1>2. /\ RowsAgree'
      /\ RestoreIsTracked'
      /\ WorkIsDoomed'
      /\ RetainedContentStored'
      /\ NoOrphanedObject'
      /\ ConfirmedIsGone'
  BY DEF StartPass, DueBatches, Inductive, TypeOK, RowsAgree,
        RestoreIsTracked, WorkIsDoomed, RetainedContentStored,
        NoOrphanedObject, ConfirmedIsGone, Doomed, Due, IsDue, tree, clock,
        content, queue
<1> QED BY <1>1, <1>2 DEF Inductive

\* Skipping a batch changes no row.
LEMMA FinalizeSkipsKeeps ==
    ASSUME Inductive, NEW b \in Batches, FinalizeSkips(b)
    PROVE  Inductive'
<1>1. TypeOK'
  BY DEF FinalizeSkips, Inductive, TypeOK, RowChecks, tree, clock, content,
        queue
<1>2. /\ RowsAgree'
      /\ RestoreIsTracked'
      /\ WorkIsDoomed'
      /\ RetainedContentStored'
      /\ NoOrphanedObject'
      /\ ConfirmedIsGone'
  BY DEF FinalizeSkips, Inductive, TypeOK, RowsAgree, RestoreIsTracked,
        WorkIsDoomed, RetainedContentStored, NoOrphanedObject,
        ConfirmedIsGone, Doomed, Due, IsDue, tree, clock, content, queue
<1> QED BY <1>1, <1>2 DEF Inductive

\* A pass that ends in an error changes no row.
LEMMA FinalizeFailsKeeps ==
    ASSUME Inductive, NEW b \in Batches, FinalizeFails(b)
    PROVE  Inductive'
<1>1. TypeOK'
  BY DEF FinalizeFails, Inductive, TypeOK, RowChecks, tree, clock, content,
        queue
<1>2. /\ RowsAgree'
      /\ RestoreIsTracked'
      /\ WorkIsDoomed'
      /\ RetainedContentStored'
      /\ NoOrphanedObject'
      /\ ConfirmedIsGone'
  BY DEF FinalizeFails, Inductive, TypeOK, RowsAgree, RestoreIsTracked,
        WorkIsDoomed, RetainedContentStored, NoOrphanedObject,
        ConfirmedIsGone, Doomed, Due, IsDue, tree, clock, content, queue
<1> QED BY <1>1, <1>2 DEF Inductive

\* A purge drops rows whose versions are all confirmed gone, and their jobs.
LEMMA FinalizePurgesKeeps ==
    ASSUME Inductive, NEW b \in Batches, FinalizePurges(b)
    PROVE  Inductive'
<1>1. TypeOK'
  BY DEF FinalizePurges, NextInPass, Finalizable, Unconfirmed, Rows,
        VersionsOf, Inductive, TypeOK, RowChecks, clock
<1>2. RowsAgree'
  BY DEF FinalizePurges, NextInPass, Finalizable, Unconfirmed, Rows,
        VersionsOf, Inductive, TypeOK, RowsAgree, clock, Entries
<1>3. RestoreIsTracked'
  BY DEF FinalizePurges, NextInPass, Finalizable, Unconfirmed, Rows,
        VersionsOf, Inductive, TypeOK, RestoreIsTracked, RowChecks, IsDue,
        clock, Entries
<1>4. WorkIsDoomed'
  BY JobFacts DEF FinalizePurges, NextInPass, Finalizable, Unconfirmed, Rows,
        VersionsOf, Inductive, TypeOK, WorkIsDoomed, Doomed, Due, IsDue,
        clock, Entries
<1>5. RetainedContentStored'
  BY DEF FinalizePurges, NextInPass, Finalizable, Unconfirmed, Rows,
        VersionsOf, Inductive, TypeOK, RetainedContentStored, Due, IsDue,
        clock, Entries
<1>6. NoOrphanedObject'
  BY DEF FinalizePurges, Finalizable, Unconfirmed, VersionsOf, Inductive,
        NoOrphanedObject, ConfirmedIsGone
<1>7. ConfirmedIsGone'
  BY JobFacts DEF FinalizePurges, Inductive, ConfirmedIsGone
<1> QED BY <1>1, <1>2, <1>3, <1>4, <1>5, <1>6, <1>7 DEF Inductive

\* A step that changes nothing keeps it.
LEMMA StutterKeeps ==
    ASSUME Inductive, UNCHANGED vars
    PROVE  Inductive'
  BY DEF Inductive, vars, tree, clock, content, queue, TypeOK, RowChecks, RowsAgree,
         RestoreIsTracked, WorkIsDoomed, RetainedContentStored, NoOrphanedObject,
         ConfirmedIsGone, Doomed, Due, IsDue

\* Every step of the API, of the clocks and of the workers keeps the invariant.
LEMMA StepInductive == Inductive /\ [Next]_vars => Inductive'
<1> SUFFICES ASSUME Inductive, [Next]_vars PROVE Inductive'
  OBVIOUS
<1>1. CASE Api
  <2>1. ASSUME NEW e \in Entries, SoftDelete(e) \/ BeginRestore(e) PROVE Inductive'
    BY <2>1, SoftDeleteKeeps, BeginRestoreKeeps
  <2>2. ASSUME NEW u \in Uploads,
               \/ InitiateUpload(u) \/ PrepareCompletion(u)
               \/ CommitCompletion(u) \/ AbortUpload(u)
        PROVE  Inductive'
    BY <2>2, InitiateUploadKeeps, PrepareCompletionKeeps, CommitCompletionKeeps,
       AbortUploadKeeps
  <2> QED
    BY <1>1, <2>1, <2>2, FinishRestoreKeeps, RefuseRestoreKeeps, MakePermanentKeeps,
       PublishVersionKeeps DEF Api
<1>2. CASE Time
  BY <1>2, RetentionElapsesKeeps, TimerElapsesKeeps, LeaseExpiresKeeps DEF Time
<1>3. CASE Worker
  <2>1. ASSUME NEW w \in Lanes,
               \/ Preflight(w) \/ ProviderDeletes(w) \/ ProviderFails(w)
               \/ SettleMultipart(w) \/ SettleVersion(w) \/ Crash(w)
        PROVE  Inductive'
    BY <2>1, PreflightKeeps, ProviderDeletesKeeps, ProviderFailsKeeps,
       SettleMultipartKeeps, SettleVersionKeeps, CrashKeeps
  <2>2. ASSUME NEW b \in Batches,
               FinalizeSkips(b) \/ FinalizeFails(b) \/ FinalizePurges(b)
        PROVE  Inductive'
    BY <2>2, FinalizeSkipsKeeps, FinalizeFailsKeeps, FinalizePurgesKeeps
  <2> QED
    BY <1>3, <2>1, <2>2, SweepSelfDestructKeeps, ScheduleMultipartAbortKeeps,
       ScheduleVersionDeletionKeeps, ClaimOneKeeps, StartPassKeeps DEF Worker
<1>4. CASE UNCHANGED vars
  BY <1>4, StutterKeeps
<1> QED BY <1>1, <1>2, <1>3, <1>4 DEF Next

\* Every reachable state satisfies the invariant.
THEOREM InductiveHolds == Spec => []Inductive
<1>1. Init => Inductive
  BY InitInductive
<1>2. Inductive /\ [Next]_vars => Inductive'
  BY StepInductive
<1> QED BY <1>1, <1>2, PTL DEF Spec

\* The rows keep their types and the CHECK constraints of their tables.
THEOREM TypeCorrect == Spec => []TypeOK
<1>1. Inductive => TypeOK
  BY DEF Inductive
<1> QED BY <1>1, InductiveHolds, PTL

\* Cleanup never destroys the content of a file that is live or can still be
\* restored, however many workers, lost leases, retries and crashes there are;
\* the only files it can hurt are those a restore holds over their deadline.
THEOREM RetentionSafe == Spec => []RetainedContentStored
<1>1. Inductive => RetainedContentStored
  BY DEF Inductive
<1> QED BY <1>1, InductiveHolds, PTL

\* The finalizer and the settlement of a claim drop a version's row only once
\* its object is gone: nothing in the store is left without a row.
THEOREM NoOrphans == Spec => []NoOrphanedObject
<1>1. Inductive => NoOrphanedObject
  BY DEF Inductive
<1> QED BY <1>1, InductiveHolds, PTL

\* A job reported object_deleted is the truth about the provider.
THEOREM ConfirmationIsTrue == Spec => []ConfirmedIsGone
<1>1. Inductive => ConfirmedIsGone
  BY DEF Inductive
<1> QED BY <1>1, InductiveHolds, PTL

\* A claim that comes back from the provider finds its version still due, or
\* held over its deadline by a restore, even when its lease was lost meanwhile.
THEOREM SettlementSafe == Spec => []SettleNeverSeesLive
<1>1. Inductive => SettleNeverSeesLive
  <2> SUFFICES ASSUME Inductive, NEW w \in Lanes,
                      lane[w].pc = "settle", lane[w].job \in VersionJobs,
                      lane[w].job[2] \in versions
               PROVE  Due(FileOf[lane[w].job[2]]) \/ FileOf[lane[w].job[2]] \in late
    BY DEF SettleNeverSeesLive
  <2>1. lane[w].job = VersionJob(lane[w].job[2])
    BY JobFacts
  <2> QED BY <2>1 DEF Inductive, WorkIsDoomed, Doomed
<1> QED BY <1>1, InductiveHolds, PTL

\* Both at once: what a lane learns from the provider is true whenever it
\* settles, whoever holds the lease by then.
THEOREM CallsAlwaysSettleTruly == Spec => []CallsSettleTruly
<1>1. ConfirmedIsGone /\ SettleNeverSeesLive => CallsSettleTruly
  BY DEF CallsSettleTruly
<1> QED BY <1>1, ConfirmationIsTrue, SettlementSafe, PTL

-----------------------------------------------------------------------------
(* The bin: batches that move together, and self-destructing files. *)

Moved == \A b \in Batches : Rows(b) # {} /\ Rows(b)' # Rows(b) => Rows(b)' = {}

\* A batch's rows are deleted entries, and an entry is in the batch it names.
LEMMA RowFacts ==
    ASSUME TypeOK
    PROVE  /\ \A b \in Batches : \A e \in Rows(b) : state[e] = "deleted" /\ batch[e] = b
           /\ \A b \in Batches : \A e \in Rows(b) : e \in Entries
           /\ \A e \in Entries : state[e] = "deleted" =>
                    batch[e] \in Batches /\ e \in Rows(batch[e])
<1>1. \A b \in Batches : b # 0
  BY DEF Batches
<1>2. \A e \in Entries : batch[e] \in 0..MaxBatches
  BY DEF TypeOK
<1>3. \A e \in Entries : batch[e] # 0 => batch[e] \in Batches
  BY <1>2 DEF Batches
<1> QED BY <1>1, <1>3 DEF Rows, TypeOK, RowChecks

\* What hangs below an entry depends on the batch's own rows and parents only.
LEMMA HangingStays ==
    ASSUME NEW e, NEW b, HangsBelow(e, b), Rows(b)' = Rows(b),
           \A y \in Rows(b) : parent'[y] = parent[y]
    PROVE  HangsBelow(e, b)'
  BY DEF HangsBelow

\* A step that touches neither the tree nor the batches, and starts no restore.
LEMMA RestKeepsBatches ==
    ASSUME TypeOK, BatchesAreWhole, UNCHANGED <<state, parent, batch>>,
           restoring' \in {restoring, NoEntry}, \A b \in Batches : IsDue(b) => IsDue(b)'
    PROVE  BatchesAreWhole' /\ Moved
<1>1. \A b : Rows(b)' = Rows(b)
  BY DEF Rows
<1>2. \A e, b : HangsBelow(e, b) => HangsBelow(e, b)'
  BY <1>1, HangingStays
<1>3. NoLiveBelowDeleted'
  BY DEF BatchesAreWhole, NoLiveBelowDeleted, IsLiveFolder
<1>4. Moved
  BY <1>1 DEF Moved
<1>5. ASSUME restoring' # NoEntry PROVE HangsBelow(restoring, batch[restoring])'
  <2>1. restoring' = restoring /\ restoring # NoEntry
    BY <1>5
  <2>2. HangsBelow(restoring, batch[restoring])
    BY <2>1 DEF BatchesAreWhole
  <2> QED BY <1>1, <2>1, <2>2 DEF HangsBelow
<1>6. ASSUME NEW b \in Batches, NEW e \in Rows(b)', ~IsDue(b)', parent'[e] \notin Rows(b)'
      PROVE  HangsBelow(e, b)'
  BY <1>1, <1>2, <1>6 DEF BatchesAreWhole
<1> QED BY <1>3, <1>4, <1>5, <1>6 DEF BatchesAreWhole

\* A restore starts at the root of a batch that is not due.
LEMMA BeginRestoreKeepsBatches ==
    ASSUME TypeOK, BatchesAreWhole, NEW e \in Entries, BeginRestore(e)
    PROVE  BatchesAreWhole' /\ Moved
<1>1. \A b : Rows(b)' = Rows(b) /\ (IsDue(b)' <=> IsDue(b))
  BY DEF Rows, BeginRestore, IsDue, clock
<1>2. \A x, b : HangsBelow(x, b) => HangsBelow(x, b)'
  BY <1>1, HangingStays DEF BeginRestore
<1>3. e \in Rows(batch[e]) /\ batch[e] \in Batches /\ ~IsDue(batch[e])
  BY RowFacts DEF BeginRestore, IsBinRoot
<1>4. parent[e] \notin Rows(batch[e])
  BY DEF BeginRestore, IsBinRoot, Rows
<1>5. HangsBelow(e, batch[e])
  BY <1>3, <1>4 DEF BatchesAreWhole
<1>6. HangsBelow(restoring, batch[restoring])'
  <2>1. restoring' = e /\ batch' = batch /\ parent' = parent
    BY DEF BeginRestore
  <2> QED BY <2>1, <1>1, <1>5 DEF HangsBelow
<1>7. NoLiveBelowDeleted'
  BY DEF BatchesAreWhole, NoLiveBelowDeleted, IsLiveFolder, BeginRestore
<1>8. Moved
  BY <1>1 DEF Moved
<1>9. ASSUME NEW b \in Batches, NEW x \in Rows(b)', ~IsDue(b)', parent'[x] \notin Rows(b)'
      PROVE  HangsBelow(x, b)'
  BY <1>1, <1>2, <1>9 DEF BatchesAreWhole, BeginRestore
<1> QED BY <1>6, <1>7, <1>8, <1>9 DEF BatchesAreWhole

\* Every entry below e but e itself has its folder below e, and the contents
\* of every folder below e are below e.
LEMMA BelowFacts ==
    ASSUME NEW e \in Entries
    PROVE  /\ e \in Below(e) /\ Below(e) \subseteq Entries
           /\ \A y \in Entries : parent[y] \in Below(e) => y \in Below(e)
           /\ \A y \in Below(e) \ {e} : parent[y] \in Below(e)
           /\ \A S \in SUBSET Entries :
                (e \in S /\ \A y \in Entries : parent[y] \in S => y \in S) => Below(e) \subseteq S
<1>1. e \in Below(e) /\ Below(e) \subseteq Entries
  BY DEF Below
<1>2. \A S \in SUBSET Entries :
        (e \in S /\ \A y \in Entries : parent[y] \in S => y \in S) => Below(e) \subseteq S
  BY DEF Below
<1>3. ASSUME NEW y \in Entries, parent[y] \in Below(e) PROVE y \in Below(e)
  BY <1>3 DEF Below
<1>4. ASSUME NEW y \in Below(e) \ {e} PROVE parent[y] \in Below(e)
  <2> SUFFICES ASSUME parent[y] \notin Below(e) PROVE FALSE
    OBVIOUS
  <2> DEFINE S == Below(e) \ {y}
  <2>1. S \in SUBSET Entries /\ e \in S
    BY <1>1
  <2>2. \A z \in Entries : parent[z] \in S => z \in S
    BY <1>3
  <2>3. Below(e) \subseteq S
    BY <1>2, <2>1, <2>2
  <2> QED BY <2>3
<1> QED BY <1>1, <1>2, <1>3, <1>4

\* A batch that a step neither fills nor touches keeps hanging together.
LEMMA KeptBatchHangs ==
    ASSUME BatchesAreWhole, NEW b \in Batches, NEW e \in Rows(b)',
           Rows(b)' = Rows(b), \A y \in Rows(b) : parent'[y] = parent[y],
           IsDue(b) => IsDue(b)', ~IsDue(b)', parent'[e] \notin Rows(b)'
    PROVE  HangsBelow(e, b)'
<1>1. HangsBelow(e, b)
  BY DEF BatchesAreWhole
<1> QED BY <1>1, HangingStays

\* A deletion: what it takes is everything live below e, and the part of it
\* that goes to the bin hangs below e.
LEMMA SoftDeleteKeepsBatches ==
    ASSUME TypeOK, RowsAgree, RestoreIsTracked, BatchesAreWhole,
           NEW e \in Entries, SoftDelete(e)
    PROVE  BatchesAreWhole' /\ Moved
<1> DEFINE doomed == {x \in Below(e) : state[x] = "live"}
           timed == SelfDestructing(doomed)
           D == doomed \ timed
<1> SUFFICES ASSUME NEW binned, binned = lastBatch + 1,
                    NEW permanent, permanent = lastBatch + 2
             PROVE  BatchesAreWhole' /\ Moved
  OBVIOUS
<1>0. /\ state[e] = "live"
      /\ restoring \notin Below(e) /\ restoring' = restoring /\ parent' = parent
      /\ state' = [x \in Entries |-> IF x \in doomed THEN "deleted" ELSE state[x]]
      /\ batch' = [x \in Entries |-> IF x \in timed THEN permanent
                                     ELSE IF x \in doomed THEN binned ELSE batch[x]]
  BY DEF SoftDelete
<1>1. timed \subseteq doomed /\ timed \subseteq Files /\ doomed \subseteq Below(e)
  BY DEF SelfDestructing
<1>2. lastBatch \in Nat /\ binned # permanent /\ binned > lastBatch /\ permanent > lastBatch
  BY DEF TypeOK
<1>3. Below(e) \subseteq Entries /\ e \in Below(e)
  BY BelowFacts
<1>4. \A x \in Entries : batch[x] <= lastBatch /\ batch[x] \in Nat
  BY DEF RowsAgree, TypeOK
<1>5. \A x \in doomed : state[x] = "live" /\ batch[x] = 0
  BY <1>3 DEF TypeOK, RowChecks
<1>6. \A b \in Batches : b # 0
  BY DEF Batches
<1>7. Rows(binned) = {} /\ Rows(permanent) = {}
  BY <1>2, <1>4 DEF Rows
<1>8. Rows(binned)' = D /\ Rows(permanent)' = timed
  <2> HIDE DEF doomed, timed
  <2>1. \A x \in Entries : x \in Rows(binned)' <=> x \in D
    BY <1>0, <1>1, <1>2, <1>3, <1>4 DEF Rows
  <2>2. \A x \in Entries : x \in Rows(permanent)' <=> x \in timed
    BY <1>0, <1>1, <1>2, <1>3, <1>4 DEF Rows
  <2>3. Rows(binned)' \subseteq Entries /\ Rows(permanent)' \subseteq Entries
    BY DEF Rows
  <2> QED BY <2>1, <2>2, <2>3, <1>1, <1>3
<1>9. ASSUME NEW b \in Batches, b # binned, b # permanent PROVE Rows(b)' = Rows(b)
  <2> HIDE DEF doomed, timed
  <2>1. \A x \in Entries : x \in Rows(b)' <=> x \in Rows(b)
    BY <1>0, <1>1, <1>3, <1>5, <1>6, <1>9 DEF Rows
  <2>2. Rows(b) \subseteq Entries /\ Rows(b)' \subseteq Entries
    BY DEF Rows
  <2> QED BY <2>1, <2>2
<1>10. timed # {} => IsDue(permanent)'
  <2> SUFFICES ASSUME timed # {} PROVE IsDue(permanent)'
    OBVIOUS
  <2>1. permanent \in Batches /\ dueRank' = [dueRank EXCEPT ![permanent] = dueCount + 1]
    BY DEF SoftDelete, BecomeDue
  <2>2. dueRank'[permanent] = dueCount + 1 /\ dueCount \in Nat
    BY <2>1 DEF TypeOK
  <2> QED BY <2>1, <2>2 DEF IsDue
<1>11. \A b \in Batches : IsDue(b) => IsDue(b)'
  BY DEF SoftDelete, BecomeDue, IsDue, TypeOK
<1>12. NoLiveBelowDeleted'
  <2> SUFFICES ASSUME NEW x \in Entries, state'[x] = "live" PROVE IsLiveFolder(parent[x])'
    BY <1>0 DEF NoLiveBelowDeleted
  <2>1. state[x] = "live" /\ x \notin Below(e)
    BY <1>0
  <2>2. IsLiveFolder(parent[x]) /\ parent[x] \notin Below(e)
    BY <2>1, BelowFacts DEF BatchesAreWhole, NoLiveBelowDeleted
  <2> QED BY <1>0, <2>2 DEF IsLiveFolder, Entries
<1>13. \A y \in D \ {e} : parent[y] \in D
  <2> SUFFICES ASSUME NEW y \in D, y # e PROVE parent[y] \in D
    OBVIOUS
  <2>1. parent[y] \in Below(e) /\ IsLiveFolder(parent[y])
    BY <1>1, <1>3, BelowFacts DEF BatchesAreWhole, NoLiveBelowDeleted
  <2>2. parent[y] \in Folders /\ state[parent[y]] = "live"
    BY <2>1, <1>3 DEF IsLiveFolder
  <2> QED BY <2>1, <2>2, <1>1
<1>14. ASSUME NEW S \in SUBSET Entries, e \in S, \A y \in D : parent[y] \in S => y \in S
       PROVE  D \subseteq S
  <2> DEFINE T == S \cup (Entries \ D)
  <2> HIDE DEF D
  <2>1. \A y \in Entries : parent[y] \in T => y \in T
    BY <1>13, <1>14
  <2>2. Below(e) \subseteq T
    <3>1. T \in SUBSET Entries /\ e \in T
      BY <1>14
    <3> HIDE DEF T
    <3> QED BY <3>1, <2>1, BelowFacts
  <2>3. D \subseteq Below(e)
    BY <1>1 DEF D
  <2> QED BY <2>2, <2>3
<1>15. HangsBelow(e, binned)'
  <2> HIDE DEF D
  <2> QED BY <1>0, <1>8, <1>13, <1>14 DEF HangsBelow
<1> HIDE DEF D, timed, doomed
<1>16. ASSUME NEW b \in Batches, NEW x \in Rows(b)', ~IsDue(b)', parent'[x] \notin Rows(b)'
       PROVE  HangsBelow(x, b)'
  <2>1. CASE b = binned
    BY <2>1, <1>0, <1>8, <1>13, <1>15, <1>16
  <2>2. CASE b = permanent
    BY <2>2, <1>8, <1>10, <1>16
  <2>3. CASE b # binned /\ b # permanent
    BY <2>3, <1>0, <1>9, <1>11, <1>16, KeptBatchHangs
  <2> QED BY <2>1, <2>2, <2>3
<1>17. ASSUME restoring' # NoEntry PROVE HangsBelow(restoring, batch[restoring])'
  <2>1. /\ restoring \in Entries /\ restoring \notin Below(e) /\ restoring # NoEntry
        /\ HangsBelow(restoring, batch[restoring]) /\ batch[restoring] \in Batches
    BY <1>0, <1>17, RowFacts DEF TypeOK, BatchesAreWhole, RestoreIsTracked
  <2> SUFFICES ASSUME NEW r, r = restoring, NEW b, b = batch[restoring]
               PROVE  HangsBelow(restoring, batch[restoring])'
    OBVIOUS
  <2>2. batch'[restoring'] = b /\ restoring' = r
    BY <2>1, <1>0, <1>1
  <2>3. Rows(b)' = Rows(b)
    BY <2>1, <1>2, <1>4, <1>9
  <2>4. HangsBelow(r, b)'
    BY <2>1, <2>3, <1>0, HangingStays
  <2> QED BY <2>2, <2>4
<1>18. Moved
  BY <1>7, <1>9 DEF Moved
<1> QED BY <1>12, <1>16, <1>17, <1>18 DEF BatchesAreWhole

\* Shared by the steps that leave every parent of a batch's rows alone: what
\* remains to be shown is how the set of rows of each batch changed.
LEMMA BatchesStayWhole ==
    ASSUME BatchesAreWhole, NoLiveBelowDeleted',
           \A b \in Batches : \/ Rows(b)' = {}
                              \/ IsDue(b)' /\ Rows(b) = {}
                              \/ /\ Rows(b)' = Rows(b)
                                 /\ \A y \in Rows(b) : parent'[y] = parent[y],
           \A b \in Batches : IsDue(b) => IsDue(b)',
           \/ restoring' = NoEntry
           \/ /\ restoring' = restoring
              /\ batch[restoring] \in Batches
              /\ batch'[restoring] = batch[restoring]
              /\ Rows(batch[restoring])' = Rows(batch[restoring])
              /\ \A y \in Rows(batch[restoring]) : parent'[y] = parent[y]
    PROVE  BatchesAreWhole' /\ Moved
<1>1. ASSUME NEW b \in Batches, NEW x \in Rows(b)', ~IsDue(b)', parent'[x] \notin Rows(b)'
      PROVE  HangsBelow(x, b)'
  <2>1. Rows(b)' = Rows(b) /\ \A y \in Rows(b) : parent'[y] = parent[y]
    BY <1>1
  <2> QED BY <1>1, <2>1, KeptBatchHangs
<1>2. Moved
  BY DEF Moved
<1>3. ASSUME restoring' # NoEntry PROVE HangsBelow(restoring, batch[restoring])'
  <2>1. /\ restoring' = restoring /\ batch'[restoring] = batch[restoring]
        /\ HangsBelow(restoring, batch[restoring])
    BY <1>3 DEF BatchesAreWhole
  <2> SUFFICES ASSUME NEW r, r = restoring, NEW b, b = batch[restoring]
               PROVE  HangsBelow(restoring, batch[restoring])'
    OBVIOUS
  <2>2. Rows(b)' = Rows(b) /\ \A y \in Rows(b) : parent'[y] = parent[y]
    <3>1. restoring' # NoEntry
      BY <1>3
    <3> QED BY <3>1
  <2>3. HangsBelow(r, b)'
    BY <2>1, <2>2, HangingStays
  <2>4. restoring' = r /\ batch'[restoring'] = b
    BY <2>1
  <2> QED BY <2>3, <2>4
<1> QED BY <1>1, <1>2, <1>3 DEF BatchesAreWhole

\* The sweep takes one file into a batch of its own, which is due at once.
LEMMA SweepKeepsBatches ==
    ASSUME TypeOK, RowsAgree, RestoreIsTracked, BatchesAreWhole,
           NEW f \in Files, SweepSelfDestruct(f)
    PROVE  BatchesAreWhole' /\ Moved
<1> SUFFICES ASSUME NEW own, own = lastBatch + 1
             PROVE  BatchesAreWhole' /\ Moved
  OBVIOUS
<1>0. /\ state[f] = "live" /\ own \in Batches /\ f \in Entries
      /\ parent' = parent /\ restoring' = restoring
      /\ state' = [state EXCEPT ![f] = "deleted"] /\ batch' = [batch EXCEPT ![f] = own]
      /\ dueRank' = [dueRank EXCEPT ![own] = dueCount + 1]
  BY DEF SweepSelfDestruct, BecomeDue, Entries
<1>1. lastBatch \in Nat /\ dueCount \in Nat
  BY DEF TypeOK
<1>2. IsDue(own)' /\ \A b \in Batches : IsDue(b) => IsDue(b)'
  BY <1>0, <1>1 DEF IsDue, TypeOK
<1>3. Rows(own) = {}
  BY <1>1 DEF Rows, RowsAgree, TypeOK
<1>4. batch[f] = 0 /\ \A b \in Batches : b # 0
  BY <1>0 DEF TypeOK, RowChecks, Batches
<1>5. ASSUME NEW b \in Batches, b # own PROVE Rows(b)' = Rows(b)
  BY <1>0, <1>4, <1>5 DEF Rows, TypeOK
<1>6. NoLiveBelowDeleted'
  BY <1>0 DEF BatchesAreWhole, NoLiveBelowDeleted, IsLiveFolder, TypeOK
<1>7. restoring # NoEntry => /\ batch[restoring] \in Batches /\ batch[restoring] # own
                             /\ batch'[restoring] = batch[restoring]
  <2> SUFFICES ASSUME restoring # NoEntry
               PROVE  /\ batch[restoring] \in Batches /\ batch[restoring] # own
                      /\ batch'[restoring] = batch[restoring]
    OBVIOUS
  <2>1. restoring \in Entries /\ state[restoring] = "deleted"
    BY DEF TypeOK, RestoreIsTracked
  <2> QED BY <2>1, <1>0, <1>3, RowFacts DEF TypeOK
<1> QED BY <1>0, <1>2, <1>3, <1>5, <1>6, <1>7, BatchesStayWhole

\* A completed upload makes a file that was absent: no batch has it.
LEMMA CommitKeepsBatches ==
    ASSUME TypeOK, RestoreIsTracked, BatchesAreWhole, NEW u \in Uploads, CommitCompletion(u)
    PROVE  BatchesAreWhole' /\ Moved
<1> SUFFICES ASSUME NEW f, f = FileOf[u]
             PROVE  BatchesAreWhole' /\ Moved
  OBVIOUS
<1>0. /\ f \in Files /\ f \in Entries /\ state[f] = "absent" /\ IsLiveFolder(Home[f])
      /\ restoring' = restoring /\ dueRank' = dueRank
      /\ state' = [state EXCEPT ![f] = "live"] /\ batch' = [batch EXCEPT ![f] = 0]
      /\ parent' = [parent EXCEPT ![f] = Home[f]]
  BY DEF CommitCompletion, clock, Entries
<1>1. \A b \in Batches : b # 0
  BY DEF Batches
<1>2. ASSUME NEW b \in Batches
      PROVE  Rows(b)' = Rows(b) /\ \A y \in Rows(b) : parent'[y] = parent[y]
  <2>1. f \notin Rows(b)
    BY <1>0 DEF Rows
  <2>2. Rows(b)' = Rows(b)
    BY <1>0, <1>1, <2>1 DEF Rows, TypeOK
  <2>3. Rows(b) \subseteq Entries
    BY DEF Rows
  <2> QED BY <1>0, <2>1, <2>2, <2>3 DEF TypeOK
<1>3. NoLiveBelowDeleted'
  <2> SUFFICES ASSUME NEW x \in Entries, state'[x] = "live" PROVE IsLiveFolder(parent[x])'
    BY DEF NoLiveBelowDeleted
  <2>1. \A p : IsLiveFolder(p) => IsLiveFolder(p)'
    BY <1>0 DEF IsLiveFolder, TypeOK, Entries
  <2>2. CASE x = f
    <3>1. parent'[x] = Home[f]
      BY <1>0, <2>2 DEF TypeOK
    <3> QED BY <1>0, <3>1 DEF IsLiveFolder, TypeOK, Entries
  <2>3. CASE x # f
    <3>1. parent'[x] = parent[x] /\ IsLiveFolder(parent[x])
      BY <1>0, <2>3 DEF TypeOK, BatchesAreWhole, NoLiveBelowDeleted
    <3> QED BY <1>0, <3>1 DEF IsLiveFolder, TypeOK, Entries
  <2> QED BY <2>2, <2>3
<1>4. \A b \in Batches : IsDue(b) => IsDue(b)'
  BY <1>0 DEF IsDue
<1>5. restoring # NoEntry => batch[restoring] \in Batches /\ batch'[restoring] = batch[restoring]
  <2> SUFFICES ASSUME restoring # NoEntry
               PROVE  batch[restoring] \in Batches /\ batch'[restoring] = batch[restoring]
    OBVIOUS
  <2>1. restoring \in Entries /\ state[restoring] = "deleted"
    BY DEF TypeOK, RestoreIsTracked
  <2> QED BY <2>1, <1>0, RowFacts DEF TypeOK
<1> QED BY <1>0, <1>2, <1>3, <1>4, <1>5, BatchesStayWhole

\* A restore brings back exactly its batch: all of it hangs below its root.
LEMMA FinishRestoreKeepsBatches ==
    ASSUME TypeOK, RestoreIsTracked, BatchesAreWhole, FinishRestore
    PROVE  BatchesAreWhole' /\ Moved
<1> SUFFICES ASSUME NEW e, e = restoring, NEW b, b = batch[restoring]
             PROVE  BatchesAreWhole' /\ Moved
  OBVIOUS
<1> DEFINE back == {x \in Below(e) : state[x] = "deleted" /\ batch[x] = b}
<1>0. /\ e # NoEntry /\ restoring' = NoEntry /\ dueRank' = dueRank
      /\ state' = [x \in Entries |-> IF x \in back THEN "live" ELSE state[x]]
      /\ batch' = [x \in Entries |-> IF x \in back THEN 0 ELSE batch[x]]
      /\ parent' = [parent EXCEPT ![e] = RestoreParent(e)]
  BY DEF FinishRestore, clock
<1>1. /\ e \in Entries /\ state[e] = "deleted" /\ HangsBelow(e, b)
      /\ b \in Batches /\ e \in Rows(b)
  BY <1>0, RowFacts DEF TypeOK, RestoreIsTracked, BatchesAreWhole
<1>2. back = Rows(b)
  <2>1. Rows(b) \subseteq Below(e)
    <3>1. Below(e) \in SUBSET Entries /\ e \in Below(e)
      BY <1>1, BelowFacts
    <3>2. \A y \in Rows(b) : parent[y] \in Below(e) => y \in Below(e)
      BY <1>1, BelowFacts, RowFacts
    <3> QED BY <1>1, <3>1, <3>2 DEF HangsBelow
  <2>2. Rows(b) \subseteq back
    BY <2>1, <1>1, RowFacts
  <2>3. back \subseteq Rows(b)
    <3>1. Below(e) \subseteq Entries
      BY <1>1, BelowFacts
    <3> QED BY <3>1 DEF Rows
  <2> QED BY <2>2, <2>3
<1> HIDE DEF back
<1>3. \A c \in Batches : c # 0
  BY DEF Batches
<1>4. Rows(b)' = {}
  BY <1>0, <1>1, <1>2, <1>3 DEF Rows
<1>5. ASSUME NEW c \in Batches, c # b
      PROVE  Rows(c)' = Rows(c) /\ \A y \in Rows(c) : parent'[y] = parent[y]
  <2>1. \A x \in Entries : x \in Rows(c)' <=> x \in Rows(c)
    BY <1>0, <1>1, <1>2, <1>3, <1>5, RowFacts DEF Rows
  <2>2. Rows(c) \subseteq Entries /\ Rows(c)' \subseteq Entries
    BY DEF Rows
  <2>3. e \notin Rows(c)
    BY <1>1, <1>5 DEF Rows
  <2> QED BY <2>1, <2>2, <2>3, <1>0 DEF TypeOK
<1>6. NoLiveBelowDeleted'
  <2> SUFFICES ASSUME NEW x \in Entries, state'[x] = "live" PROVE IsLiveFolder(parent[x])'
    BY DEF NoLiveBelowDeleted
  <2>1. \A p \in Folders : state[p] = "live" => state'[p] = "live"
    BY <1>0 DEF Entries
  <2>2. CASE x = e
    <3>1. parent'[x] = RestoreParent(e)
      BY <1>0, <1>1, <2>2 DEF TypeOK
    <3>2. IsLiveFolder(RestoreParent(e))
      BY DEF RestoreParent, IsLiveFolder
    <3> QED BY <3>1, <3>2, <2>1 DEF IsLiveFolder
  <2>3. CASE x # e /\ x \in back
    <3>1. parent'[x] = parent[x] /\ parent[x] \in back
      BY <1>0, <1>1, <1>2, <2>3 DEF TypeOK, HangsBelow
    <3>2. state'[parent[x]] = "live" /\ parent[x] \in Folders
      BY <3>1, <1>0, <1>2, RowFacts, <1>1 DEF TypeOK
    <3> QED BY <3>1, <3>2 DEF IsLiveFolder
  <2>4. CASE x # e /\ x \notin back
    <3>1. parent'[x] = parent[x] /\ IsLiveFolder(parent[x])
      BY <1>0, <2>4 DEF TypeOK, BatchesAreWhole, NoLiveBelowDeleted
    <3> QED BY <3>1, <2>1 DEF IsLiveFolder
  <2> QED BY <2>2, <2>3, <2>4
<1>7. \A c \in Batches : IsDue(c) => IsDue(c)'
  BY <1>0 DEF IsDue
<1> QED BY <1>0, <1>4, <1>5, <1>6, <1>7, BatchesStayWhole

\* A purge removes a whole batch, which nobody is restoring.
LEMMA PurgeKeepsBatches ==
    ASSUME TypeOK, RestoreIsTracked, BatchesAreWhole,
           NEW b \in Batches, FinalizePurges(b)
    PROVE  BatchesAreWhole' /\ Moved
<1> SUFFICES ASSUME NEW rows, rows = Rows(b)
             PROVE  BatchesAreWhole' /\ Moved
  OBVIOUS
<1>0. /\ parent' = parent /\ restoring' = restoring /\ dueRank' = dueRank
      /\ restoring \notin rows
      /\ state' = [e \in Entries |-> IF e \in rows THEN "absent" ELSE state[e]]
      /\ batch' = [e \in Entries |-> IF e \in rows THEN 0 ELSE batch[e]]
  BY DEF FinalizePurges, NextInPass, clock
<1>1. \A c \in Batches : c # 0
  BY DEF Batches
<1>2. Rows(b)' = {}
  BY <1>0, <1>1 DEF Rows
<1>3. ASSUME NEW c \in Batches, c # b PROVE Rows(c)' = Rows(c)
  <2>1. \A x \in Entries : x \in Rows(c)' <=> x \in Rows(c)
    BY <1>0, <1>1, <1>3, RowFacts DEF Rows
  <2>2. Rows(c) \subseteq Entries /\ Rows(c)' \subseteq Entries
    BY DEF Rows
  <2> QED BY <2>1, <2>2
<1>4. NoLiveBelowDeleted'
  <2> SUFFICES ASSUME NEW x \in Entries, state'[x] = "live" PROVE IsLiveFolder(parent[x])'
    BY DEF NoLiveBelowDeleted
  <2>1. IsLiveFolder(parent[x])
    BY <1>0 DEF BatchesAreWhole, NoLiveBelowDeleted
  <2>2. \A p \in Folders : state[p] = "live" => state'[p] = "live"
    BY <1>0, RowFacts DEF Entries
  <2> QED BY <1>0, <2>1, <2>2 DEF IsLiveFolder
<1>5. \A c \in Batches : IsDue(c) => IsDue(c)'
  BY <1>0 DEF IsDue
<1>6. restoring # NoEntry => /\ batch[restoring] \in Batches /\ batch[restoring] # b
                             /\ batch'[restoring] = batch[restoring]
  <2> SUFFICES ASSUME restoring # NoEntry
               PROVE  /\ batch[restoring] \in Batches /\ batch[restoring] # b
                      /\ batch'[restoring] = batch[restoring]
    OBVIOUS
  <2>1. restoring \in Entries /\ state[restoring] = "deleted"
    BY DEF TypeOK, RestoreIsTracked
  <2> QED BY <2>1, <1>0, RowFacts
<1> QED BY <1>0, <1>2, <1>3, <1>4, <1>5, <1>6, BatchesStayWhole

\* The initial tree is live, and nothing is in the bin.
LEMMA InitWhole == Init => BatchesAreWhole
<1> SUFFICES ASSUME Init PROVE BatchesAreWhole
  OBVIOUS
<1>1. \A b \in Batches : Rows(b) = {}
  BY DEF Init, Rows, Batches
<1>2. NoLiveBelowDeleted
  BY DEF Init, NoLiveBelowDeleted, IsLiveFolder, Entries
<1> QED BY <1>1, <1>2 DEF BatchesAreWhole, Init

\* Batches keep hanging together, and move as one in every step.
LEMMA StepMovesBatches ==
    Inductive /\ BatchesAreWhole /\ [Next]_vars => BatchesAreWhole' /\ Moved
<1> SUFFICES ASSUME Inductive, BatchesAreWhole, [Next]_vars
             PROVE  BatchesAreWhole' /\ Moved
  OBVIOUS
<1>0. TypeOK /\ RowsAgree /\ RestoreIsTracked
  BY DEF Inductive
<1> DEFINE Apart == /\ UNCHANGED <<state, parent, batch>>
                    /\ restoring' \in {restoring, NoEntry}
                    /\ \A b \in Batches : IsDue(b) => IsDue(b)'
<1>1. Apart => BatchesAreWhole' /\ Moved
  BY <1>0, RestKeepsBatches
<1>2. UNCHANGED <<tree, clock>> => Apart
  BY DEF tree, clock, IsDue
<1> USE DEF tree, clock
<1>3. CASE Api
  <2>1. ASSUME NEW e \in Entries, SoftDelete(e) \/ BeginRestore(e)
        PROVE  BatchesAreWhole' /\ Moved
    BY <2>1, <1>0, SoftDeleteKeepsBatches, BeginRestoreKeepsBatches
  <2>2. CASE FinishRestore
    BY <2>2, <1>0, FinishRestoreKeepsBatches
  <2>3. CASE RefuseRestore \/ \E f \in Files : MakePermanent(f)
    <3>1. Apart
      BY <2>3 DEF RefuseRestore, MakePermanent, IsDue
    <3> QED BY <1>1, <3>1
  <2>4. CASE \E v \in Versions : PublishVersion(v)
    BY <1>1, <1>2, <2>4 DEF PublishVersion
  <2>5. ASSUME NEW u \in Uploads,
               InitiateUpload(u) \/ PrepareCompletion(u) \/ AbortUpload(u)
        PROVE  BatchesAreWhole' /\ Moved
    BY <1>1, <1>2, <2>5 DEF InitiateUpload, PrepareCompletion, AbortUpload
  <2>6. ASSUME NEW u \in Uploads, CommitCompletion(u)
        PROVE  BatchesAreWhole' /\ Moved
    BY <2>6, <1>0, CommitKeepsBatches
  <2> QED BY <1>3, <2>1, <2>2, <2>3, <2>4, <2>5, <2>6 DEF Api
<1>4. CASE Time
  <2>1. ASSUME NEW b \in Batches, RetentionElapses(b) PROVE Apart
    BY <1>0, <2>1 DEF RetentionElapses, BecomeDue, IsDue, TypeOK
  <2>2. ASSUME NEW f \in Files, TimerElapses(f) PROVE Apart
    BY <2>2 DEF TimerElapses, IsDue
  <2>3. ASSUME NEW j \in Jobs, LeaseExpires(j) PROVE Apart
    BY <2>3, <1>2 DEF LeaseExpires
  <2> QED BY <1>4, <1>1, <2>1, <2>2, <2>3 DEF Time
<1>5. CASE Worker
  <2>1. ASSUME NEW f \in Files, SweepSelfDestruct(f) PROVE BatchesAreWhole' /\ Moved
    BY <2>1, <1>0, SweepKeepsBatches
  <2>2. ASSUME NEW b \in Batches, FinalizePurges(b) PROVE BatchesAreWhole' /\ Moved
    BY <2>2, <1>0, PurgeKeepsBatches
  <2>3. ASSUME NEW b \in Batches, FinalizeSkips(b) \/ FinalizeFails(b) PROVE Apart
    BY <2>3, <1>2 DEF FinalizeSkips, FinalizeFails
  <2>4. ASSUME NEW u \in Uploads, ScheduleMultipartAbort(u) PROVE Apart
    BY <2>4, <1>2 DEF ScheduleMultipartAbort
  <2>5. ASSUME NEW v \in Versions, ScheduleVersionDeletion(v) PROVE Apart
    BY <2>5, <1>2 DEF ScheduleVersionDeletion
  <2>6. ASSUME NEW w \in Lanes, NEW j \in Jobs, ClaimOne(w, j) PROVE Apart
    BY <2>6, <1>2 DEF ClaimOne
  <2>7. ASSUME NEW w \in Lanes,
               \/ Preflight(w) \/ ProviderDeletes(w) \/ ProviderFails(w)
               \/ SettleMultipart(w) \/ SettleVersion(w) \/ Crash(w)
        PROVE  Apart
    BY <2>7, <1>2 DEF Preflight, ProviderDeletes, ProviderFails, SettleMultipart,
       SettleVersion, Crash
  <2>8. CASE StartPass
    BY <2>8, <1>2, <1>1 DEF StartPass
  <2> HIDE DEF Apart
  <2> QED BY <1>5, <1>1, <2>1, <2>2, <2>3, <2>4, <2>5, <2>6, <2>7, <2>8 DEF Worker
<1>6. CASE UNCHANGED vars
  BY <1>1, <1>2, <1>6 DEF vars
<1> QED BY <1>3, <1>4, <1>5, <1>6 DEF Next

\* What was deleted together is restored together or purged together, whatever
\* was deleted, restored, uploaded and purged around it in between.
THEOREM BatchesAlwaysMoveTogether == Spec => BatchesMoveTogether
<1>1. Init => BatchesAreWhole
  BY InitWhole
<1>2. Inductive /\ BatchesAreWhole /\ [Next]_vars =>
        BatchesAreWhole' /\ \A b \in Batches : Rows(b) # {} /\ Rows(b)' # Rows(b) => Rows(b)' = {}
  BY StepMovesBatches DEF Moved
<1> QED BY <1>1, <1>2, InductiveHolds, PTL DEF Spec, BatchesMoveTogether

\* In every step a deleted file with a timer stays in a batch that is due.
LEMMA StepSkipsBin ==
    TypeOK /\ RowsAgree /\ SelfDestructSkipsBin /\ [Next]_vars => SelfDestructSkipsBin'
<1> SUFFICES ASSUME TypeOK, RowsAgree, SelfDestructSkipsBin, [Next]_vars,
                    NEW f \in Files, state'[f] = "deleted", timer'[f] # "none"
             PROVE  Due(f)'
  BY DEF SelfDestructSkipsBin
<1>0. f \in Entries
  BY DEF Entries
<1>1. \A e \in Entries : Due(e) /\ state'[e] = "deleted" /\ batch'[e] = batch[e]
        /\ (\A b \in Batches : IsDue(b) => IsDue(b)') => Due(e)'
  BY DEF Due, IsDue
<1>2. UNCHANGED <<state, batch, timer>> /\ (\A b \in Batches : IsDue(b) => IsDue(b)') => Due(f)'
  BY <1>0, <1>1 DEF SelfDestructSkipsBin
<1>3. UNCHANGED <<tree, clock>> => Due(f)'
  BY <1>2 DEF tree, clock, IsDue
<1> USE DEF tree, clock
<1>4. CASE Api
  <2>1. ASSUME NEW e \in Entries, SoftDelete(e) PROVE Due(f)'
    <3> SUFFICES ASSUME NEW doomed, doomed = {x \in Below(e) : state[x] = "live"},
                        NEW timed, timed = SelfDestructing(doomed),
                        NEW permanent, permanent = lastBatch + 2
                 PROVE  Due(f)'
      OBVIOUS
    <3>1. /\ timer' = timer
          /\ state' = [x \in Entries |-> IF x \in doomed THEN "deleted" ELSE state[x]]
          /\ batch'[f] = IF f \in timed THEN permanent
                         ELSE IF f \in doomed THEN lastBatch + 1 ELSE batch[f]
      BY <2>1, <1>0 DEF SoftDelete
    <3>2. \A b \in Batches : IsDue(b) => IsDue(b)'
      BY <2>1 DEF SoftDelete, BecomeDue, IsDue, TypeOK
    <3>3. CASE f \in doomed
      <4>1. f \in timed
        BY <3>1, <3>3 DEF SelfDestructing
      <4>2. permanent \in Batches /\ dueRank' = [dueRank EXCEPT ![permanent] = dueCount + 1]
        BY <2>1, <4>1 DEF SoftDelete, BecomeDue
      <4>3. dueRank'[permanent] = dueCount + 1 /\ dueCount \in Nat
        BY <4>2 DEF TypeOK
      <4> QED BY <3>1, <4>1, <4>2, <4>3 DEF Due, IsDue
    <3>4. CASE f \notin doomed
      <4>1. f \notin timed
        BY <3>4 DEF SelfDestructing
      <4>2. Due(f)
        BY <1>0, <3>1, <3>4 DEF SelfDestructSkipsBin
      <4> QED BY <1>0, <1>1, <3>1, <3>2, <3>4, <4>1, <4>2
    <3> QED BY <3>3, <3>4
  <2>2. CASE FinishRestore
    <3>1. timer' = timer /\ state[f] = "deleted" /\ batch'[f] = batch[f]
      BY <2>2, <1>0 DEF FinishRestore
    <3>2. Due(f)
      BY <3>1 DEF SelfDestructSkipsBin
    <3> QED BY <1>0, <1>1, <2>2, <3>1, <3>2 DEF FinishRestore, IsDue
  <2>3. ASSUME NEW x \in Files, MakePermanent(x) PROVE Due(f)'
    <3>1. f # x
      BY <2>3 DEF MakePermanent
    <3>2. Due(f)
      BY <2>3, <3>1 DEF MakePermanent, TypeOK, SelfDestructSkipsBin
    <3> QED BY <1>0, <1>1, <2>3, <3>2 DEF MakePermanent, IsDue
  <2>4. CASE RefuseRestore \/ \E e \in Entries : BeginRestore(e)
    BY <2>4, <1>2 DEF RefuseRestore, BeginRestore, IsDue
  <2>5. CASE \E v \in Versions : PublishVersion(v)
    BY <2>5, <1>3 DEF PublishVersion
  <2>6. ASSUME NEW u \in Uploads,
               InitiateUpload(u) \/ PrepareCompletion(u) \/ AbortUpload(u)
        PROVE  Due(f)'
    BY <2>6, <1>3 DEF InitiateUpload, PrepareCompletion, AbortUpload
  <2>7. ASSUME NEW u \in Uploads, CommitCompletion(u) PROVE Due(f)'
    <3>1. f # FileOf[u]
      BY <2>7 DEF CommitCompletion, TypeOK
    <3>2. state'[f] = state[f] /\ batch'[f] = batch[f] /\ timer'[f] = timer[f] /\ dueRank' = dueRank
      BY <2>7, <1>0, <3>1 DEF CommitCompletion, TypeOK
    <3>3. Due(f)
      BY <3>2 DEF SelfDestructSkipsBin
    <3> QED BY <1>0, <1>1, <3>2, <3>3 DEF IsDue
  <2> QED BY <1>4, <2>1, <2>2, <2>3, <2>4, <2>5, <2>6, <2>7 DEF Api
<1>5. CASE Time
  <2>1. ASSUME NEW b \in Batches, RetentionElapses(b) PROVE Due(f)'
    BY <2>1, <1>2 DEF RetentionElapses, BecomeDue, IsDue, TypeOK
  <2>2. ASSUME NEW x \in Files, TimerElapses(x) PROVE Due(f)'
    <3>1. f # x
      BY <2>2 DEF TimerElapses
    <3>2. Due(f)
      BY <2>2, <3>1 DEF TimerElapses, TypeOK, SelfDestructSkipsBin
    <3> QED BY <1>0, <1>1, <2>2, <3>2 DEF TimerElapses, IsDue
  <2>3. ASSUME NEW j \in Jobs, LeaseExpires(j) PROVE Due(f)'
    BY <2>3, <1>3 DEF LeaseExpires
  <2> QED BY <1>5, <2>1, <2>2, <2>3 DEF Time
<1>6. CASE Worker
  <2>1. ASSUME NEW x \in Files, SweepSelfDestruct(x) PROVE Due(f)'
    <3> SUFFICES ASSUME NEW own, own = lastBatch + 1 PROVE Due(f)'
      OBVIOUS
    <3>1. /\ own \in Batches /\ timer' = timer
          /\ state' = [state EXCEPT ![x] = "deleted"] /\ batch' = [batch EXCEPT ![x] = own]
          /\ dueRank' = [dueRank EXCEPT ![own] = dueCount + 1]
      BY <2>1 DEF SweepSelfDestruct, BecomeDue
    <3>2. dueCount \in Nat /\ dueRank'[own] = dueCount + 1
      BY <3>1 DEF TypeOK
    <3>3. \A b \in Batches : IsDue(b) => IsDue(b)'
      BY <3>1, <3>2 DEF IsDue, TypeOK
    <3>4. CASE f = x
      BY <1>0, <3>1, <3>2, <3>4 DEF Due, IsDue, TypeOK
    <3>5. CASE f # x
      <4>1. Due(f)
        BY <3>1, <3>5 DEF SelfDestructSkipsBin, TypeOK
      <4> QED BY <1>0, <1>1, <3>1, <3>3, <3>5, <4>1 DEF TypeOK
    <3> QED BY <3>4, <3>5
  <2>2. ASSUME NEW b \in Batches, FinalizePurges(b) PROVE Due(f)'
    <3>1. timer'[f] = timer[f] /\ state[f] = "deleted" /\ batch'[f] = batch[f]
      BY <2>2, <1>0 DEF FinalizePurges
    <3>2. Due(f)
      BY <3>1 DEF SelfDestructSkipsBin
    <3> QED BY <1>0, <1>1, <2>2, <3>1, <3>2 DEF FinalizePurges, IsDue
  <2>3. ASSUME NEW b \in Batches, FinalizeSkips(b) \/ FinalizeFails(b) PROVE Due(f)'
    BY <2>3, <1>3 DEF FinalizeSkips, FinalizeFails
  <2>4. ASSUME NEW u \in Uploads, ScheduleMultipartAbort(u) PROVE Due(f)'
    BY <2>4, <1>3 DEF ScheduleMultipartAbort
  <2>5. ASSUME NEW v \in Versions, ScheduleVersionDeletion(v) PROVE Due(f)'
    BY <2>5, <1>3 DEF ScheduleVersionDeletion
  <2>6. ASSUME NEW w \in Lanes, NEW j \in Jobs, ClaimOne(w, j) PROVE Due(f)'
    BY <2>6, <1>3 DEF ClaimOne
  <2>7. ASSUME NEW w \in Lanes,
               \/ Preflight(w) \/ ProviderDeletes(w) \/ ProviderFails(w)
               \/ SettleMultipart(w) \/ SettleVersion(w) \/ Crash(w)
        PROVE  Due(f)'
    BY <2>7, <1>3 DEF Preflight, ProviderDeletes, ProviderFails, SettleMultipart,
       SettleVersion, Crash
  <2>8. CASE StartPass
    BY <2>8, <1>3 DEF StartPass
  <2> QED BY <1>6, <2>1, <2>2, <2>3, <2>4, <2>5, <2>6, <2>7, <2>8 DEF Worker
<1>7. CASE UNCHANGED vars
  BY <1>3, <1>7 DEF vars
<1> QED BY <1>4, <1>5, <1>6, <1>7 DEF Next

\* A file with a self-destruct timer never waits in the bin: deleted by hand, with
\* its folder or by the sweep, it is due for its purge at once.
THEOREM TimersSkipTheBin == Spec => []SelfDestructSkipsBin
<1>1. Init => SelfDestructSkipsBin
  BY DEF Init, SelfDestructSkipsBin, Entries
<1>2. Inductive => TypeOK /\ RowsAgree
  BY DEF Inductive
<1>3. TypeOK /\ RowsAgree /\ SelfDestructSkipsBin /\ [Next]_vars => SelfDestructSkipsBin'
  BY StepSkipsBin
<1> QED BY <1>1, <1>2, <1>3, InductiveHolds, PTL DEF Spec

\* Leave ends the claim of the lane that leaves, and no other.
LEMMA LeaveEndsOwn ==
    ASSUME TypeOK, NEW w \in Lanes, NEW j \in Jobs, NEW status, Leave(w, j, status),
           lane[w].job = j, NEW i \in Jobs, job[i] = "processing", job'[i] # "processing"
    PROVE  lane[token[i]].job = i /\ lane'[token[i]] = Idle
<1>1. lane'[w] = Idle
  BY DEF Leave, TypeOK
<1>2. Held(w, j) /\ job' = [job EXCEPT ![j] = status]
  BY DEF Leave, queue
<1>3. i = j
  BY <1>2 DEF TypeOK
<1> QED BY <1>1, <1>2, <1>3 DEF Held

\* Only the lane that holds the lease token of a claim ends it: one whose lease
\* was taken over changes nothing when it comes back, and a purge removes only
\* jobs that are confirmed.
THEOREM ClaimsEndedByHolder == Spec => OnlyHolderEndsClaim
<1>1. Inductive /\ [Next]_vars =>
        \A j \in Jobs : job[j] = "processing" /\ job'[j] # "processing" =>
            /\ lane[token[j]].job = j
            /\ lane'[token[j]] = Idle
  <2> SUFFICES ASSUME Inductive, [Next]_vars, NEW j \in Jobs,
                      job[j] = "processing", job'[j] # "processing"
               PROVE  lane[token[j]].job = j /\ lane'[token[j]] = Idle
    OBVIOUS
  <2>0. TypeOK
    BY DEF Inductive
  <2>1. ~(UNCHANGED queue)
    BY DEF queue
  <2>2. ~Api
    BY <2>0, <2>1, JobFacts DEF Api, SoftDelete, BeginRestore, FinishRestore, RefuseRestore, MakePermanent,
       PublishVersion, InitiateUpload, PrepareCompletion, CommitCompletion, AbortUpload, TypeOK
  <2>3. ~Time
    BY <2>1 DEF Time, RetentionElapses, TimerElapses, LeaseExpires
  <2>4. ~(UNCHANGED vars)
    BY <2>1 DEF vars
  <2>5. ASSUME NEW b \in Batches, FinalizePurges(b) PROVE FALSE
    <3>1. PICK v \in VersionsOf(Rows(b)) : j = VersionJob(v)
      BY <2>5 DEF FinalizePurges
    <3>2. v \in Versions /\ FileOf[v] \in Rows(b) /\ job[VersionJob(v)] = "processing"
      BY <3>1 DEF VersionsOf
    <3>3. v \in versions
      BY <3>2 DEF Inductive, WorkIsDoomed
    <3> QED BY <2>5, <3>2, <3>3 DEF FinalizePurges, Finalizable, Unconfirmed
  <2>6. ASSUME NEW w \in Lanes, Preflight(w) \/ ProviderFails(w) \/ SettleMultipart(w)
                                \/ SettleVersion(w)
        PROVE  lane[token[j]].job = j /\ lane'[token[j]] = Idle
    <3>1. lane[w].pc # "idle" /\ lane[w].job \in Jobs
      BY <2>0, <2>6, LaneFacts DEF Preflight, ProviderFails, SettleMultipart, SettleVersion
    <3>2. \E status : Leave(w, lane[w].job, status)
      BY <2>1, <2>6 DEF Preflight, ProviderFails, SettleMultipart, SettleVersion
    <3> QED BY <2>0, <3>1, <3>2, LeaveEndsOwn
  <2>7. ASSUME NEW w \in Lanes, ProviderDeletes(w) \/ Crash(w) PROVE FALSE
    BY <2>1, <2>7 DEF ProviderDeletes, Crash
  <2>8. ASSUME NEW w \in Lanes, NEW i \in Jobs, ClaimOne(w, i) PROVE FALSE
    BY <2>0, <2>8 DEF ClaimOne, TypeOK
  <2>9. ~StartPass /\ (\A b \in Batches : ~FinalizeSkips(b) /\ ~FinalizeFails(b))
        /\ \A f \in Files : ~SweepSelfDestruct(f)
    BY <2>1 DEF StartPass, FinalizeSkips, FinalizeFails, SweepSelfDestruct
  <2>10. (\A u \in Uploads : ~ScheduleMultipartAbort(u))
         /\ \A v \in Versions : ~ScheduleVersionDeletion(v)
    BY <2>0, JobFacts DEF ScheduleMultipartAbort, ScheduleVersionDeletion, TypeOK
  <2>11. Worker
    BY <2>2, <2>3, <2>4 DEF Next
  <2> QED BY <2>5, <2>6, <2>7, <2>8, <2>9, <2>10, <2>11 DEF Worker
<1> QED BY <1>1, InductiveHolds, PTL DEF Spec, OnlyHolderEndsClaim

===============================================================================
