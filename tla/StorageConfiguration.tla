------------------------- MODULE StorageConfiguration -------------------------
(***************************************************************************)
(* A customer's own bucket: a configuration is recorded, probed with the    *)
(* provider outside any transaction, and then activated or written off,     *)
(* under the idempotency record of its request.  Uploads resolve the active *)
(* configuration before they write and look the configuration of what they  *)
(* wrote up again, by its descriptor, when they publish.                    *)
(*                                                                          *)
(* A request and the configuration it makes have one name.  Activation is   *)
(* modelled statement by statement; "tx" stages hold row locks.             *)
(***************************************************************************)
EXTENDS Naturals, Sequences, SequencesExt, FiniteSets

CONSTANTS
    Configurations,
    Unkeyed,       \* requests sent without an idempotency key
    Legacy,        \* the configuration a drive has from before drives had uuids
    Buckets, BucketOf, \* what a configuration describes, its external id apart
    Platform,      \* Briefcase's own bucket
    Configurers,   \* handlers of requests to configure
    Writes         \* uploads

ASSUME StorageAssumption ==
    /\ Unkeyed \subseteq Configurations /\ Legacy \in Configurations \ Unkeyed
    /\ BucketOf \in [Configurations -> Buckets] /\ Platform \notin Buckets \cup Configurations

VARIABLES
    config,   \* status of organization_storage_configs
    created,  \* the rows by created_at
    record,   \* idempotency record of a request; its lease runs or is over
    handler,  \* what a handler is doing, for which request, and the rows it replaces
    answers,  \* history: what clients have been told of a request
    trusts,   \* the external ids a bucket's trust policy accepts
    write     \* uploads: the bucket written to and the configuration recorded

storageVars == <<config, created, record, handler, answers, trusts, write>>

ExternalId(c) == IF c = Legacy THEN "handle" ELSE "drive"
Accepted(c) == ExternalId(c) \in trusts[BucketOf[c]]

Resting == [at |-> "idle", of |-> Legacy, replaces |-> {}]
Stages == {"idle", "probing", "passed", "failed", "tx looked", "tx replaced"}
Unsettled == {"leased", "lapsed"}

Active == {c \in Configurations : config[c] = "active"}

\* A drive has its legacy configuration, or none.
StorageInit ==
    /\ \/ config = [c \in Configurations |-> IF c = Legacy THEN "active" ELSE "none"]
          /\ created = <<Legacy>>
       \/ config = [c \in Configurations |-> "none"] /\ created = <<>>
    /\ record = [c \in Configurations |-> IF c = Legacy THEN "completed" ELSE "none"]
    /\ handler = [h \in Configurers |-> Resting]
    /\ answers = [c \in Configurations |-> {}]
    /\ trusts \in [Buckets -> (SUBSET {"handle", "drive"}) \ {{}}]
    /\ config[Legacy] = "active" => Accepted(Legacy)
    /\ write = [w \in Writes |-> [at |-> "none", bucket |-> Platform, of |-> Platform]]

-----------------------------------------------------------------------------
InStorageTx(h) == handler[h].at \in {"tx looked", "tx replaced"}

\* No other transaction holds the record or the row of the request.
Unlocked(c) == \A h \in Configurers : InStorageTx(h) => handler[h].of # c

Move(h, stage) == handler' = [handler EXCEPT ![h].at = stage]
Leave(h) == handler' = [handler EXCEPT ![h] = Resting]

\* A new request, or one whose first handler has let its lease run out.
PrepareConfiguration(h, c) ==
    /\ handler[h].at = "idle" /\ c # Legacy /\ Unlocked(c)
    /\ IF c \in Unkeyed THEN config[c] = "none" ELSE record[c] \in {"none", "lapsed"}
    /\ config[c] \in {"none", "validating"}
    /\ record' = IF c \in Unkeyed THEN record ELSE [record EXCEPT ![c] = "leased"]
    /\ config' = [config EXCEPT ![c] = "validating"]
    /\ created' = IF config[c] = "none" THEN Append(created, c) ELSE created
    /\ handler' = [handler EXCEPT ![h] = [at |-> "probing", of |-> c, replaces |-> {}]]
    /\ UNCHANGED <<answers, trusts, write>>

\* A settled request is answered from its row; 'superseded' counts as configured.
ReplayConfiguration(c) ==
    /\ c \notin Unkeyed /\ c # Legacy /\ record[c] = "completed"
    /\ config[c] \in {"active", "superseded", "failed"}
    /\ answers' = [answers EXCEPT ![c] = @ \cup {config[c] # "failed"}]
    /\ UNCHANGED <<config, created, record, handler, trusts, write>>

\* The probe writes, reads and deletes an object; it may fail for other reasons too.
Probe(h) ==
    /\ handler[h].at = "probing"
    /\ \/ Accepted(handler[h].of) /\ Move(h, "passed")
       \/ Move(h, "failed")
    /\ UNCHANGED <<config, created, record, answers, trusts, write>>

\* ensure_idempotency_in_progress and lock_storage_configuration
MaySettle(c) == Unlocked(c) /\ (c \in Unkeyed \/ record[c] \in Unsettled)

CompletedRecord(c) ==
    IF c \in Unkeyed THEN record ELSE [record EXCEPT ![c] = "completed"]

\* The answer to a COMMIT may not arrive.
Answered(c, configured) ==
    answers' \in {answers, [answers EXCEPT ![c] = @ \cup {configured}]}

\* The UPDATE that supersedes starts: its snapshot has the rows active now.
LookForActive(h) ==
    LET c == handler[h].of IN
    /\ handler[h].at = "passed" /\ MaySettle(c)
    /\ handler' = [handler EXCEPT ![h] = [at |-> "tx looked", of |-> c, replaces |-> Active \ {c}]]
    /\ UNCHANGED <<config, created, record, answers, trusts, write>>

\* It waits for a transaction that replaces the same row, then checks the row again.
Supersede(h) ==
    LET c == handler[h].of
        rows == handler[h].replaces IN
    /\ handler[h].at = "tx looked"
    /\ \A g \in Configurers \ {h} :
        handler[g].at = "tx replaced" => handler[g].replaces \cap rows = {}
    /\ handler' = [handler EXCEPT ![h] = [at |-> "tx replaced", of |-> c, replaces |-> rows \cap Active]]
    /\ UNCHANGED <<config, created, record, answers, trusts, write>>

\* Whether the unique index of active rows accepts the row of h.
IndexAccepts(h) == Active \subseteq handler[h].replaces

Activate(h) ==
    LET c == handler[h].of IN
    /\ handler[h].at = "tx replaced" /\ config[c] = "validating" /\ IndexAccepts(h)
    /\ config' = [d \in Configurations |->
                    IF d = c THEN "active"
                    ELSE IF d \in handler[h].replaces THEN "superseded" ELSE config[d]]
    /\ record' = CompletedRecord(c)
    /\ Answered(c, TRUE)
    /\ Leave(h)
    /\ UNCHANGED <<created, trusts, write>>

WriteOff(h) ==
    LET c == handler[h].of IN
    /\ handler[h].at = "failed" /\ MaySettle(c) /\ config[c] = "validating"
    /\ config' = [config EXCEPT ![c] = "failed"]
    /\ record' = CompletedRecord(c)
    /\ Answered(c, FALSE)
    /\ Leave(h)
    /\ UNCHANGED <<created, trusts, write>>

\* A conflict with another handler, or with the index, rolls back and leaves
\* the record to its lease; so do a lost connection, a crash and a disconnect.
GiveUp(h) ==
    /\ handler[h].at # "idle"
    /\ Leave(h)
    /\ UNCHANGED <<config, created, record, answers, trusts, write>>

RecordLapses(c) ==
    /\ record[c] = "leased"
    /\ record' = [record EXCEPT ![c] = "lapsed"]
    /\ UNCHANGED <<config, created, handler, answers, trusts, write>>

-----------------------------------------------------------------------------
\* The configuration that a new upload writes to.
BeginWrite(w) ==
    /\ write[w].at = "none"
    /\ \E bucket \in IF Active = {} THEN {Platform} ELSE {BucketOf[c] : c \in Active} :
        write' = [write EXCEPT ![w] = [at |-> "writing", bucket |-> bucket, of |-> Platform]]
    /\ UNCHANGED <<config, created, record, handler, answers, trusts>>

\* A faulty variant: the configuration active at publication is taken for the one written to.
IdentifyActive(bucket) ==
    IF bucket = Platform \/ Active = {} THEN Platform ELSE CHOOSE c \in Active : TRUE

\* The newest row with the descriptor of what was written, whatever its status.
IdentifyStorageTarget(bucket) ==
    IF bucket = Platform THEN Platform
    ELSE LET described == {i \in DOMAIN created : BucketOf[created[i]] = bucket}
         IN created[CHOOSE i \in described : \A j \in described : j <= i]

PublishWrite(w) ==
    /\ write[w].at = "writing"
    /\ write' = [write EXCEPT ![w] = [at |-> "published", bucket |-> write[w].bucket,
                                       of |-> IdentifyStorageTarget(write[w].bucket)]]
    /\ UNCHANGED <<config, created, record, handler, answers, trusts>>

\* What a reader of the version does: the bucket of the row, the credentials
\* of the configuration it names.
CanRead(w) ==
    IF write[w].of = Platform THEN write[w].bucket = Platform
    ELSE BucketOf[write[w].of] = write[w].bucket /\ Accepted(write[w].of)

StorageNext ==
    \/ \E h \in Configurers :
        \/ \E c \in Configurations : PrepareConfiguration(h, c)
        \/ Probe(h) \/ LookForActive(h) \/ Supersede(h) \/ Activate(h) \/ WriteOff(h) \/ GiveUp(h)
    \/ \E c \in Configurations : ReplayConfiguration(c) \/ RecordLapses(c)
    \/ \E w \in Writes : BeginWrite(w) \/ PublishWrite(w)

StorageSpec == StorageInit /\ [][StorageNext]_storageVars

-----------------------------------------------------------------------------
\* The types, and what the CHECK constraints of the tables say.
StorageTypeOK ==
    /\ config \in [Configurations -> {"none", "validating", "active", "superseded", "failed"}]
    /\ ToSet(created) = {c \in Configurations : config[c] # "none"}
    /\ record \in [Configurations -> {"none", "leased", "lapsed", "completed"}]
    /\ handler \in [Configurers -> [at : Stages, of : Configurations,
                                    replaces : SUBSET Configurations]]
    /\ answers \in [Configurations -> SUBSET BOOLEAN]
    /\ trusts \in [Buckets -> SUBSET {"handle", "drive"}]
    /\ write \in [Writes -> [at : {"none", "writing", "published"},
                             bucket : Buckets \cup {Platform},
                             of : Configurations \cup {Platform}]]

\* Two activations at once leave one active configuration.
OneDestination == Cardinality(Active) <= 1

\* Whichever handler settles a request, clients are told one outcome of it, and
\* the record is completed exactly when the row is settled.
OneOutcome ==
    /\ \A c \in Configurations : Cardinality(answers[c]) <= 1
    /\ \A c \in Configurations \ (Unkeyed \cup {Legacy}) :
        (record[c] = "completed") <=> (config[c] \in {"active", "superseded", "failed"})

\* A version names a configuration of the bucket its object is in, whatever was
\* activated between the write and the publication, and one it can be read with,
\* unless the bucket was submitted again and that configuration never passed.
VersionsNameTheirBucket ==
    \A w \in Writes : write[w].at = "published" =>
        \/ CanRead(w)
        \/ /\ write[w].of # Platform /\ BucketOf[write[w].of] = write[w].bucket
           /\ config[write[w].of] \in {"validating", "failed"}

\* No request is answered both ways, no drive writes to two buckets at once, and
\* what is published can be found: together, the promise of this component.
StorageHolds == OneDestination /\ OneOutcome /\ VersionsNameTheirBucket

\* A drive that has a destination keeps one, through every switch.
DestinationStays == [][Active # {} => Active' # {}]_storageVars

===============================================================================
