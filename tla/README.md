# A verification of Silicon Briefcase

TLA+ modules for the parts of Silicon Briefcase that hold state and run
concurrently, or that decide what a request is answered with: the Rust API and
worker (`src/src`), the PostgreSQL schema with its triggers (`src/migrations`), the
command line and its client library (`src/clients/rust`), the object store and
Silicon Accounts as far as this code uses them. TLC checks the modules on small
instances; TLAPS proves the theorems listed below for every instance. Paths are
relative to the repository, whose root is `src/`.

Contents: [the system](#the-system), [the modules](#the-modules),
[the runs](#the-runs), [the proofs](#the-proofs), [what the checks found](#what-the-checks-found),
[what is not modelled](#what-is-not-modelled), [plan](#plan).

## The system

A Briefcase is a drive per account: folders and files, immutable file versions
whose bytes are in an S3 bucket, sharing, a bin with 45 days of retention. API
hosts and worker hosts share one PostgreSQL database and the buckets, and
nothing else: every interaction between two of them is a row, a row lock, a
unique index or an object key. That is where the hard behaviours are:

- PostgreSQL runs transactions at READ COMMITTED. Each statement has a snapshot
  of its own and waits for row locks one at a time, so a check in one statement
  may be stale in the next.
- No transaction is open while the object store or Silicon Accounts is called.
  Around each call there is a reservation or a claim with a lease, and
  compensation when something fails; both can be overtaken by another host.
- Handlers are futures. A disconnect or a deadline drops them wherever they
  await, COMMIT included.
- Clients retry with idempotency keys, provider calls may have taken effect
  although they failed, and leases are compared with the database's clock.
- Hosts keep answers of Silicon Accounts in memory, and processes of one user
  share a file with single-use tokens.

| component | state | operations | hard behaviour | correct when | module |
|---|---|---|---|---|---|
| Retention and object cleanup (`worker/cleanup.rs`, migration 0006) | cleanup jobs, deletion batches, version rows, objects | schedule, claim, preflight, provider call, settle, finalize | lost leases, crashes between provider and database, deadlines passing under a restore | only due content is destroyed, rows go after their objects, every due batch is purged | `ObjectCleanup` |
| Self-destruct and expiring shares (`worker/lifetimes.rs`) | `self_destruct_at`, `expires_at` | sweep, make permanent, extend | a sweep against the owner's change of mind | a share ends once and the log says so once | `ObjectCleanup`, `Shares` |
| Entry tree (`postgres/metadata/mod.rs`, migrations 0001, 0007, 0028) | `entries`, `entry_closure`, `path` | create, move, rename, delete, restore | statement-level interleavings under row locks | closure and paths agree with `parent_id`, no live entry below a deleted folder | `EntryTree` |
| File publication, idempotency (`application/content.rs`, `postgres/content.rs`) | `idempotency_records`, version rows, objects | reserve, take over, write, commit, compensate, release | take-over of a running attempt, cancelled handlers, unknown COMMITs | at most one effect per key, published content is never deleted | `Publication`, `VersionCopy` |
| Multipart uploads | `multipart_uploads`, `multipart_parts`, provider sessions | initiate, send parts, complete, expire | completion with an unknown result, parts that arrive late | one file per upload, exactly its parts, no session forgotten | `MultipartUpload`, `UploadPlan` |
| Delegated uploads (migration 0026, `worker/delegated_cleanup.rs`) | reservations, leases, provider deadlines | reserve, lease, write, stage, commit, cancel, clean up | cleanup while a write is in flight | no published object deleted, nothing left of the others | `DelegatedUpload` |
| Usage and quota (`postgres/quota.rs`) | daily and stored bytes | charge, release | bytes counted twice or never while reservations become versions | limits hold over both | `Quota` |
| Permissions (`domain/permission.rs` and its copies in SQL) | grants, ownership, the tree | share, move, delete, restore | one rule written several times | the copies agree | `AccessRights` |
| Custodians and circles (`accounts/directory.rs`, `handlers/permissions.rs`, `postgres/drives.rs`) | rows of accounts, allowances, shares | share, allow, enter a drive, learn custodians | rows believed for a while, events late and in any order, several rows read before one act | a Silicon is open to its circle and to those it allowed | `Circles` |
| Requests of other apps (`api/handlers/delegated.rs`, `application/delegated_upload.rs`, `briefcase app request`) | operation records, uploads, capability files | authenticate, locate, act, repeat | the entry is found before the transaction that acts on it; commands that stop waiting | an app keeps to its folder, to what it made, and acts once | `AppRequests` |
| Listings (`service/entries.rs`) | a cursor | page, refill, take | entries change during a walk; three-valued conditions | nothing undisturbed is missed or listed twice | `Listing` |
| Filters (`domain/filter.rs`, `metadata/filter.rs`, `domain/media.rs`) | a text being typed | parse, lower to SQL | errors in one of many forms; patterns and dates at their edges | what is parsed is what was typed, SQL selects what the filter says | `FilterLanguage` |
| Reading and archives (`api/delivery.rs`, `handlers/archive*.rs`, `archive_listing.rs`) | a request | ranges, folder downloads, listings of archives | each file opened on its own reading of the database | what is sent is what was asked, and says when it is not whole | `ContentDelivery`, `ArchiveIndex` |
| Shares, links, invitations (`postgres/invitations.rs`, `sharing.rs`) | grants, links | grant, extend, revoke, expire | a change that spans the deadline it changes | one end per share | `Shares` |
| Storage configuration | a drive's own bucket | prepare, probe, activate, write off | two activations, uploads begun under the one replaced | every version names the bucket it is in | `StorageConfiguration` |
| Outbox and e-mail (`worker/outbox.rs`) | `outbox_events` | claim, renew, post, retry, dead-letter | a lease lost while a mail is sent | settled in the end, mailed once per fault | `Outbox` |
| Search documents (`worker/extraction.rs`, `maintenance.rs`) | `search_documents` | insert, reset, extract, settle, rename | a version read before and settled after the next one | the text indexed is the current one | `SearchIndex` |
| Accounts and signed events (`postgres/accounts.rs`) | the account cache | apply a token, an event, a lookup | any order, any number of times | sign-ins that ended stay ended | `Accounts` |
| What a host keeps of Silicon Accounts (`infrastructure/accounts*`) | signing keys, introspection answers, a lookup budget | verify, introspect, forget | rotation and sign-out during a call | a belief is never older than its bound | `AccountsGateway` |
| Cutover to personal drives (`postgres/link_identities/`) | the tables and a ledger | link, undo, re-key | corrections after the drives were used | undoing gives back what was there | `IdentityLinks` |
| Command line (`briefcase-cli`, `briefcase-client`) | `credentials.json` | login, logout, refresh, retry a mutation, status | processes sharing single-use tokens; killed processes | neither sign-ins nor results are lost | `CommandLine`, `DeviceSignIn` |
| HTTP routing and rendering, notifications, web interface, deployment | | | | | see [what is not modelled](#what-is-not-modelled) |

`PROJECT.json` lists the components with their sources and, under `hazards`,
what can go wrong in this code at which line, with the properties that would
show it.

## The modules

| module | models |
|---|---|
| `ObjectCleanup` | retention and physical deletion: bin, self-destruct sweep, cleanup queue, finalizer |
| `EntryTree` | the tree under concurrent transactions, statement by statement |
| `Publication` | publishing a version: idempotency record, object write, commit, compensation |
| `PublishOnce` | what an idempotency key promises; `Publication` and `MultipartUpload` implement it |
| `VersionCopy` | the object of a restored version, by each of the four routes of the copy |
| `MultipartUpload` | a large file in parts, under two idempotency records |
| `UploadPlan` | how a file is cut into parts, against what the store accepts |
| `DelegatedUpload`, `Quota` | uploads by apps, and the limits every upload answers to |
| `SearchIndex` | search documents, extraction, maintenance |
| `Outbox` | outbox events, claims, invitation mails |
| `Shares` | grants and links that expire |
| `AccessRights` | the access rule, its SQL copies and the operations under it |
| `Circles` | who looks after a Silicon and who may share with it, by rows that may be out of date |
| `AppRequests` | what other apps do with an account's files: the command, the handlers, their transactions |
| `Listing` | folder walks with cursors, refills and filters |
| `FilterLanguage` | the grammar of filters, and what SQL makes of some conditions |
| `ArchiveIndex`, `ContentDelivery` | reading files, ranges, archives and folders |
| `Accounts` | the cache of accounts under tokens, lookups and events |
| `AccountsGateway` | keys, introspection answers and lookups of one host |
| `StorageConfiguration` | customer buckets |
| `IdentityLinks` | the cutover from organizations to drives |
| `CommandLine`, `DeviceSignIn` | processes of the command line that share one home |
| `*_proofs` | the theorems about the module of that name; `MultipartUpload_proofs` also has those about `UploadPlan`, `Services_proofs` those about `Outbox`, `SearchIndex`, `StorageConfiguration`, `Shares`, `CommandLine` and `VersionCopy`, `Accounts_proofs` those about `AccountsGateway` and `DeviceSignIn` |
| `MC*` | the instances TLC checks; `MCDrive`, `MCRules`, `MCServices` and `MCWorkers` put components that share no state side by side, one of them taking steps in a behaviour |

They overlap where the components meet. `ObjectCleanup` has deletion and restore as
one transaction each (a restore as two), because `EntryTree` shows what their
statements do to the tree; `Publication` takes one file and asks what happens to its
objects; in `ObjectCleanup` a publication is one step, and a multipart session is
the status of its row. `DelegatedUpload` extends `Quota`, `ContentDelivery` extends
`ArchiveIndex`, `FilterLanguage` extends `Listing`, and `MultipartUpload` and `Publication` share the promise `PublishOnce`.

### ObjectCleanup

One action is one transaction or one provider call. `SoftDelete` puts a live subtree
into a new deletion batch, the files with a timer into a second one that is due at
once. `BeginRestore` and `FinishRestore` are the two halves of `restore_bin_entry`:
the first locks the batch root and checks `purge_after`, the second locks and
restores the rest. `RetentionElapses` lets a batch become due; `dueRank` keeps the
order of `purge_after`, by which the finalizer walks the batches. The worker
schedules jobs (`ScheduleVersionDeletion`, `ScheduleMultipartAbort`), claims them
(`ClaimOne`: pending ones, or processing ones whose lease is over), reads once more
whether the version is due (`Preflight`), calls the provider (`ProviderDeletes`,
`ProviderFails`), and settles (`SettleVersion`, `SettleMultipart`) if it still holds
the token. A `Crash` forgets what a lane did, at any point. The finalizer lists the
due batches (`StartPass`) and for each one skips, purges or fails; a failure ends the
pass, as `?` does.

Abstractions: a version row and its object have one name, so a key is never
reused; time is "ahead" or "passed" per batch, timer and lease; the back-off of
a pending job is dropped, so a job may be claimed at any time (more behaviours
than the code has). Bounds of the model itself: one finalizer pass at a time (hosts
run it concurrently, but each batch under an advisory lock and after re-reading the
batch) and one restore in flight at a time, and an entry under that restore is not
deleted meanwhile, because the restore holds its row lock.

### EntryTree

`tx[c]` is what a session's transaction is doing: the operation, the rows that the
running statement has still to lock (`want`, in `mode`), and what earlier statements
read (`rows`, `cut`, `graft`, `below`, `seen`). `held` has the four PostgreSQL row
lock strengths, and `LockRow` is one lock acquired; two strengths conflict exactly when they
sum to five or more. Reads and writes of a statement use the state committed
when it starts, as READ COMMITTED does; what it writes appears at `Commit...`.
The closure and path columns are maintained as the triggers do it: `Detach` and
`Attach` are the two statements of the closure trigger, `DerivePath` the share lock
on the parent row, `Relocate` the prefix rewrite. `Abort` may happen at any
moment: it stands for a refused capability, a deadlock victim and a connection, so that PostgreSQL's way out of a deadlock is in the model. A commit that
would give two live entries one path fails (`UniquePaths`).

A point the model makes explicit: a new closure row references all ancestors of the
new entry, and the foreign key takes a key-share lock on each. That is what freezes
a folder being deleted (its rows are locked FOR UPDATE) against insertions anywhere
below it: without it (`UncheckedRows`) a live entry ends below a deleted folder.

Paths have one hole. The rows whose prefix a rename rewrites are those its statement's
snapshot finds below the entry, and a move may commit a row out of the folder while the
rename waits for its lock. `Overtaken` is such a rename. `PathsBreakOnlyByMovesOut` says that nothing
else breaks a path: not what is created below a folder that is renamed or moved meanwhile, moved
into it, moved with it, or restored to another place.

### Publication, PublishOnce and VersionCopy

The unit of `Publication` is an attempt: one run of the handler. `Requests` are
idempotency keys, `RequestOf` says which attempts carry out which request, and the
requests in `Restores` restore an old version (they renew their lease while they
copy; there is a version at the start). `Reserve`, `TakeOver`, `Replay` and
`RefuseBusy` are the outcomes of the prepare transaction; `Land` is the provider
carrying a write out, which is separate from what the attempt is told
(`PutSucceeds`, `PutFails`); `BeginCommit` locks the file and computes the version
number, `Publish` is the COMMIT executed, `Reply` its answer, `LoseCommit` an answer
that never comes. `Cancel` drops the handler, whose guard then cleans up: `Discover`
chooses the object (the attempt's own if it learnt its provider version, otherwise
the latest under the key), `Delete` removes it. `Release` gives the record back. The
key of an attempt is the identifier proposed by whoever first reserved the record,
which is why two attempts can share one.

`Outlasting`, `Interrupted` and `Abandoned` say what may happen to whom: which uploads may
run longer than their lease (it is five minutes, a request may take fifteen), which attempts may be
cancelled or crash, and which may be cancelled while they await COMMIT. The theorems hold for any
choice; the passing run has an upload to which all of it happens. `outlived` remembers the requests
whose lease ran out under a running attempt, and `ContentLostTwoWays` says what follows: the object of a
version is lost only if its own attempt was cancelled in COMMIT, or if its request outlived its
lease and an attempt under the same key cleaned up without knowing which object was its own. The
bucket is versioned, as deployment requires; deletion of the file is left to `ObjectCleanup`.

`VersionCopy` opens the one step "the object is copied" of a restore: `shape` has
the route (CopyObject, parts copied inside the store, through a file of the host, or
ranges streamed through it), every provider call takes effect, is answered, is lost
or is dropped with its request, and `undo` holds the cleanups that have not ended.

### MultipartUpload and UploadPlan

A try is one run of the handler. `record` and `leased` are the two idempotency
records, of the initiation and of the completion; `upload` is the status of the row
and `session` that of the provider's session. `call[t]` is the provider call of a try
that has not been carried out yet: it takes effect at any later time, also after an
abort, which is how a part makes an aborted session live on.

Both COMMITs are two steps, the transaction taking effect and its answer. Between them the handler
waits with its guard armed: in `inserted` after the initiation (`CommitInitiation`,
`InitiationAnswered`), in `reply` after the completion. A handler dropped there deletes what is stored under the
key, which after an initiation may be what another try has since completed and
published. `Outlasting` and `Interrupted` name the tries that may run past the lease of their record
and those that may be dropped or crash, `LosingCommit` those that may also be dropped, or be told of a lost
connection, while they await COMMIT. `mistaken` remembers the tries whose lease ran out under them and those
that took a COMMIT which had taken effect for one that had not. `LostOnlyByMistake`: the object of
a published file is lost only if a try with its key is one of them.

`UploadPlan` has the arithmetic of
`domain/multipart.rs` with its limits as parameters, and an upload that sends part
after part where the plan says.

### DelegatedUpload and Quota

`row` is `delegated_uploads`, `writer` the holder of the lease, `call` the store call
that has not taken effect, `job` a cleanup claim. `Reserve` charges the pending bytes
under the usage row's lock, `Begin...` takes the lease and asks the row before each call,
`Stage`, `Commit` in two phases and `Cancel` end it, and a cleanup worker may end a
row only when every provider deadline has passed and nothing is found (the quiescent
cleanup). `Quota` has the two limits and the charge as one step.

### SearchIndex, Outbox, Shares

In `SearchIndex` a publication resets the document in its own transaction; a pass of
extraction (`ListPending`, `Extract`, `Defer`) settles what is still pending, and
maintenance (`ReadNames`, `CommitMaintenance`) writes names it has read. `Outbox` has a host's
batch as a unit: `Claim`, `Dispatch`, the answers, `LeaseEnds`, `RetryDue`; `mails`
counts what Postmark has accepted. `Shares` has one entry: `change` is the transaction that holds
its lock, whose statements each read the clock; `Sweep` takes rows without it.

### AccessRights, Listing, ContentDelivery

`AccessRights` defines the rule as policy does (`Allows`) and as each SQL statement
does, and lets accounts share, move, delete and restore under it; the properties
compare the definitions in every drive that arises. `Listing` walks a folder page by
page with the keyset cursor, its refills and the half of the filter that SQL decides.
`ContentDelivery` serves one request: the openings of files (authorize, open,
record) are steps, and other requests publish, move, rename, trash or withdraw
between them; `ArchiveIndex` says what is read of an archive and where it is found.

`FilterLanguage` is a text typed letter by letter (`Alphabets` lists the pieces), and what
the parser makes of every prefix: a tree, or an error. Properties compare the tree with a
reference grammar, and `location:`, `is:` and date conditions as SQL with what they say of a
file (`Samples`).

### Circles

`ward` is what Silicon Accounts says, `known` what Briefcase has in `briefcase.accounts`. A
request is an errand with a list of what is still to do (`todo`): each item reads one row
(`UseRow`), asks Silicon Accounts (`AskAccounts`, `StoreAnswer`) or does without
(`FallBack`), and leaves a fact on which the last step acts (`PermitShare` then `GrantShare`,
`ChangeList`, `GoOn` for a request in another drive). Meanwhile custodians change (`Handover`),
accounts are deleted (`CloseAccount`), and events are heard late and in any order (`HearNews`,
`HearFarewell`, `HearOther`, `HearSignOut`). A request is judged by what it could know at any time
while it ran (`hints`): what was true then or within the time a row is believed.

### AppRequests

A call is a command with its handler. `BeginCall` is the local part (files that the answer will
need are claimed before anything is sent), `Authenticate` the verification of the proof,
`Locate` the reading of the folder or entry, and the rest the transactions, each with what
it looks at again (`Parent`, `Sees`) and, for operations with a record, its repetition
(`Repeat...`). `HangUp` is a command that stops waiting while its handler goes on,
`TimeRunsOut` the expiry of records and uploads, `AccountWorks`, `OthersWithdraw` and `TrustEnds` what happens
between finding and acting. The staging of bytes is `DelegatedUpload`'s; the rights the account
has anyway are `AccessRights`', so that a request may be refused wherever they could refuse it.

### Accounts, AccountsGateway, StorageConfiguration, IdentityLinks

`Accounts` applies tokens, lookups and signed events in any order to a row per
account. `AccountsGateway` has three parts that share a clock: the key cache with
its single-flight refresh, the memo of introspections, the token bucket of lookups.
`StorageConfiguration` has requests to configure, statement by statement where rows
are locked, next to uploads that resolve a target and record it later.
`IdentityLinks` has a run of link-identities as one action (it is one transaction behind
exclusive locks on a drained system), composed of the phases of its program in their order, with the ledger
that undoing reads; users work between runs.

### CommandLine, DeviceSignIn

`CommandLine` has processes that share a profile: the file lock, the refresh of
single-use tokens, logins and logouts, and the retry identity of a mutation. A
process may be killed anywhere and any answer may be lost. A key is random, so a new one
is none that the file, Briefcase or a process knows (`FreshKeys`); `replaced` remembers the keys
whose place in the file another intent has taken, which is when a rerun can no longer find
its result. `DeviceSignIn` has one
login in detail, against the clock: the check of the deployment before anything is
spent, the device code with its interval and deadline, the short-lived token that is
spent once, the file set aside, the replaced sign-in revoked; and, beside it, a
`login status` that refreshes and renames the account in the file.

## The runs

Every run ends within five minutes with two TLC workers: `Drive`, `Rules`
(650 000 states) and `Services` (960 000) take two to four, the others half a minute to two and a half. Each
property checked by a passing run has a mutant in `PROJECT.json`: a plausible bug of
the code that this run does detect.

| run | asks | instance, and why it is enough |
|---|---|---|
| `ObjectCleanup_bin` | is only due content destroyed, are rows dropped after objects, do batches move as wholes, does only the lease holder end a claim, does a timer skip the bin? | a folder, a file with a timer and two versions, two lanes, two batches: two lanes give every take-over, two batches the nested deletion of file and folder, two versions a batch half confirmed |
| `ObjectCleanup_purge` | is every due batch purged in the end? (fair) | a folder and a file that a multipart upload creates in it, two batches, one lane |
| `Drive` | do closure and tree agree, is nothing live below a deleted folder, is nothing deleted unchecked, does nothing but a move out of a renamed folder break a path? do the copies of the access rule agree, can what may be read be reached? | two sessions, two nested folders and an entry to create, two deletions: every pair of operations, with room for a third after one of them has finished. Renames run with creations and moves, for as long as the paths are right. Deletions and creations also have four entries: two nested folders and two entries to create one below the other, which is what it takes to insert below a row that a deletion has not listed. Three accounts, of which one looks after another, three entries and a grant |
| `EntryTree_moves` | are paths always those of the folders? violated | two sessions, a rename and a move out of the renamed folder |
| `Publication_lease` | is a published object lost only in the two ways named, are versions numbered, does a failure clean up, at most one effect per key? | two attempts at an upload, a restore of a version of the same file; the upload may run past its lease, so that the second attempt takes over from a first that is still running, and the first may crash or be cancelled anywhere, in COMMIT too |
| `Publication_cancel` | and is it never lost? violated | two attempts, one cancelled in COMMIT |
| `Uploads_delegated` | is published content safe, is nothing left of the rest, do the limits hold over both counters? | a single and a multipart upload against a limit that fits one of them, two workers, store calls that outlive their lease but not the provider's deadline, four units of time: one lease, one deadline and one grace period end within it |
| `Multipart_parts` | is a published object lost only to a mistake, is a file exactly its parts, no session forgotten, at most one effect per key? | three tries in two parts. One may run past its lease, be dropped or crash anywhere, in either COMMIT too, and miss answers; a second takes over from it, a third meets both |
| `Multipart_commit` | and is it never lost? violated | two tries, one of which is misled about the COMMIT of its completion |
| `Rules` | are plans accepted by the store, is a listing or a download what was asked for, does a filter mean what was typed, is a Silicon open to the entitled only, do apps keep to what they may do? | five entries in pages of two with a refill; plans of every size up to a scaled limit; four files and a folder, one disturbance by another request; texts of up to five letters from alphabets that meet every rule of the grammar; two Carbons and two Silicons, two requests at once, a row believed for two of four days; two requests of apps, of which one is confined, in two folders with one change meanwhile |
| `Services` | safety of nine components that share no state | two hosts, two commands, two accounts and so on: two actors at each shared thing, and as many faults as it takes to lose a lease and an answer |
| `Workers` | do events settle, are expired shares written off, do documents get the name and text of their file? (fair) | the same, with fewer faults, since the liveness check costs more; one of two files is in a bucket that refuses every read |

In `Drive`, `Rules`, `Services` and `Workers` one component, chosen at the start, takes steps; the
components share no variable, so this is what each of them does alone.

`CHECK_DEADLOCK FALSE` appears where identifiers, attempts or time are finite in
the model and a behaviour uses them up: the system then rests. In the code they are
unbounded. Each configuration says which.

Symmetry is used on lanes, on sessions of the tree, on the entries of a drive and on the two
multipart tries to which nothing happens, in runs without temporal properties other than action
properties.

**Bounds of the models.** `MaxBatches`, `MaxTime`, `MaxFaults`, `MaxAttempts`, `MaxChanges`,
`MaxSignIns`, `MaxKeys`, `MaxRuns`, `MaxDisturbances` and their like stand in guards and bound how much
happens, not how; the theorems hold for every value of them. `DeviceSignIn` has a clock of five
units: a code lives four of them, an interval is zero or one, and one slow-down, expiry and
poll in between fit. One fault of each kind suffices where a fault leaves the state as a
crash would.

`Circles`, `AppRequests` and `FilterLanguage` have many things that may happen, and together
too many to explore. Their bounds are sequences of menus (`Settings`, `Menus`,
`Alphabets`): one is chosen at the start and says what this behaviour may contain, so that each menu
explores in full one group of things that bear upon each other. The theorems hold for every menu.
`MCRules` and `MCServices` name what the constants of a configuration stand for once
(`MCSettings == CircleSettings`), because TLC evaluates a definition that replaces a constant at every use.

**Fairness.** Clients promise nothing: no delete, upload or completion is ever forced.

- `FairSpec` of `ObjectCleanup`: clocks advance, so retention ends and leases expire. The
  worker's loop ticks for ever (`worker/mod.rs`, `interval` with missed ticks skipped),
  which gives weak fairness to scheduling and to the finalizer. Claims, preflights,
  provider calls and settlements get strong fairness: any of them can be undone by a
  crash, a lost lease or a provider error, the code retries without limit, and strong
  fairness says that what is tried again and again is not refused for ever. A restore in
  flight ends, by the database's own timeouts.
- `Workers`: weak fairness of claiming, dispatching, the retry time and the end of a
  lease in the outbox, of the sweep of shares, and of each step of a transaction that
  changes a share; strong fairness of the commits of maintenance and extraction, which
  a concurrent publication makes fail and which the next tick tries again. That every pending
  document is extracted needs fewer unreadable files than `BatchLimit`: unreadable
  documents stay in front of the queue.

## The proofs

The theorems hold for any number of everything, finite or not where finiteness is not
assumed. They use the assumptions named in the components' modules, which say how
the constants fit together (an upload has one file, the platform's bucket is not a
customer's); TLC evaluates each of them in the runs. Hypotheses beyond these are in
the table.

| theorem | says | assumes |
|---|---|---|
| **`ObjectCleanup_proofs`** | | |
| `TypeCorrect` | types and CHECK constraints of the tables | |
| `RetentionSafe` | the content of a file that is live or retained is in the store | |
| `NoOrphans` | no object without a row | |
| `ConfirmationIsTrue` | a job marked `object_deleted` is right | |
| `SettlementSafe` | a settlement concerns a version that is due | |
| `BatchesAlwaysMoveTogether` | a batch is deleted, restored and purged as a whole | |
| `TimersSkipTheBin` | a deleted file with a timer is due at once | |
| `ClaimsEndedByHolder` | only the holder of a lease ends its claim | |
| `CallsAlwaysSettleTruly` | what the run checks as one property of a call: it is confirmed truly and settles a version that is due | |
| **`Publication_proofs`** | | |
| `TypeCorrect` | types; a lease belongs to a record in progress | |
| `NumbersConsecutive` | version numbers have no gap and are free when inserted | |
| `FailuresClean` | a failed attempt that knew its object leaves none | |
| `OnceImplemented` | `PublishOnce`: a key takes effect at most once, success is reported only then | |
| `ContentStored` | the object of a published version is lost only in the two ways named | |
| **`MultipartUpload_proofs`** | | |
| `OnceImplemented` | `PublishOnce` | |
| `TypeCorrect` | types of the rows | |
| `PartsAlwaysAccountedFor` | a file is exactly its recorded parts, a given-up upload leaves none | |
| `PublishedStays` | the object of a published upload is lost only to a mistake of a try with its key | |
| `PlanIsSound` | every plan is one the store accepts and its parts add up to the file | |
| **`DelegatedUpload_proofs`** | | |
| `TypeCorrect` | types | |
| `CleanupIsSafeAlways` | the object of a published upload stays; an upload that was cleaned up has left nothing, and nothing of it is on its way; cleanup waits for the last client to give up | |
| `WithinLimitsAlways` | stored, daily and pending bytes stay within the limits | |
| **`EntryTree_proofs`** | | |
| `TypeCorrect` | types | |
| `ClosureAlwaysMatches` | the closure table is the closure of `parent_id`, which is a tree | |
| `NeverLiveBelowDeleted` | no live entry below a deleted folder | |
| `DeletesAlwaysChecked` | nothing is deleted that the check did not cover | |
| `OnlyMovesOutBreakPaths` | paths follow parents and names, except for what a move takes out of a folder that is being renamed | |
| **`AccessRights_proofs`** | | |
| `DriveTypeCorrect` | a drive is a tree with the rows the schema allows | |
| `PrefiltersAlwaysAgree` | the SQL copies of the rule select what domain policy allows | |
| `TreeAlwaysNavigable` | what may be read is reached through folders that are shown | |
| `AppRequestsAlwaysHold` | an app that acts for an account keeps to its folder, bins what it made, takes effect once for each operation, publishes the bytes it was promised, and its commands report the truth | |
| **`Services_proofs`** | | |
| `MailsAlwaysAccountedFor` | an invitation is mailed once, and once more per fault at most | |
| `OutcomeNeverChanges` | a settled event stays as it was settled | |
| `IndexStaysCurrent` | an indexed document has the text of the current version, with the exceptions `IndexedIsCurrentUnlessOvertaken` names | |
| `StorageAlwaysHolds` | one destination per drive, one answer per request, and versions name the bucket they are in | |
| `DestinationAlwaysStays` | a drive that has a destination keeps one | |
| `SharesAlwaysEndOnce` | a share or a link ends once and for good, with its end in the log | |
| `KeepingNeverTakes` | making a share permanent takes no access from anyone | |
| `CommandsAlwaysRecover` | no sign-in and no result of a command is lost among the processes of a profile | |
| `OnlyLoginsSignIn` | only a login signs a profile in | |
| `CopiesAlwaysHold` | a published restore has the bytes of its version and no other object under its key, a failed one leaves nothing, with the exceptions `Doubled` and `excused` | |
| **`Accounts_proofs`** | | |
| `AccountsAlwaysFollowEvents` | who is served, and what a row says once it has heard everything, follow what Silicon Accounts announced | |
| `EndingsAlwaysStay` | a deletion is final, an end of sign-ins is never taken back | |
| `SightingsStayInOrder` | only an outrun lookup brings back an older id | |
| `BeliefsAlwaysBounded` | keys, introspection answers and lookups of a host stay within the times and the budget of the code | |
| `GatewayAlwaysTyped` | types | |
| `SignInsAlwaysHold` | a login spends nothing that would be refused, asks no faster than it was told, leaves no sign-in behind and mixes no two accounts; its reports are true, with the exception `unsure` for a status | |

No theorem assumes that a lease is long enough, that no handler is dropped, or that a COMMIT is
answered: where the code depends on such a hope, the property says what follows when it fails.

### ObjectCleanup_proofs

None of the properties is inductive alone. A lane between its preflight and its provider
call relies on a check made earlier, and the row it checked can change. `WorkIsDoomed`
says why that is harmless: a version for which there is a job, or a lane past the
preflight, belongs to a file that is *doomed*: due, or `late`. A file stops being due in one
way only, by a restore that passed its check before the deadline, and
`RestoreIsTracked` says that every file such a restore will bring back has been in
`late` since its batch became due. `RowsAgree` (a version has its entry, batch numbers have been
handed out) completes `Inductive`. There is one lemma per action
(`SoftDeleteKeeps`, ...), each split by the conjuncts the action can disturb, and
`StepInductive` puts them together. `late` is a history variable: the theorem is
exact about which files cleanup can hurt. For the batches `HangsBelow` joins the invariant: an
entry of a batch hangs below the root of that batch, so what restores or purges the
root finds it.

### Publication_proofs

`Inductive` (in `Publication`) has these parts. `Locking`: the holder of the file's
row lock is the one about to publish, and the number it computed is the count of versions
plus one, which is `NumbersConsecutive` for a step that inserts. `Recorded`: a record
is completed exactly when an attempt with its key has published; since publishing requires
a record in progress, this gives the step simulation of `OnceImplemented`, in which
`Publish` maps to a publication, `Reply` and `Replay` to an answer and all else to a stutter. `Cleaned`: an
attempt that learnt its provider version cleans up that object and no other. `Keyed`: keys and
victims of a cleanup stay within a request. `Exclusive` says what a lease is good for: as long as a
request has not outlived its lease, one attempt at a time runs with its key, and the record is its own. So a
cleanup that does not know its object finds that of a published version only for a request that
has outlived its lease, and one that knows it deletes its own. `NextNumberFollows` and `LatestFound` say that the two CHOOSEs of the module, the
greatest number and the latest object, exist; the second by well-foundedness, since the
set of attempts need not be finite.

### MultipartUpload_proofs

The promise of the keys needs the two records alone (`Recorded`). That parts are
accounted for needs more: `Receipt`, that one row is ever inserted, under the identifier its record
then names, and every try that got past the initiation works on it; and `Frozen`, that the parts a completion has
read stay as they are, because the status they are guarded by is `completing`. All this holds
however long tries run, as a transaction that finds the record completed or the row there
fails.

That the object stays needs the leases. `Held` and `Kept` say of an upload no try of which is
mistaken (`Undisturbed`): one try at a time holds its initiation, and the row is not there
yet; one try at a time concludes it, with the record leased and in progress, so whoever withdraws the
object has not published it. A step that makes a try mistaken has nothing more to show for
its key, and any other step keeps both.

### DelegatedUpload_proofs

`Untouched`: a row that was never written has left nothing at the provider. `Due` and `Writing`: a call is
preceded by a row that says so, with a deadline later than the call can take effect, so
that a cleanup that has waited for the deadline and the grace period meets no call on its
way. The counters are sums over uploads in flight; their lemmas are about sums over finite
sets in which one member changes.

### EntryTree_proofs

The closure table is kept right by the row locks, and the theorem says how. The
statement that adds links takes a key-share lock on each entry they name. A session
that holds a row for update therefore sees nothing new above or below it, and may lock
the rest of a subtree one row at a time while what it has listed stays complete. That
two incompatible locks are never held on a row (`Locks`) is the base of the invariant; on it
rest that a link's rows are live when a statement has checked them, that `Detach` and
`Attach` together replace exactly the links through the moved entry, and that the set
deleted at commit is the subtree that was checked. `InitialTree`, the assumption on the
tree at the start, is evaluated by TLC in both runs.

For the paths, `Listed` says what a transaction knows: the rows it will rewrite include all that are below the
entry when it commits, since nothing comes in below a row that is held for update. If they also include no
other, every one of them gets the path of its folders, and every other keeps it (`RenameStraight`). A move
of a subtree holds all its rows, so `Relocate` rewrites exactly what moves, and a restore likewise.

### AccessRights_proofs

`Enclosing` is a recursive function, and what it computes cannot be found by induction
here. `Over` says the same by sets: what an entry sits in is the least set of places
that has the entry and is closed under parents. `Rooted`, that every entry leads to
the root, makes the two equal, and every operation keeps it. `BatchesClosed`, that the
ancestors of a live entry are live, makes a readable entry reachable; that the ancestors of an
entry lie in a line makes the SQL that asks for the nearest boundary agree with the rule
that asks for any.

For the requests of apps (`RequestsInv`): every effect of a recorded operation is remembered, by its
record until that expires (`lapsed`) and a publication by its upload for ever (`EffectsRemembered`), and
conversely every record has its effect (`RecordsTrue`), so what finds no record has had no effect that still
counts. What a request knows when it acts is what stays true: in which drive the entry is and
who made it, not where it is or whether it is still there, which is why the transaction looks at
those again (`FoundFits`). A capability that was asked for is kept in the file the request has
claimed for its upload (`CapabilitiesFit`).

### Services_proofs

For the outbox, `MailsPaid`: every mail is paid for by the delivery or by a fault, and a
host that was overtaken still has the fault of its lost lease to spend, so hosts that
are overdue are counted together with mails. For the search index: what a pass has read
is the current version, or the document was reset since, or the exception applies.
For customer storage: a configuration is activated only after its bucket has accepted the
drive, and what a bucket accepts does not change; the rows that transactions are about to
replace are active and disjoint; and every write names a row that describes the bucket it
goes to. For shares (`GoodRow`): an end in the log means that the row was revoked or
written off after its expiry; and a change holds a lock it took while the row was live, which
keeps the sweep away until it ends. For the command line (`CommandsInductive`): the holder
of the file lock knows what is in the file; a sign-in on its way to the file is in
nobody else's hands; the saved turn is the one Silicon Accounts expects unless an answer or
its holder was lost; and what is known of a key is one request, pending until its result
is seen or another intent takes its place. For the copy of a restore (`CopyKnown`): unless a
copy was carried out twice, at most one object is under the key, because each try begins by
taking or deleting what it finds; every open session is in the hands of the try or of
a cleanup; and every object left is one that a cleanup to come covers. What holds in any case is that
the object a try is about to publish is there, was checked, and outlives the cleanups.

### Accounts_proofs

The row has no history to compare with; what orders it is the clock of Silicon Accounts.
`Agree` says that whatever has been seen of an id, by an event, a token, a
lookup or the row, two sightings that differ have a change between them. A lookup stored late
breaks the row's claim to have been observed when it was stored, and nothing else does: that
is what `outrun` records, and why the row agrees with the account when it has heard the last
change. `Endings` ties the row's `revoked` to an event, so an end that nobody announced refuses
no token; `Given` ties the ids given up to the events that said so, each with the last of its
times, from which the latest holder of an address follows.

For what a host keeps in memory, `KeysReadAt(t)`: the cached keys were all read at one moment
`t`, at most Latency before they were stored, and `t` is not before the last attempt at a
refresh unless that one is under way or failed. A key that is missing from them was
therefore published after the attempt that holds everyone back, and one that is in them
was not withdrawn long before. An answer kept as active was true when its call began
(`ActiveWhenAsked`). For the budget, what is left and what was spent since any time is at
most a full bucket and what was refilled since.

For a login (`SignInInv`): at every place where it can stop, what it holds, what the file holds
and what Silicon Accounts has issued are in step (`RecordsFit`, `NumbersFit`, `LoginInOrder`), so that a
code or a short-lived token is spent once and for good (`SpentForGood`); the times of its polls
keep the interval it was last told, which only grows (`PollsFit`, `PollingKept`). A status that renames the
account in the file has refreshed a token of that account, and ids are handed out in order
(`StatusInOrder`, `IdsInOrder`).

TLC has checked the inductive invariants on the instances of the runs before they were
proved.

### What stays with TLC

- Liveness (`DuePurgedUnlessStuck`, `JobsGetDone`): the prover has no rules for fairness
  and `ENABLED`.
- `AnswersAreFaithful`: `Listing` walks folders and `FilterLanguage` parses with RECURSIVE operators,
  about which nothing can be proved here; a listing is an induction over its pages and a parse one over the
  text. The deliveries beside them are sorted by a CHOOSE over sequences and add up by a recursive function.
- `CirclesHold`: `Circles` has four exceptions to each of its claims, and no inductive invariant for
  it has been proved.
- `CutoverHolds`: the order of the moves is a fold over the mapping, and where an account
  ends up is an induction over it. (The six parts of `NothingTakenBack` are the theorems `OutcomeNeverChanges`,
  `KeepingNeverTakes`, `OnlyLoginsSignIn`, `DestinationAlwaysStays`, `EndingsAlwaysStay` and
  `SightingsStayInOrder`.)

## What the checks found

Three violation runs; `PROJECT.json` quotes the text the code contradicts.

- `Publication_cancel`: a handler dropped while it awaits COMMIT deletes the object of the
  version that COMMIT published.
- `Multipart_commit`: a completion whose COMMIT loses its connection deletes the assembled
  object, although the version may have been published.
- `EntryTree_moves`: a rename concurrent with a move out of the renamed folder leaves the moved entry a
  path it is not at (`0007_entry_paths.sql:109-116`).

Other disagreements were met while modelling and shown with TLC; they are visible in the
models as the named exceptions of a property or as an assumption:

- A folder restored across its deadline can lose the object of a current version
  (`postgres/metadata/mod.rs:1363`; the set `late`).
- A multipart upload left in `completing` below a deleted folder keeps the folder, its files
  and their bytes for ever (`worker/cleanup.rs:938`; the exception of `DuePurgedUnlessStuck`). A batch
  whose rows cannot be deleted yet ends each finalizer pass with an error and comes
  first again in the next (`cleanup.rs:816`).
- An upload may run three times as long as its lease of five minutes
  (`application/content.rs:1740`; `outlived`): the cleanup of a failed attempt then may delete the
  object of the attempt that took over, published or not.
- A request dropped while it awaits the COMMIT of the initiation of a multipart upload
  (`postgres/content.rs:465-469`, with the guard of `application/content.rs:887` armed) aborts the session its
  receipt names, and deletes what another try has published under the key by then (`mistaken`).
- A retry of a completion that published is refused as `multipart_not_uploadable`
  (`postgres/content.rs:484` against `application/content.rs:782-785`).
- Moving a folder to the bin asks the entries below it only for a grant other than
  read (`metadata/mod.rs:1781` against `docs/api/reference.md:181`).
- A `CopyObject` that the SDK sends twice leaves a second provider version (`Doubled`;
  `s3.rs:461` against the comment at `s3.rs:61-67`).
- `identify_storage_target` ignores external id and status, so a legacy drive that submits its
  bucket again records later uploads under a configuration that failed (the second
  disjunct of `VersionsNameTheirBucket`). Of two concurrent activations one fails on the
  unique index and its row stays `validating`.
- A request that waited for the refresh of signing keys is refused although the cache now
  holds its key (`jwks.rs:109`). A dropped request leaves its attempt time, so that nobody refreshes for
  30 seconds. An introspection in flight while its token is forgotten is remembered for up to
  30 seconds. The lookup budget allows nearly 1200 in a minute, per process.
- A late lookup replaces a newer id (`accounts.rs:4-7`), and an `access_removed` after a newer sign-in
  holds until the next token.
- `revoke` of a tag share takes no row lock and may log both ends of one share (`invitations.rs:76`); an
  extension in flight may revive a share past its deadline (`docs/sharing.md:11`).
- An entry touched during a newest-first walk may be missed, an oldest-first walk may list it
  twice (`entries.rs:61-67`). A negation of an undecided condition is left out by SQL and
  kept in a mixed expression (`filter.rs:92-95`).
- Undoing a cutover looks for use of a drive in five tables only, and rows of
  others go with it (`ON DELETE CASCADE`, `0048:59`, `0049:179-181`).
- `login status` calls a living sign-in signed out when its refresh is unanswered and the old token is
  refused again (`signin.rs:577-634`), and a configuration that cannot be written after
  the credentials leaves the replaced sign-in unrevoked (`signin.rs:352-362`).

- A delegated trash whose answer was lost is answered 404 when it is sent again: `require_created_by_app`
  looks for a live entry, and the repetition that would find the record is not reached
  (`api/handlers/delegated.rs`, against `docs/obo.md:20`; `Locate` before `RepeatTrash`).
- Filters: `location:'100%'` takes an escaped `%` at the end for the wildcard (`filter.rs:128-130` against
  the comment at 111-114). `is:` and the kind a response shows differ where the media type decides:
  `text/plain` also matches `is:code`, `application/epub+zip` is an archive to one and
  unsupported to the other, `application/ld+json` code to one (`media.rs:143-144`). A quoted bare word (`'apple'`) is
  refused as unterminated (`filter.rs:433-436`). `and` without operands in a group, `()` and a
  leading `or` are accepted.
- Custodians: an `account.updated` or a new id confirms a row (`refreshed_at`), custodian included, and so
  prolongs the belief in a former one (`misled`). Of two lookups under way the one that is stored
  last counts (`stale`), and news of the change in between is then too old to be heard. A Silicon
  that is first heard of by the end of its sign-ins is recorded as a Carbon (`accounts.rs`, `revoke`): a lookup of
  it cannot be stored (CHECK of migration 0048), news of its custodian is receipted and
  passed over, and once a sign-in has corrected the row, an older event heard late installs a former custodian
  (`passed`). A share or an allowance under way when `account.deleted` is applied stays (`overlapped`). When
  learning unknown custodians fails for one Silicon, nothing is touched, so that it is asked about
  again at once and the ones behind it are not (`directory.rs:402-445`). Without any one of these four
  exceptions TLC finds `CirclesHold` violated.

## What is not modelled

Within the components modelled: back-off delays; names and their uniqueness; the
text of mails, reports and errors; tag grants, legacy system folders and confined apps in the access
rule (`AppRequests` has confinement, `Circles` the allow-list); letter case and time zones in filters; testing accounts and the erasure of a deleted account's
content; public links of spaces, the life of tags, member contacts and kind
mismatches in the cutover; `account_changed` and a missing refresh token in the command line;
`abort_multipart` (`content.rs:739-790`), which has no caller. In `Publication`, background sweeps of a request that is not in
`Outlasting` are taken to end before its lease.

Out of scope: HTTP routing, parsing and rendering, the bytes of archive formats, the
ranking of search results, notifications, the rest of the drives API, the web
interface, deployment.

## Plan

Every module above is written, checked and, where the table says so, proved about. Left:

1. Proofs of the safety properties listed under [what stays with TLC](#what-stays-with-tlc) that
   are in the prover's reach.
2. `AppRequests` composed with `DelegatedUpload` and `AccessRights`, which it refers to.
3. The gate every request passes (`api/auth.rs`, middleware, idempotency headers).
