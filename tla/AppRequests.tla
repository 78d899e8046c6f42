------------------------------ MODULE AppRequests ------------------------------
(***************************************************************************)
(* What another app does with an account's files: `briefcase app request`,  *)
(* the handlers under /api/v1/obo, and the transaction each of them ends in. *)
(*                                                                          *)
(* A request proves who asks with a proof that is verified anew each time,  *)
(* and finds its entry or folder before the transaction that acts on it; in *)
(* between, the account goes on working with its files.  The command may    *)
(* stop waiting while the handler still runs, and the same body may be sent *)
(* again.  A body names its operation: the record of an operation lets a    *)
(* repetition be recognised until the record expires.                       *)
(*                                                                          *)
(* A path stands for the names from the root of a drive; its first two say  *)
(* in which app's folder it lies.  Rights the account has anyway are those  *)
(* of AccessRights, and the staging of bytes is that of DelegatedUpload;    *)
(* here a request may be refused whenever either of them could refuse it.   *)
(***************************************************************************)
EXTENDS Integers, Sequences

CONSTANTS
    AppCalls,     \* commands with their handlers, at work at once
    Issuers,      \* apps that obtain proofs
    FirstParty,   \* BRIEFCASE_PROOF_FIRST_PARTY_ISSUERS
    ProofIssuers, \* BRIEFCASE_PROOF_ISSUERS: the issuers of each scope
    Proofs,       \* their issuer, kind, receiving app and scopes
    Operations,   \* operation ids
    Contents,     \* digests of files
    AllEntries,
    FolderEntries,
    Theirs,       \* entries of another account's drive
    AllPaths,
    FolderAt,     \* the app in whose folder a path lies
    Placed,       \* where entries are at first, and who created them
    SecretFiles,  \* capability files that may be named
    Nil,
    Menus         \* bounds, of which one holds: what may be sent, the bodies (kind,
                  \* operation, entry or path, digest, --force) and the proofs, how
                  \* often, and what and how much may happen meanwhile

\* The scope that each route requires, named like the kind of its body.
Scopes == {"folder", "list", "read", "trash", "invite", "link", "reserve", "commit", "status", "cancel"}
NeedsFolder(kind) == kind \in {"folder", "list", "reserve"}
NeedsEntry(kind) == kind \in {"read", "trash", "invite", "link"}

Bodies == UNION {Menus[i].bodies : i \in DOMAIN Menus}

\* What is checked of a body before any of it is sent: its ids are there, one
\* parent is named, and the file of an upload was hashed.
Hashed(b) == b.digest \in Contents
Validated(b) ==
    /\ b.kind \in Scopes
    /\ b.kind \notin {"list", "read"} => b.op \in Operations
    /\ NeedsEntry(b.kind) => b.on \in AllEntries
    /\ NeedsFolder(b.kind) => b.on \in AllPaths \cup {"own"}
    /\ b.kind = "reserve" => Hashed(b)

ASSUME AppRequestsAssumption ==
    /\ FirstParty \subseteq Issuers
    /\ Theirs \subseteq AllEntries
    /\ Nil \notin Issuers \cup AllEntries \cup AllPaths \cup SecretFiles \cup Contents
    /\ \A p \in Proofs : p.issuer \in Issuers
    /\ ProofIssuers \in [Scopes -> SUBSET Issuers]
    /\ "own" \notin AllPaths
    /\ \A i \in DOMAIN Menus : Menus[i].proofs \subseteq Proofs
    /\ FolderEntries \subseteq AllEntries /\ Issuers \intersect AllEntries = {}
    /\ FolderAt \in [AllPaths -> Issuers \cup {Nil}]
    /\ \A e \in AllEntries :
        Placed[e].path \in AllPaths \cup {Nil} /\ Placed[e].origin \in Issuers \cup {Nil}

VARIABLES
    path, fate, madeBy, \* entries: place, "nowhere" / "live" / "bin", origin_app_id
    homes,              \* apps whose folder the drive has
    shared,             \* entries of the other drive shared with the account
    honored,            \* proofs Silicon Accounts confirms
    active,             \* the account lets Briefcase in
    records,            \* idempotency_records, completed
    upload,             \* delegated_uploads, by app and operation
    at, body, proof, found, reply, waits, file, \* each request
    output,             \* the file named by --output
    secret,             \* capability files
    done, told,         \* what took effect, and what commands reported as done
    saved,              \* downloads put in place
    lapsed,          \* operations whose record expired
    menu, begun, meddled \* counters of the bounds

entryVars == <<path, fate, madeBy, homes, shared>>
trustVars == <<honored, active>>
callVars == <<at, body, proof, found, reply, waits, file>>
diskVars == <<output, secret, saved>>
recordVars == <<records, upload, lapsed>>
requestVars == <<entryVars, trustVars, recordVars, callVars, diskVars, done, told, begun, meddled, menu>>

Menu == Menus[menu]

Confined(app) == app \notin FirstParty
NoUpload == [stage |-> "none", body |-> Nil, parent |-> Nil, entry |-> Nil,
             number |-> 0, bytes |-> Nil]
NoSecret == [what |-> "absent", for |-> Nil, key |-> Nil, number |-> 0]

RequestsInit ==
    /\ path = [e \in AllEntries |-> Placed[e].path]
    /\ madeBy = [e \in AllEntries |-> Placed[e].origin]
    /\ fate = [e \in AllEntries |-> IF Placed[e].path = Nil THEN "nowhere" ELSE "live"]
    /\ homes = {} /\ shared = Theirs
    /\ honored = Proofs /\ active = TRUE
    /\ records = {} /\ lapsed = {}
    /\ upload = [k \in Issuers \X Operations |-> NoUpload]
    /\ at = [c \in AppCalls |-> "idle"]
    /\ body = [c \in AppCalls |-> Nil]
    /\ proof = [c \in AppCalls |-> Nil]
    /\ found = [c \in AppCalls |-> Nil]
    /\ reply = [c \in AppCalls |-> Nil]
    /\ waits = [c \in AppCalls |-> FALSE]
    /\ file = [c \in AppCalls |-> Nil]
    /\ output = "absent" /\ saved = {}
    /\ secret = [f \in SecretFiles |-> NoSecret]
    /\ done = <<>> /\ told = {}
    /\ menu \in DOMAIN Menus /\ begun = 0 /\ meddled = 0

-----------------------------------------------------------------------------
(* The command. *)

\* A proof, and not the token that renews it, which stays with the app.
Sendable(p) == p.token = "proof"

\* --output must not exist, unless it is to be replaced.
OutputFree(b) == b.kind = "read" /\ ~b.force => output = "absent"

\* The local part: the body is read, and the files that the answer will need
\* are claimed, before anything is sent.
BeginCall(c, b, p) ==
    /\ at[c] = "idle" /\ begun < Menu.requests
    /\ Validated(b) /\ OutputFree(b) /\ Sendable(p)
    /\ IF b.kind = "reserve"
       THEN \E f \in SecretFiles :
                /\ secret[f].what = "absent"
                /\ secret' = [secret EXCEPT ![f] = [what |-> "empty", for |-> <<p.issuer, b.op>>,
                                                    key |-> Nil, number |-> 0]]
                /\ file' = [file EXCEPT ![c] = f]
       ELSE UNCHANGED <<secret, file>>
    /\ at' = [at EXCEPT ![c] = "sent"]
    /\ body' = [body EXCEPT ![c] = b]
    /\ proof' = [proof EXCEPT ![c] = p]
    /\ waits' = [waits EXCEPT ![c] = TRUE]
    /\ begun' = begun + 1
    /\ UNCHANGED <<entryVars, trustVars, recordVars, found, reply, output, saved, done, told, meddled>>

\* What a capability file holds: it is read if it is a private file that is not
\* exchanged while it is opened, and an empty one holds no capability.
HoldsCapability(f) == secret[f].what = "full"

\* `app upload transfer` carries a capability and no proof.
BeginTransfer(c, f) ==
    /\ at[c] = "idle" /\ begun < Menu.requests
    /\ HoldsCapability(f)
    /\ at' = [at EXCEPT ![c] = "transfer"]
    /\ file' = [file EXCEPT ![c] = f]
    /\ waits' = [waits EXCEPT ![c] = TRUE]
    /\ begun' = begun + 1
    /\ UNCHANGED <<entryVars, trustVars, recordVars, body, proof, found, reply, diskVars,
                   done, told, meddled>>

\* The connection breaks or the command's time is up.  No retry is made.
HangUp(c) ==
    /\ waits[c]
    /\ waits' = [waits EXCEPT ![c] = FALSE]
    /\ UNCHANGED <<entryVars, trustVars, recordVars, at, body, proof, found, reply, file, diskVars,
                   done, told, begun, meddled>>

-----------------------------------------------------------------------------
(* The handler. *)

Reply(c, what, number) ==
    /\ at' = [at EXCEPT ![c] = "answered"]
    /\ reply' = [reply EXCEPT ![c] = [what |-> what, number |-> number]]
    /\ UNCHANGED <<body, proof, found, waits, file>>

AnswerCall(c, what) == Reply(c, what, 0)
Issue(c, number) == Reply(c, "capability", number)

RefuseCall(c) ==
    /\ AnswerCall(c, "refused")
    /\ UNCHANGED <<entryVars, trustVars, recordVars, diskVars, done, told, begun, meddled>>

\* The operator's list, app by app for each scope; no app when it is not given.
MayUse(app, scope) == app \in ProofIssuers[scope]

Trusted(p, scope) ==
    /\ p \in honored
    /\ p.receiver = "briefcase"
    /\ p.kind = "user_verification"
    /\ scope \in p.scopes
    /\ MayUse(p.issuer, scope)
    /\ active

Authenticate(c) ==
    /\ at[c] = "sent"
    /\ Trusted(proof[c], body[c].kind)
    /\ at' = [at EXCEPT ![c] = "known"]
    /\ UNCHANGED <<entryVars, trustVars, recordVars, body, proof, found, reply, waits, file, diskVars,
                   done, told, begun, meddled>>

RefuseProof(c) ==
    /\ at[c] = "sent"
    /\ ~Trusted(proof[c], body[c].kind)
    /\ RefuseCall(c)

App(c) == proof[c].issuer
Inside(e, app) == path[e] # Nil /\ FolderAt[path[e]] = app

\* What the account may see of an entry, as far as this app reaches.
Sees(e, app) ==
    /\ Confined(app) => Inside(e, app)
    /\ e \in Theirs => e \in shared

\* A confined app enters another drive only to read.
Enters(e, app, kind) == e \in Theirs /\ Confined(app) => kind = "read"

\* The folder that stands at a path now; only an app of the first party may
\* list one of another drive.
FoldersAt(b, app) ==
    {f \in FolderEntries : fate[f] = "live" /\ path[f] = b.on /\ Sees(f, app)
                     /\ (f \in Theirs => b.kind = "list" /\ ~Confined(app))}

\* The destination of a new entry: the app's own folder, made on first use, or
\* the folder at a path.
Destinations(b, app) == IF b.on = "own" THEN {app} ELSE FoldersAt(b, app)

\* A listing asks for the own folder of a confined app, or when it names none.
MakesHome(b, app) == b.kind = "list" => Confined(app) \/ b.on = "own"

\* An app moves to the bin what it has made and can see.
CreatedByApp(e, app) == fate[e] = "live" /\ Sees(e, app) /\ madeBy[e] = app

Locate(c) ==
    /\ at[c] = "known"
    /\ CASE NeedsFolder(body[c].kind) ->
                /\ \E f \in Destinations(body[c], App(c)) : found' = [found EXCEPT ![c] = f]
                /\ homes' = IF MakesHome(body[c], App(c)) THEN homes \cup {App(c)} ELSE homes
         [] NeedsEntry(body[c].kind) ->
                LET e == body[c].on
                IN  /\ Enters(e, App(c), body[c].kind)
                    /\ body[c].kind = "trash" => CreatedByApp(e, App(c))
                    /\ found' = [found EXCEPT ![c] = e]
                    /\ UNCHANGED homes
         [] OTHER -> UNCHANGED <<found, homes>>
    /\ at' = [at EXCEPT ![c] = "resolved"]
    /\ UNCHANGED <<path, fate, madeBy, shared, trustVars, recordVars, body, proof, reply, waits, file,
                   diskVars, done, told, begun, meddled>>

\* Not found, not visible, not created by the app, not permitted, a limit, a
\* name that is taken, or an error on the way.
RefuseRequest(c) ==
    /\ at[c] \in {"known", "resolved"}
    /\ RefuseCall(c)

\* The handler of a connection that is gone may be dropped between two steps.
Dropped(c) ==
    /\ ~waits[c] /\ at[c] \in {"sent", "known", "resolved", "transfer"}
    /\ RefuseCall(c)

-----------------------------------------------------------------------------
(* Transactions that keep a record of their operation. *)

\* A mutant: the folder was found within the app's folder, and may have moved.
ParentStillThere(p, app) == p = app \/ (p \in AllEntries /\ fate[p] = "live")

\* The parent of a new entry, as it stands in the transaction: the app's own
\* folder, or a folder that is still there and still seen.
Parent(p, app) == p = app \/ (p \in AllEntries /\ fate[p] = "live" /\ Sees(p, app))
FolderFor(p) == IF p \in Issuers THEN p ELSE FolderAt[path[p]]

RecordOf(c) == {r \in records : r.kind = body[c].kind /\ r.op = body[c].op /\ r.app = App(c)}

\* The fingerprint covers the body and the folder or entry it was resolved to.
Unrecorded(c) == RecordOf(c) = {}
Repeated(c, r) == r \in RecordOf(c) /\ r.body = body[c] /\ r.resource = found[c]

KeepRecord(c, e) ==
    records' = records \cup {[kind |-> body[c].kind, op |-> body[c].op, app |-> App(c),
                              body |-> body[c], resource |-> found[c], entry |-> e]}

Effect(c, kind, b, app, e, folder) ==
    done' = Append(done, [kind |-> kind, op |-> b.op, app |-> app, body |-> b, entry |-> e,
                          folder |-> folder, theirs |-> e \in Theirs,
                          granted |-> e \in Theirs => e \in shared, by |-> madeBy'[e]])

\* A new entry of the app, in the folder that was found.
NewEntry(e, folder, app) ==
    /\ fate[e] = "nowhere"
    /\ \E p \in AllPaths :
        /\ FolderAt[p] = folder
        /\ \A o \in AllEntries : fate[o] = "live" => path[o] # p
        /\ path' = [path EXCEPT ![e] = p]
    /\ fate' = [fate EXCEPT ![e] = "live"]
    /\ madeBy' = [madeBy EXCEPT ![e] = app]
    /\ UNCHANGED <<homes, shared>>

CreateFolder(c, e) ==
    /\ at[c] = "resolved" /\ body[c].kind = "folder"
    /\ Unrecorded(c)
    /\ Parent(found[c], App(c))
    /\ e \in FolderEntries \ Theirs
    /\ NewEntry(e, FolderFor(found[c]), App(c))
    /\ KeepRecord(c, e)
    /\ Effect(c, "folder", body[c], App(c), e, FolderFor(found[c]))
    /\ AnswerCall(c, "done")
    /\ UNCHANGED <<trustVars, upload, lapsed, diskVars, told, begun, meddled>>

\* The folder made before is shown again, if it is still there to be seen.
RepeatFolder(c) ==
    /\ at[c] = "resolved" /\ body[c].kind = "folder"
    /\ \E r \in records : Repeated(c, r) /\ fate[r.entry] = "live" /\ Sees(r.entry, App(c))
    /\ AnswerCall(c, "done")
    /\ UNCHANGED <<entryVars, trustVars, recordVars, diskVars, done, told, begun, meddled>>

MoveToTrash(c) ==
    LET e == found[c]
    IN  /\ at[c] = "resolved" /\ body[c].kind = "trash"
        /\ fate[e] = "live" /\ Sees(e, App(c))
        /\ Unrecorded(c)
        /\ fate' = [fate EXCEPT ![e] = "bin"]
        /\ UNCHANGED <<path, madeBy, homes, shared>>
        /\ KeepRecord(c, e)
        /\ Effect(c, "trash", body[c], App(c), e, FolderFor(e))
        /\ AnswerCall(c, "done")
        /\ UNCHANGED <<trustVars, upload, lapsed, diskVars, told, begun, meddled>>

\* Only an entry that is still in the bin: one that was restored is not
\* deleted again.
RepeatTrash(c) ==
    /\ at[c] = "resolved" /\ body[c].kind = "trash"
    /\ fate[found[c]] = "bin" /\ Sees(found[c], App(c))
    /\ \E r \in records : Repeated(c, r)
    /\ AnswerCall(c, "done")
    /\ UNCHANGED <<entryVars, trustVars, recordVars, diskVars, done, told, begun, meddled>>

\* An invitation, or the link of an entry.
ShareEntry(c) ==
    LET e == found[c]
    IN  /\ at[c] = "resolved" /\ body[c].kind \in {"invite", "link"}
        /\ fate[e] = "live" /\ Sees(e, App(c))
        /\ Unrecorded(c)
        /\ KeepRecord(c, e)
        /\ UNCHANGED entryVars
        /\ Effect(c, body[c].kind, body[c], App(c), e, FolderFor(e))
        /\ AnswerCall(c, "done")
        /\ UNCHANGED <<trustVars, upload, lapsed, diskVars, told, begun, meddled>>

RepeatShare(c) ==
    /\ at[c] = "resolved" /\ body[c].kind \in {"invite", "link"}
    /\ fate[found[c]] = "live" /\ Sees(found[c], App(c))
    /\ \E r \in records : Repeated(c, r)
    /\ AnswerCall(c, "done")
    /\ UNCHANGED <<entryVars, trustVars, recordVars, diskVars, done, told, begun, meddled>>

-----------------------------------------------------------------------------
(* Reading. *)

Read(c) ==
    LET e == found[c]
    IN  /\ at[c] = "resolved" /\ body[c].kind = "read"
        /\ fate[e] = "live" /\ Sees(e, App(c)) /\ e \notin FolderEntries
        /\ UNCHANGED entryVars
        /\ Effect(c, "read", body[c], App(c), e, FolderFor(e))
        /\ AnswerCall(c, "done")
        /\ UNCHANGED <<trustVars, recordVars, diskVars, told, begun, meddled>>

ListFolder(c) ==
    /\ at[c] = "resolved" /\ body[c].kind = "list"
    /\ Parent(found[c], App(c))
    /\ AnswerCall(c, "done")
    /\ UNCHANGED <<entryVars, trustVars, recordVars, diskVars, done, told, begun, meddled>>

-----------------------------------------------------------------------------
(* Uploads: one row for each operation of an app, whose capability is        *)
(* replaced by each reservation while no bytes have been sent.               *)

OperationKey(c) == <<App(c), body[c].op>>
UploadRow(c) == upload[OperationKey(c)]
Pending == {"reserved", "receiving", "staged"}

\* The destination is a new entry or a file that has the name already.
Reserve(c) ==
    /\ at[c] = "resolved" /\ body[c].kind = "reserve"
    /\ UploadRow(c).stage = "none"
    /\ Parent(found[c], App(c))
    /\ \E e \in AllEntries \ (Theirs \cup FolderEntries) :
        /\ fate[e] = "nowhere" \/ (fate[e] = "live" /\ Inside(e, FolderFor(found[c])))
        /\ upload' = [upload EXCEPT ![OperationKey(c)] =
                        [stage |-> "reserved", body |-> body[c], parent |-> found[c], entry |-> e,
                         number |-> 1, bytes |-> Nil]]
    /\ Issue(c, 1)
    /\ UNCHANGED <<entryVars, trustVars, records, lapsed, diskVars, done, told, begun, meddled>>

\* The same operation again: another body or another folder is a conflict, and
\* a capability is handed out only while nothing has been sent.
ReserveAgain(c) ==
    /\ at[c] = "resolved" /\ body[c].kind = "reserve"
    /\ UploadRow(c).stage # "none"
    /\ UploadRow(c).body = body[c] /\ UploadRow(c).parent = found[c]
    /\ IF UploadRow(c).stage = "reserved"
       THEN /\ Parent(found[c], App(c))
            /\ upload' = [upload EXCEPT ![OperationKey(c)].number = @ + 1]
            /\ Issue(c, UploadRow(c).number + 1)
       ELSE AnswerCall(c, "done") /\ UNCHANGED upload
    /\ UNCHANGED <<entryVars, trustVars, records, lapsed, diskVars, done, told, begun, meddled>>

\* The capability alone lets bytes in, once.
ClaimTransfer(c) ==
    LET k == secret[file[c]].key
    IN  /\ at[c] = "transfer"
        /\ upload[k].stage = "reserved" /\ upload[k].number = secret[file[c]].number
        /\ upload' = [upload EXCEPT ![k].stage = "receiving"]
        /\ at' = [at EXCEPT ![c] = "storing"]
        /\ UNCHANGED <<entryVars, trustVars, records, lapsed, body, proof, found, reply, waits, file,
                       diskVars, done, told, begun, meddled>>

RefuseTransfer(c) ==
    /\ at[c] = "transfer"
    /\ RefuseCall(c)

\* What a transfer reads and sends: its source as it is then, which may have
\* changed since its digest was put into the body.
SourceBytes == Contents

\* Neither the row nor what was stored differs from what was reserved.
Promised(k, bytes) == bytes = upload[k].body.digest

Store(c, bytes) ==
    LET k == secret[file[c]].key
    IN  /\ at[c] = "storing" /\ upload[k].stage = "receiving"
        /\ IF Promised(k, bytes)
           THEN /\ upload' = [upload EXCEPT ![k].stage = "staged", ![k].bytes = bytes]
                /\ AnswerCall(c, "done")
           ELSE /\ upload' = [upload EXCEPT ![k].stage = "reserved"]
                /\ AnswerCall(c, "refused")
        /\ UNCHANGED <<entryVars, trustVars, records, lapsed, diskVars, done, told, begun, meddled>>

\* An error, or a connection that is gone: bytes may have reached the store, and
\* the row may be left as it is until its lease ends.
\* A row that was cancelled or expired meanwhile is left alone.
LoseTransfer(c) ==
    LET k == secret[file[c]].key
    IN  /\ at[c] = "storing"
        /\ IF upload[k].stage = "receiving"
           THEN \E stage \in {"receiving", "reserved", "cleanup_pending"} :
                    upload' = [upload EXCEPT ![k].stage = stage]
           ELSE UNCHANGED upload
        /\ AnswerCall(c, "refused")
        /\ UNCHANGED <<entryVars, trustVars, records, lapsed, diskVars, done, told, begun, meddled>>

\* Publication, in the transaction that looks at the destination again.
CommitUpload(c) ==
    LET r == UploadRow(c)
    IN  /\ at[c] = "resolved" /\ body[c].kind = "commit"
        /\ r.stage = "staged"
        /\ Parent(r.parent, App(c))
        /\ \/ NewEntry(r.entry, FolderFor(r.parent), App(c))
           \/ /\ fate[r.entry] = "live" /\ Inside(r.entry, FolderFor(r.parent))
              /\ UNCHANGED entryVars
        /\ upload' = [upload EXCEPT ![OperationKey(c)].stage = "committed"]
        /\ Effect(c, "commit", r.body, App(c), r.entry, FolderFor(r.parent))
        /\ AnswerCall(c, "done")
        /\ UNCHANGED <<trustVars, records, lapsed, diskVars, told, begun, meddled>>

RepeatCommit(c) ==
    /\ at[c] = "resolved" /\ body[c].kind = "commit"
    /\ UploadRow(c).stage = "committed"
    /\ fate[UploadRow(c).entry] = "live" /\ Sees(UploadRow(c).entry, App(c))
    /\ AnswerCall(c, "done")
    /\ UNCHANGED <<entryVars, trustVars, recordVars, diskVars, done, told, begun, meddled>>

Cancel(c) ==
    /\ at[c] = "resolved" /\ body[c].kind = "cancel"
    /\ UploadRow(c).stage # "none"
    /\ IF UploadRow(c).stage \in Pending
       THEN \E stage \in {"cancelled", "cleanup_pending"} :
                upload' = [upload EXCEPT ![OperationKey(c)].stage = stage]
       ELSE UNCHANGED upload
    /\ AnswerCall(c, "done")
    /\ UNCHANGED <<entryVars, trustVars, records, lapsed, diskVars, done, told, begun, meddled>>

\* A row that is found after its time expires first: TimeRunsOut.
DescribeUpload(c) ==
    /\ at[c] = "resolved" /\ body[c].kind = "status"
    /\ UploadRow(c).stage # "none"
    /\ AnswerCall(c, "done")
    /\ UNCHANGED <<entryVars, trustVars, recordVars, diskVars, done, told, begun, meddled>>

-----------------------------------------------------------------------------
(* The command has its answer. *)

Reset(c) ==
    /\ at' = [at EXCEPT ![c] = "idle"]
    /\ body' = [body EXCEPT ![c] = Nil]
    /\ proof' = [proof EXCEPT ![c] = Nil]
    /\ found' = [found EXCEPT ![c] = Nil]
    /\ reply' = [reply EXCEPT ![c] = Nil]
    /\ waits' = [waits EXCEPT ![c] = FALSE]
    /\ file' = [file EXCEPT ![c] = Nil]

ReportCall(c) == told' = told \cup {[kind |-> body[c].kind, op |-> body[c].op, app |-> App(c), body |-> body[c]]}

\* The output is taken from the temporary file when all of it has come.
SaveDownload(c) ==
    /\ at[c] = "answered" /\ waits[c] /\ proof[c] # Nil
    /\ body[c].kind = "read" /\ reply[c].what = "done"
    /\ OutputFree(body[c])
    /\ output' = "download"
    /\ saved' = saved \cup {[over |-> output, force |-> body[c].force]}
    /\ ReportCall(c) /\ Reset(c)
    /\ UNCHANGED <<entryVars, trustVars, recordVars, secret, done, begun, meddled>>

SaveCapability(c) ==
    /\ at[c] = "answered" /\ waits[c] /\ proof[c] # Nil
    /\ body[c].kind = "reserve" /\ reply[c].what = "capability"
    /\ secret' = [secret EXCEPT ![file[c]] =
                    [what |-> "full", for |-> secret[file[c]].for, key |-> OperationKey(c),
                     number |-> reply[c].number]]
    /\ ReportCall(c) /\ Reset(c)
    /\ UNCHANGED <<entryVars, trustVars, recordVars, output, saved, done, begun, meddled>>

\* Nothing to be put into a file: a capability file stays empty.
ReportDone(c) ==
    /\ at[c] = "answered" /\ waits[c] /\ proof[c] # Nil
    /\ body[c].kind # "read" /\ reply[c].what = "done"
    /\ ReportCall(c) /\ Reset(c)
    /\ UNCHANGED <<entryVars, trustVars, recordVars, diskVars, done, begun, meddled>>

\* Refused, unheard, a stream that breaks off, an output that exists by now, a
\* disk that is full; or a transfer, which reports its status.
EndCall(c) ==
    /\ at[c] = "answered"
    /\ Reset(c)
    /\ UNCHANGED <<entryVars, trustVars, recordVars, diskVars, done, told, begun, meddled>>

-----------------------------------------------------------------------------
(* Meanwhile, the account and others. *)

Meddle(what) == what \in Menu.changes /\ meddled < Menu.meddling /\ meddled' = meddled + 1

\* The account moves an entry, makes one, deletes one or restores it.
AccountWorks(e) ==
    /\ Meddle("account")
    /\ e \notin Theirs
    /\ \/ /\ fate[e] # "bin"
          /\ \E p \in AllPaths :
                /\ \A o \in AllEntries : fate[o] = "live" => path[o] # p
                /\ path' = [path EXCEPT ![e] = p]
          /\ fate' = [fate EXCEPT ![e] = "live"]
       \/ fate[e] = "live" /\ fate' = [fate EXCEPT ![e] = "bin"] /\ UNCHANGED path
       \/ /\ fate[e] = "bin"
          /\ \A o \in AllEntries : fate[o] = "live" => path[o] # path[e]
          /\ fate' = [fate EXCEPT ![e] = "live"] /\ UNCHANGED path
    /\ UNCHANGED <<madeBy, homes, shared, trustVars, recordVars, callVars, diskVars, done, told, begun>>

OthersWithdraw(e) ==
    /\ Meddle("others")
    /\ e \in shared
    /\ shared' = shared \ {e}
    /\ UNCHANGED <<path, fate, madeBy, homes, trustVars, recordVars, callVars, diskVars, done, told, begun>>

TrustEnds ==
    /\ Meddle("trust")
    /\ \/ \E p \in honored : honored' = honored \ {p} /\ UNCHANGED active
       \/ active' = FALSE /\ UNCHANGED honored
    /\ UNCHANGED <<entryVars, recordVars, callVars, diskVars, done, told, begun>>

\* Records last a day, and so do uploads that are not published.
TimeRunsOut ==
    /\ Meddle("time")
    /\ \/ \E r \in records :
            /\ records' = records \ {r}
            /\ lapsed' = lapsed \cup {<<r.kind, r.op, r.app>>}
            /\ UNCHANGED upload
       \/ \E k \in Issuers \X Operations, stage \in {"expired", "cancelled", "cleanup_pending"} :
            /\ \/ upload[k].stage \in Pending /\ stage # "cancelled"
               \/ upload[k].stage = "cleanup_pending" \* the worker has cleaned up
            /\ upload' = [upload EXCEPT ![k].stage = stage]
            /\ UNCHANGED <<records, lapsed>>
    /\ UNCHANGED <<entryVars, trustVars, callVars, diskVars, done, told, begun>>

\* Another program writes the output file first.
OutputAppears ==
    /\ Meddle("output")
    /\ output = "absent"
    /\ output' = "another"
    /\ UNCHANGED <<entryVars, trustVars, recordVars, callVars, secret, saved, done, told, begun>>

-----------------------------------------------------------------------------
RequestStep(c) ==
    \/ \E b \in Menu.bodies, p \in Menu.proofs : BeginCall(c, b, p)
    \/ \E f \in SecretFiles : BeginTransfer(c, f)
    \/ HangUp(c) \/ Authenticate(c) \/ RefuseProof(c) \/ Locate(c) \/ RefuseRequest(c) \/ Dropped(c)
    \/ \E e \in AllEntries : CreateFolder(c, e)
    \/ RepeatFolder(c) \/ MoveToTrash(c) \/ RepeatTrash(c) \/ ShareEntry(c) \/ RepeatShare(c)
    \/ Read(c) \/ ListFolder(c)
    \/ Reserve(c) \/ ReserveAgain(c) \/ ClaimTransfer(c) \/ RefuseTransfer(c) \/ LoseTransfer(c)
    \/ \E bytes \in SourceBytes : Store(c, bytes)
    \/ CommitUpload(c) \/ RepeatCommit(c) \/ Cancel(c) \/ DescribeUpload(c)
    \/ SaveDownload(c) \/ SaveCapability(c) \/ ReportDone(c) \/ EndCall(c)

MeddlingStep ==
    \/ \E e \in AllEntries : AccountWorks(e) \/ OthersWithdraw(e)
    \/ TrustEnds \/ TimeRunsOut \/ OutputAppears

RequestsNext == UNCHANGED menu /\ ((\E c \in AppCalls : RequestStep(c)) \/ MeddlingStep)

RequestsSpec == RequestsInit /\ [][RequestsNext]_requestVars

-----------------------------------------------------------------------------
(* Properties. *)

UploadStages == Pending \cup {"none", "committed", "cancelled", "cleanup_pending", "expired"}
Phases == {"idle", "sent", "known", "resolved", "transfer", "storing", "answered"}

\* Every variable has values of its type.
AppRequestsTypeOK ==
    /\ path \in [AllEntries -> AllPaths \cup {Nil}]
    /\ fate \in [AllEntries -> {"nowhere", "live", "bin"}]
    /\ madeBy \in [AllEntries -> Issuers \cup {Nil}]
    /\ homes \subseteq Issuers /\ shared \subseteq Theirs
    /\ honored \subseteq Proofs /\ active \in BOOLEAN
    /\ \A r \in records : r.body \in Bodies /\ r.app \in Issuers /\ r.entry \in AllEntries
    /\ \A k \in Issuers \X Operations :
        /\ upload[k].stage \in UploadStages
        /\ upload[k].stage # "none" =>
              upload[k].body \in Bodies /\ upload[k].entry \in AllEntries \ Theirs
    /\ at \in [AppCalls -> Phases]
    /\ \A c \in AppCalls : at[c] \in {"sent", "known", "resolved"} =>
           body[c] \in Bodies /\ proof[c] \in Proofs
    /\ \A c \in AppCalls : at[c] \in {"transfer", "storing"} => file[c] \in SecretFiles
    /\ \A f \in SecretFiles : secret[f].what \in {"absent", "empty", "full"}
    /\ output \in {"absent", "another", "download"}
    /\ begun \in Nat /\ meddled \in 0 .. Menu.meddling

KeyOfEffect(d) == <<d.kind, d.op, d.app>>
Mutations == {"folder", "trash", "invite", "link", "commit"}

\* An app that is confined works only in its own folder, where that folder is
\* when the effect happens and not when the entry was looked up; and in
\* another drive it does no more than read what is shared.
StaysInItsFolder ==
    \A i \in DOMAIN done : Confined(done[i].app) =>
        /\ done[i].folder = done[i].app
        /\ done[i].theirs => done[i].kind = "read" /\ done[i].granted

\* Whatever an app moves to the bin, it has made.
TrashesItsOwn == \A i \in DOMAIN done : done[i].kind = "trash" => done[i].by = done[i].app

\* An operation takes effect once, however often it is sent: until its record
\* has expired, and for an upload for ever.
TakesEffectOnce ==
    \A i, j \in DOMAIN done :
        /\ done[i].kind \in Mutations
        /\ KeyOfEffect(done[i]) = KeyOfEffect(done[j]) /\ i # j
        => KeyOfEffect(done[i]) \in lapsed

\* What a command reports as done has been done, for the body it was given.
ReportsAreTrue ==
    \A t \in told : t.kind \in Mutations =>
        \E i \in DOMAIN done :
            /\ KeyOfEffect(done[i]) = <<t.kind, t.op, t.app>>
            /\ t.kind # "commit" => done[i].body = t.body

\* What is staged and published are the bytes that the body promised.
PromisedBytes ==
    \A k \in Issuers \X Operations :
        upload[k].stage \in {"staged", "committed"} => upload[k].bytes = upload[k].body.digest

\* A download is put over nothing unless told to replace, and a capability is
\* kept in the file that was made for it.
FilesAreSafe ==
    /\ \A s \in saved : s.over # "absent" => s.force
    /\ \A f \in SecretFiles : secret[f].what = "full" => secret[f].key = secret[f].for

\* An app that acts for an account keeps to its folder, to what it made and to
\* what was asked, once, whatever is sent again and whatever happens meanwhile.
AppRequestsHold ==
    /\ StaysInItsFolder /\ TrashesItsOwn /\ TakesEffectOnce
    /\ ReportsAreTrue /\ PromisedBytes /\ FilesAreSafe
===============================================================================
