---------------------------- MODULE ContentDelivery ----------------------------
(***************************************************************************)
(* Reading bytes: a request for a file or a range of it, the listing of an  *)
(* archive, and the download of a folder as one archive, by an account or   *)
(* by anyone with the link.  Each opens files one at a time (authorize_     *)
(* download, open_object, record_content_access), every opening on its own  *)
(* reading of the database, while files are published again, moved,         *)
(* renamed, trashed and purged, and access is taken away.                   *)
(*                                                                          *)
(* One request is in progress at a time; only requests share nothing but    *)
(* the four slots of each kind, which are left out.                         *)
(***************************************************************************)
EXTENDS ArchiveIndex, Integers, SequencesExt

CONSTANTS Files,       \* files, by id: numbers, which the public scan is sorted by
          Sub,         \* a folder in the downloaded folder
          Scenes,      \* [op, archive, hidden]: what will be asked for, what the first file is,
                       \* and which files the reader may not read
          Reuploaded,  \* what the first file becomes when it is published again
          Limits,      \* entries asked for of an archive
          Ranges,      \* Range headers: [start, end], each a number or NoBound
          NoBound,
          PageLimit,   \* entries of one page
          MaxRefills,  \* MAX_PAGE_REFILLS
          MaxDisturbances \* bound: changes during the request

Nodes == Files \cup {Sub}
AnotherName == 0 \* a node is first named after its number; this name none has
Top == 0       \* the folder that is downloaded
Elsewhere == -1 \* any other folder of the drive
Listed == CHOOSE f \in Files : \A g \in Files : f <= g \* the file that is an archive

ASSUME DeliveryAssumption ==
    /\ Nodes \subseteq Nat \ {Top} /\ Sub \notin Files
    /\ PageLimit \in Nat \ {0} /\ MaxRefills \in Nat /\ MaxDisturbances \in Nat
    /\ \A r \in Ranges : {r.start, r.end} \subseteq Nat \cup {NoBound}

VARIABLES
    entry,     \* entries: [in, name, stamp, version, live, may, archive]
    bucket,    \* objects: <<file, version>>
    linked,    \* whether the folder has a link
    request,   \* the request in progress
    touched, \* what other requests have changed since it began
    changes

readVars == <<entry, bucket, linked, request, touched, changes>>

-----------------------------------------------------------------------------
(* Ranges. *)

\* parse_single_range: a pair that is not one of three forms asks for the whole file.
Whole == [form |-> "whole"]
ParseSingleRange(header) ==
    IF header.start # NoBound /\ header.end # NoBound
    THEN IF header.start <= header.end
         THEN [form |-> "between", start |-> header.start, end |-> header.end] ELSE Whole
    ELSE IF header.start # NoBound THEN [form |-> "from", start |-> header.start]
    ELSE IF header.end # NoBound THEN [form |-> "last", length |-> header.end]
    ELSE Whole

\* resolve_range: the first and the last byte, or Unsatisfiable.
Unsatisfiable == [start |-> 1, end |-> 0]
RangeAsked(asked, total, lastOfPair) ==
    LET last == total - 1
        range == CASE asked.form = "from" -> [start |-> asked.start, end |-> last]
                   [] asked.form = "between" -> [start |-> asked.start, end |-> lastOfPair]
                   [] asked.form = "last" -> [start |-> IF asked.length > total THEN 0 ELSE total - asked.length,
                                              end |-> last]
    IN  IF total = 0 \/ range.start > range.end \/ range.start >= total THEN Unsatisfiable ELSE range
\* The end of a pair as it was asked for.
ResolveRangeUnclipped(asked, total) == RangeAsked(asked, total, IF asked.form = "between" THEN asked.end ELSE 0)
ResolveRange(asked, total) ==
    RangeAsked(asked, total, IF asked.form = "between" THEN LesserOf(asked.end, total - 1) ELSE 0)
Served(asked, total) ==
    IF asked = Whole THEN [start |-> 0, end |-> total - 1] ELSE ResolveRange(asked, total)
Bytes(range) == range.end - range.start + 1

-----------------------------------------------------------------------------
(* What is there. *)

ArchiveOf(f, version) == IF version = 1 \/ entry[f].archive.format # "zip" THEN entry[f].archive ELSE Reuploaded
SizeOf(f, version) == IF f = Listed THEN TotalBytes(ArchiveOf(f, version)) ELSE version - 1

IsBelow(i) == /\ entry[i].live
              /\ entry[i].in = Top \/ (entry[i].in = Sub /\ entry[Sub].live /\ entry[Sub].in = Top)
\* Access to a folder that is only passed through is access to something in it.
MayRead(f) == entry[f].live /\ entry[f].may
Visible(i) == IF i \in Files THEN MayRead(i)
              ELSE entry[i].live /\ \E f \in Files : entry[f].in = i /\ MayRead(f)

\* public_entry: what the path leads to, below a linked folder.
NoNode == Elsewhere
PathOf(i) == IF entry[i].in = Sub THEN <<entry[Sub].name, entry[i].name>> ELSE <<entry[i].name>>
AtPath(path) ==
    IF linked /\ \E i \in Nodes : IsBelow(i) /\ PathOf(i) = path
    THEN CHOOSE i \in Nodes : IsBelow(i) /\ PathOf(i) = path
    ELSE NoNode

-----------------------------------------------------------------------------
(* The request. *)

NoListing == [listed |-> 0, truncated |-> FALSE, because |-> "none"]
Quiet == [op |-> "none", public |-> FALSE, pc |-> "idle", of |-> 0, range |-> Whole, version |-> 0,
          limit |-> 0, phase |-> "none", tail |-> 0, declared |-> 0, listing |-> NoListing, pieces |-> <<>>,
          pending |-> <<>>, page |-> <<>>, refills |-> 0, members |-> <<>>, outage |-> FALSE]

SceneSet(scene) ==
    /\ request = [Quiet EXCEPT !.op = scene.op]
    /\ entry = [i \in Nodes |->
            [in |-> IF i = Sub \/ i = Listed THEN Top ELSE IF i % 2 = 0 THEN Sub ELSE Top,
             name |-> i, stamp |-> i, version |-> 1, live |-> TRUE, may |-> i \notin scene.hidden,
             archive |-> scene.archive]]
    /\ bucket = {<<f, 1>> : f \in Files}
    /\ linked = TRUE
    /\ touched = {}
    /\ changes = 0
DeliveryInit == \E scene \in Scenes : SceneSet(scene)

Ends(pc) == request' = [request EXCEPT !.pc = pc]
Database == <<entry, bucket, linked, touched, changes>>

\* read_content and read_public: the requested_range of the header.
AskContent(f, header, public) ==
    /\ request.pc = "idle" /\ request.op = "content"
    /\ request' = [Quiet EXCEPT !.op = "content", !.public = public, !.pc = "authorize", !.of = f,
                                !.range = ParseSingleRange(header)]
    /\ UNCHANGED Database

\* archive_listing::list: the end of a zip is read first, another format as a
\* whole.  A copy of a 7z file is bounded.
AskListing(limit) ==
    /\ request.pc = "idle" /\ request.op = "listing"
    /\ MayRead(Listed)
    /\ LET zip == entry[Listed].archive.format = "zip"
       IN  request' = [Quiet EXCEPT !.op = "listing", !.pc = "authorize", !.of = Listed, !.limit = limit,
                                    !.phase = IF zip THEN "tail" ELSE "stream",
                                    !.range = IF zip THEN [form |-> "last", length |-> ZIP_TAIL_BYTES] ELSE Whole]
    /\ UNCHANGED Database

\* archive::serve and serve_public.
AskFolder(public) ==
    /\ request.pc = "idle" /\ request.op = "folder" /\ (public => linked)
    /\ request' = [Quiet EXCEPT !.op = "folder", !.public = public, !.pc = "walk",
                                !.pending = << [folder |-> Top, as |-> <<>>, cursor |-> <<>>] >>]
    /\ UNCHANGED Database

-----------------------------------------------------------------------------
(* Opening a file. *)

MayOpen(f) == IF request.public THEN linked /\ IsBelow(f) ELSE MayRead(f)

\* authorize_download or public_download, and resolve_range.
AuthorizeDownload ==
    LET f == request.of
        range == Served(request.range, SizeOf(f, entry[f].version))
    IN  /\ request.pc = "authorize"
        /\ request' = [request EXCEPT
                !.version = entry[f].version,
                !.pc = IF ~MayOpen(f) THEN "failed"
                       ELSE IF range = Unsatisfiable /\ request.range # Whole THEN "unsatisfiable" ELSE "open"]
        /\ UNCHANGED Database

\* Where a finished opening leads.
RangeOf(r) == Served(r.range, SizeOf(r.of, r.version))
Piece(r) == [of |-> r.of, version |-> r.version, range |-> RangeOf(r)]

\* list_zip after its first, second and third reading.
TailStart(r) == TotalBytes(ArchiveOf(r.of, r.version)) - Bytes(RangeOf(r))
ReadDirectory(r, directory) ==
    LET wanted == LesserOf(directory.bytes, MAX_ZIP_DIRECTORY_BYTES)
        known == [r EXCEPT !.declared = directory.entries]
        asked == [form |-> "between", start |-> directory.at, end |-> directory.at + wanted - 1]
    IN  IF wanted # 0 /\ directory.at < r.tail
        THEN [known EXCEPT !.pc = "authorize", !.phase = "directory", !.range = asked]
        ELSE [known EXCEPT !.pc = "done",
                !.listing = ZipEntries(ArchiveOf(r.of, r.version), wanted, directory.entries, r.limit)]
AfterTail(r) ==
    LET archive == ArchiveOf(r.of, r.version)
        found == LocateZipDirectory(archive, Bytes(RangeOf(r)))
        known == [r EXCEPT !.tail = TailStart(r)]
    IN  CASE found = Malformed -> [r EXCEPT !.pc = "refused"]
          [] found = "directory" -> ReadDirectory(known, ZipDirectory(archive))
          [] found = "zip64" ->
                IF Zip64RecordAt(archive) >= known.tail THEN ReadDirectory(known, ZipDirectory(archive))
                ELSE [known EXCEPT !.pc = "authorize", !.phase = "record",
                        !.range = [form |-> "between", start |-> Zip64RecordAt(archive),
                                   end |-> Zip64RecordAt(archive) + ZIP64_RECORD - 1]]
\* Each reading is of the version that is current by then.  A record at another
\* place is none; a directory that begins elsewhere has no header to begin with.
IsElsewhere(r) == r.range.start # IF r.phase = "record" THEN Zip64RecordAt(ArchiveOf(r.of, r.version))
                                  ELSE ArchiveOf(r.of, r.version).before
AfterRecord(r) ==
    IF IsElsewhere(r) THEN [r EXCEPT !.pc = "refused"]
    ELSE ReadDirectory(r, ZipDirectory(ArchiveOf(r.of, r.version)))
AfterDirectory(r) ==
    [r EXCEPT !.pc = "done",
              !.listing = IF IsElsewhere(r)
                          THEN ZipEntries([ArchiveOf(r.of, r.version) EXCEPT !.members = <<>>], 0, r.declared, r.limit)
                          ELSE ZipEntries(ArchiveOf(r.of, r.version), Bytes(RangeOf(r)), r.declared, r.limit)]
AfterStream(r) ==
    LET archive == ArchiveOf(r.of, r.version)
    IN  IF archive.format = "7z" /\ TotalBytes(archive) > MAX_SEVEN_ZIP_BYTES THEN [r EXCEPT !.pc = "refused"]
        ELSE [r EXCEPT !.pc = "done",
                       !.listing = IF archive.format = "7z" THEN SevenZipEntries(archive, r.limit)
                                   ELSE TarEntries(archive, r.limit)]

\* The bytes of a member follow its header, which has their number.
AddFile(r) ==
    [r EXCEPT !.pc = "walk", !.page = Tail(r.page),
              !.members = Append(@, [of |-> r.of, path |-> Head(r.page).as, version |-> r.version])]

Delivered(r) ==
    LET known == [r EXCEPT !.pieces = IF r.op = "folder" THEN @ ELSE Append(@, Piece(r))]
    IN  CASE r.op = "content" -> [known EXCEPT !.pc = "done"]
          [] r.op = "folder" -> AddFile(known)
          [] r.op = "listing" ->
                CASE r.phase = "tail" -> AfterTail(known)
                  [] r.phase = "record" -> AfterRecord(known)
                  [] r.phase = "directory" -> AfterDirectory(known)
                  [] r.phase = "stream" -> AfterStream(known)

\* open_object; what is sent is what it streams.
OpenObject ==
    /\ request.pc = "open"
    /\ request' = IF <<request.of, request.version>> \notin bucket THEN [request EXCEPT !.pc = "failed"]
                  ELSE IF request.public THEN Delivered(request)
                  ELSE [request EXCEPT !.pc = "record"]
    /\ UNCHANGED Database
OpenFails ==
    /\ request.pc = "open"
    /\ request' = [request EXCEPT !.pc = "failed", !.outage = TRUE]
    /\ UNCHANGED Database

\* record_content_access asks once more before anything is sent.
RecordAccess ==
    /\ request.pc = "record"
    /\ request' = IF MayRead(request.of) THEN Delivered(request) ELSE [request EXCEPT !.pc = "failed"]
    /\ UNCHANGED Database

-----------------------------------------------------------------------------
(* A folder. *)

\* list_active_children, newest change first, or public_children, by id.
ScanKey(i) == IF request.public THEN <<i, 0>> ELSE <<entry[i].stamp, i>>
Later(a, b) == a[1] > b[1] \/ (a[1] = b[1] /\ a[2] > b[2])
\* The cursor's own entry again.
BeyondInclusive(cursor, i) == cursor # <<>> => ~Later(ScanKey(i), cursor)
Beyond(cursor, i) == cursor # <<>> => Later(cursor, ScanKey(i))
ChildrenOf(folder, cursor) ==
    SetToSortSeq({i \in Nodes : entry[i].live /\ entry[i].in = folder /\ Beyond(cursor, i)},
                 LAMBDA i, j : Later(ScanKey(i), ScanKey(j)))

\* A public folder is found by its path again for every page, a member's by its id.
FolderOf(top) ==
    IF top.folder = Top THEN (IF ~request.public \/ linked THEN Top ELSE NoNode)
    ELSE IF ~request.public THEN (IF Visible(top.folder) THEN top.folder ELSE NoNode)
    ELSE IF AtPath(top.as) \in Files THEN NoNode ELSE AtPath(top.as)
\* The name in the archive: below the name its folder was listed with.
NameBelow(top, i) == IF request.public THEN PathOf(i) ELSE Append(top.as, entry[i].name)

\* One reading of a page.  What its reader may not see is dropped, and the
\* page is filled up by further readings.
ReadCandidates(folder) ==
    LET top == Last(request.pending)
        children == ChildrenOf(folder, top.cursor)
        candidates == SubSeq(children, 1, LesserOf(PageLimit - Len(request.page), Len(children)))
        seen == SelectSeq(candidates, LAMBDA i : request.public \/ Visible(i))
        page == request.page \o [k \in DOMAIN seen |-> [of |-> seen[k], as |-> NameBelow(top, seen[k])]]
        more == Len(children) > Len(candidates)
        next == IF more THEN << [top EXCEPT !.cursor = ScanKey(Last(candidates))] >> ELSE <<>>
        refill == ~request.public /\ more /\ Len(page) < PageLimit /\ request.refills < MaxRefills
    IN  request' = [request EXCEPT !.pending = Front(@) \o next, !.page = page,
                        !.pc = IF refill THEN "refill" ELSE "walk",
                        !.refills = IF refill THEN @ + 1 ELSE 0]
ReadFolder ==
    /\ request.pc = "walk" /\ request.page = <<>> /\ request.pending # <<>>
    /\ LET folder == FolderOf(Last(request.pending))
       IN  IF folder = NoNode THEN Ends("failed") ELSE ReadCandidates(folder)
    /\ UNCHANGED Database
RefillPage ==
    /\ request.pc = "refill"
    /\ ReadCandidates(Last(request.pending).folder)
    /\ UNCHANGED Database

\* The next entry of the page: a folder is walked later, a file is opened;
\* for a link, whatever is at its path by then.
TakeEntry ==
    LET item == Head(request.page)
        target == IF request.public THEN AtPath(item.as) ELSE item.of
    IN  /\ request.pc = "walk" /\ request.page # <<>>
        /\ request' =
            IF item.of = Sub
            THEN [request EXCEPT !.page = Tail(@),
                    !.members = Append(@, [of |-> Sub, path |-> item.as, version |-> 0]),
                    !.pending = Append(@, [folder |-> Sub, as |-> item.as, cursor |-> <<>>])]
            ELSE IF target \notin Files THEN [request EXCEPT !.pc = "failed"]
            ELSE [request EXCEPT !.pc = "authorize", !.of = target, !.range = Whole]
        /\ UNCHANGED Database

FinishArchive ==
    /\ request.pc = "walk" /\ request.page = <<>> /\ request.pending = <<>>
    /\ Ends("done")
    /\ UNCHANGED Database

-----------------------------------------------------------------------------
(* Other requests meanwhile, for a request about one file only those about  *)
(* that file.  Each change of an entry has a later stamp.                   *)

Reading == request.pc \notin {"idle", "done", "failed", "refused", "unsatisfiable"}
NextStamp == 1 + CHOOSE s \in {entry[i].stamp : i \in Nodes} : \A i \in Nodes : entry[i].stamp <= s
Disturb(items) == /\ Reading /\ changes < MaxDisturbances
                  /\ request.op # "folder" => request.of \in items
                  /\ changes' = changes + 1 /\ touched' = touched \cup items
                  /\ UNCHANGED request
PublishAgain(f) ==
    /\ Disturb({f}) /\ entry[f].live /\ entry[f].version = 1
    /\ entry' = [entry EXCEPT ![f].version = 2, ![f].stamp = NextStamp]
    /\ bucket' = bucket \cup {<<f, 2>>}
    /\ UNCHANGED linked
FreeIn(folder, name) == \A i \in Nodes : entry[i].live /\ entry[i].in = folder => entry[i].name # name
MoveOrRename(i) ==
    /\ Disturb({i}) /\ entry[i].live
    /\ \E folder \in {Top, Sub, Elsewhere} \ {i}, name \in {entry[j].name : j \in Nodes} \cup {AnotherName} :
        /\ FreeIn(folder, name) /\ (folder = Sub => entry[Sub].live)
        /\ (folder # entry[i].in /\ name = entry[i].name) \/ (folder = entry[i].in /\ name # entry[i].name)
        /\ entry' = [entry EXCEPT ![i].in = folder, ![i].name = name, ![i].stamp = NextStamp]
    /\ UNCHANGED <<bucket, linked>>
TrashEntry(i) ==
    LET gone == {j \in Nodes : j = i \/ entry[j].in = i}
    IN  /\ Disturb(gone) /\ entry[i].live
        /\ entry' = [j \in Nodes |-> IF j \in gone THEN [entry[j] EXCEPT !.live = FALSE] ELSE entry[j]]
        /\ UNCHANGED <<bucket, linked>>
PurgeFile(f) ==
    /\ Disturb({f}) /\ ~entry[f].live
    /\ bucket' = {o \in bucket : o[1] # f}
    /\ UNCHANGED <<entry, linked>>
Withdraw(f) ==
    /\ Disturb({f}) /\ entry[f].may
    /\ entry' = [entry EXCEPT ![f].may = FALSE]
    /\ UNCHANGED <<bucket, linked>>
Unlink == Disturb(Nodes) /\ linked /\ linked' = FALSE /\ UNCHANGED <<entry, bucket>>

DeliveryStep ==
    \/ AuthorizeDownload \/ OpenObject \/ OpenFails \/ RecordAccess
    \/ ReadFolder \/ RefillPage \/ TakeEntry \/ FinishArchive
DeliveryNext ==
    \/ \E f \in Files, header \in Ranges, public \in BOOLEAN : AskContent(f, header, public)
    \/ \E limit \in Limits : AskListing(limit)
    \/ \E public \in BOOLEAN : AskFolder(public)
    \/ DeliveryStep
    \/ \E f \in Files : PublishAgain(f) \/ PurgeFile(f) \/ Withdraw(f)
    \/ \E i \in Nodes : MoveOrRename(i) \/ TrashEntry(i)
    \/ Unlink
DeliverySpec == DeliveryInit /\ [][DeliveryNext]_readVars

-----------------------------------------------------------------------------
\* A request in progress, and the versions and paths it may have met.
DeliveryTypeOK ==
    /\ changes \in 0 .. MaxDisturbances /\ touched \subseteq Nodes
    /\ bucket \subseteq Files \X {1, 2}
    /\ request.pc \in {"idle", "authorize", "open", "record", "walk", "refill",
                      "done", "failed", "refused", "unsatisfiable"}
    /\ \A k \in DOMAIN request.pieces : <<request.pieces[k].of, request.pieces[k].version>> \in Files \X {1, 2}

\* The bytes a Range header asks for, of total bytes (RFC 9110): the ones sent
\* are exactly these, and only a range without any is refused.
Asked(range, total) ==
    {b \in 0 .. (total - 1) :
        CASE range.form = "whole" -> TRUE
          [] range.form = "from" -> b >= range.start
          [] range.form = "between" -> b >= range.start /\ b <= range.end
          [] range.form = "last" -> b >= total - range.length}
RangesServed ==
    request.op = "content" =>
        LET total == SizeOf(request.of, request.version)
            sent == request.pieces[1].range
        IN  /\ request.pc = "done" => Asked(request.range, total) = sent.start .. sent.end
            /\ request.pc = "unsatisfiable" => Asked(request.range, total) = {}

\* The list of an archive: no more than asked for, in at most three bounded
\* readings, and never short without saying so.  A limit on entries is named
\* only when there are more.
ListingIsHonest ==
    request.op = "listing" /\ request.pc = "done" /\ Listed \notin touched =>
        LET archive == ArchiveOf(request.of, request.version)
            listing == request.listing
        IN  /\ listing.listed <= request.limit
            /\ ~listing.truncated => listing.listed = MembersOf(archive)
            /\ listing.because = "entry_limit" /\ archive.format # "7z" => listing.listed < MembersOf(archive)
            /\ Len(request.pieces) <= 3
            /\ archive.format = "zip" => \A k \in DOMAIN request.pieces :
                    Bytes(request.pieces[k].range) <= LesserOf(ZIP_TAIL_BYTES, TotalBytes(archive))
                    \/ Bytes(request.pieces[k].range) <= MAX_ZIP_DIRECTORY_BYTES

\* The archive of a folder holds every file below it that its reader may read
\* once, at its path and in its version, and no other: unless the file, or the
\* folder it is in, was changed meanwhile.
Undisturbed(f) == f \notin touched /\ (entry[f].in = Sub => Sub \notin touched)
Owed(f) == IsBelow(f) /\ (request.public \/ MayRead(f))
MembersThatAre(f) == {k \in DOMAIN request.members : request.members[k].of = f}
ArchiveIsWhole ==
    request.op = "folder" /\ request.pc = "done" =>
        \A f \in Files : Undisturbed(f) =>
            /\ Cardinality(MembersThatAre(f)) = IF Owed(f) THEN 1 ELSE 0
            /\ \A k \in MembersThatAre(f) : /\ request.members[k].path = PathOf(f)
                                            /\ request.members[k].version = entry[f].version

\* No request fails on its own: what is listed can be opened, what is found in
\* an archive is where it is looked for.
NoNeedlessRefusal ==
    request.pc \in {"failed", "refused"} /\ touched = {} /\ ~request.outage =>
        \/ request.op = "content" /\ ~MayOpen(request.of)
        \/ request.op = "listing" /\ TotalBytes(entry[Listed].archive) > MAX_SEVEN_ZIP_BYTES

\* What a reader is sent is what was there for it.
DeliveriesAreFaithful == DeliveryTypeOK /\ RangesServed /\ ListingIsHonest /\ ArchiveIsWhole /\ NoNeedlessRefusal
===============================================================================
