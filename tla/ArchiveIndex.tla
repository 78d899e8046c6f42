------------------------------ MODULE ArchiveIndex ------------------------------
(***************************************************************************)
(* What application/archive_listing.rs makes of the bytes of a zip, tar or  *)
(* 7z file: where the central directory of a zip is, found from the end of  *)
(* the file, and how far each format is listed under its limits.            *)
(*                                                                          *)
(* An archive is a record: its format, the bytes before its directory, its  *)
(* members in order and the length of its comment.  A member has a length   *)
(* of name and of comment (zip), of data (tar), or stands for a deletion    *)
(* (anti, 7z).  Compression, names, times and kinds of members are left out. *)
(***************************************************************************)
EXTENDS Naturals, Sequences, FiniteSets

CONSTANTS END_RECORD,   \* 22: bytes of the end record of a zip without its comment
          MAX_COMMENT,  \* 65535: the longest comment
          ZIP64_LOCATOR, ZIP64_RECORD, \* 20 and 56
          SIGNATURE, HEADER,           \* 4 and 46: a directory header, and what it begins with
          MAX_16, MAX_32, \* the field values that send a reader to the zip64 record
          MAX_ZIP_DIRECTORY_BYTES,
          TAR_BLOCK,      \* 512
          MAX_TAR_READ_BYTES,
          MAX_SEVEN_ZIP_BYTES

ASSUME ArchiveAssumption ==
    /\ {MAX_COMMENT, MAX_16, MAX_32, MAX_ZIP_DIRECTORY_BYTES, MAX_TAR_READ_BYTES, MAX_SEVEN_ZIP_BYTES} \subseteq Nat
    /\ {END_RECORD, ZIP64_LOCATOR, ZIP64_RECORD, SIGNATURE, HEADER, TAR_BLOCK} \subseteq Nat \ {0}
    /\ SIGNATURE <= HEADER /\ TAR_BLOCK <= MAX_TAR_READ_BYTES

LesserOf(x, y) == IF x < y THEN x ELSE y
ZIP_TAIL_BYTES == END_RECORD + MAX_COMMENT + ZIP64_LOCATOR + ZIP64_RECORD
Malformed == "malformed"

-----------------------------------------------------------------------------
(* The bytes of an archive. *)

EntryBytes(a, k) ==
    IF a.format = "zip" THEN HEADER + a.members[k].name + a.members[k].comment
    ELSE TAR_BLOCK + a.members[k].data
\* Where member k begins in the directory (zip) or in the stream (tar).
StartOf(a, k) ==
    LET Upto[n \in Nat] == IF n = 0 THEN 0 ELSE Upto[n - 1] + EntryBytes(a, n)
    IN  Upto[k - 1]
DirectoryBytes(a) == StartOf(a, Len(a.members) + 1)
NeedsZip64(a) == Len(a.members) >= MAX_16 \/ DirectoryBytes(a) >= MAX_32 \/ a.before >= MAX_32
EndAt(a) == a.before + DirectoryBytes(a) + (IF NeedsZip64(a) THEN ZIP64_RECORD + ZIP64_LOCATOR ELSE 0)
TotalBytes(a) ==
    CASE a.format = "zip" -> EndAt(a) + END_RECORD + a.comment
      [] a.format = "tar" -> DirectoryBytes(a) + 2 * TAR_BLOCK
      [] a.format = "7z" -> a.before + Len(a.members)

-----------------------------------------------------------------------------
(* Zip. *)

ZipDirectory(a) == [at |-> a.before, bytes |-> DirectoryBytes(a), entries |-> Len(a.members)]

\* locate_zip_directory, from the last bytes of the file.  A field that does
\* not fit is written as the largest value of its width.
LocateZipDirectory(a, tail) ==
    LET from == TotalBytes(a) - tail
    IN  IF EndAt(a) < from THEN Malformed
        ELSE IF ~NeedsZip64(a)
        THEN IF a.before + DirectoryBytes(a) > EndAt(a) THEN Malformed ELSE "directory"
        ELSE IF EndAt(a) - ZIP64_LOCATOR < from THEN Malformed ELSE "zip64"
Zip64RecordAt(a) == a.before + DirectoryBytes(a)

\* zip_entries: headers are read while they begin with the signature, the
\* limit is not reached, and name and extra fields are there; the comment of
\* the last one may be missing.
Begins(a, k, bytes) == k <= Len(a.members) /\ StartOf(a, k) + SIGNATURE <= bytes
IsWhole(a, k, bytes) == StartOf(a, k) + HEADER + a.members[k].name <= bytes
ListedOf(a, limit, IsReadable(_)) ==
    CHOOSE n \in 0 .. LesserOf(limit, Len(a.members)) :
        /\ \A k \in 1 .. n : IsReadable(k)
        /\ n < LesserOf(limit, Len(a.members)) => ~IsReadable(n + 1)
\* The listing without the number of entries the end record declares.
ZipEntriesUndeclared(a, bytes, declared, limit) ==
    LET listed == ListedOf(a, limit, LAMBDA k : IsWhole(a, k, bytes))
        complete == ~Begins(a, listed + 1, bytes)
    IN  [listed |-> listed, truncated |-> ~complete,
         because |-> IF complete THEN "nothing" ELSE IF limit < declared THEN "entry_limit" ELSE "directory_limit"]
ZipEntries(a, bytes, declared, limit) ==
    LET listed == ListedOf(a, limit, LAMBDA k : IsWhole(a, k, bytes))
        complete == ~Begins(a, listed + 1, bytes)
        truncated == ~complete \/ listed < declared
    IN  [listed |-> listed, truncated |-> truncated,
         because |-> IF ~truncated THEN "nothing"
                     ELSE IF limit < declared THEN "entry_limit" ELSE "directory_limit"]
-----------------------------------------------------------------------------
(* Tar: member by member, over a reader that ends at the limit (Capped). *)

TarReadable(a, k) == StartOf(a, k) + TAR_BLOCK <= MAX_TAR_READ_BYTES
TarEntries(a, limit) ==
    LET listed == ListedOf(a, limit, LAMBDA k : TarReadable(a, k))
        more == listed < Len(a.members)
        \* A stream that ends where a header would begin has no further member.
        because == IF more /\ listed = limit /\ StartOf(a, limit + 1) # MAX_TAR_READ_BYTES
                   THEN "entry_limit"
                   ELSE IF more \/ DirectoryBytes(a) + TAR_BLOCK > MAX_TAR_READ_BYTES
                   THEN "read_limit" ELSE "nothing"
    IN  [listed |-> listed, truncated |-> because # "nothing", because |-> because]

-----------------------------------------------------------------------------
(* 7z: the index of a local copy. *)

Kept7z(a) == {k \in DOMAIN a.members : ~a.members[k].anti}
SevenZipEntries(a, limit) ==
    LET declared == Len(a.members)
        listed == LesserOf(limit, Cardinality(Kept7z(a)))
        truncated == listed < declared /\ declared > limit
    IN  [listed |-> listed, truncated |-> truncated,
         because |-> IF truncated THEN "entry_limit" ELSE "nothing"]

-----------------------------------------------------------------------------
\* What there is to list.
MembersOf(a) == IF a.format = "7z" THEN Cardinality(Kept7z(a)) ELSE Len(a.members)
===============================================================================
