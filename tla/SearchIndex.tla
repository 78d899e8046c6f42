------------------------------ MODULE SearchIndex ------------------------------
(***************************************************************************)
(* The search index: a document per live file, with the file's name and     *)
(* the text of its current version.  Publishing a file inserts its document *)
(* and publishing a version resets it, both in the transaction of the       *)
(* publication.  Renames, deletions and restores leave the document to the  *)
(* worker's maintenance.  Extraction passes, one per worker host, list      *)
(* pending documents with the versions they point at, read the objects, and *)
(* settle each document if it is still pending.                             *)
(*                                                                          *)
(* A text is named by the version it comes from.  Definitions carry the     *)
(* prefix of the component where other components use the same word.        *)
(***************************************************************************)
EXTENDS Naturals, Sequences, FiniteSets

CONSTANTS
    SearchFiles,
    MaxRenames,   \* bound on the names a file takes, one after the other
    TextVersions, \* versions whose media type is text
    MaxVersion,   \* bound on versions of a file
    Unreachable,  \* files in a bucket that refuses every read
    Passes,       \* worker hosts
    BatchLimit    \* documents listed by a pass

ASSUME SearchAssumption ==
    /\ IsFiniteSet(SearchFiles)
    /\ MaxVersion \in Nat \ {0} /\ TextVersions \subseteq 1..MaxVersion
    /\ BatchLimit \in Nat \ {0}
    /\ MaxRenames \in Nat
    /\ Unreachable \subseteq SearchFiles

VARIABLES
    file,       \* entries: name, current version, and whether it is live
    document,   \* search_documents
    updated,    \* the files with a document, by its updated_at
    listed,     \* the rows each pass has still to work through
    sweep,      \* the maintenance transaction: what its statements have read
    overtaken   \* history: files whose current version changed while a pass
                \* had them listed, and those whose version was restored

searchVars == <<file, document, updated, listed, sweep, overtaken>>

NoName == MaxRenames + 1
Settled == {"indexed", "unsupported", "failed"}
NoDocument == [name |-> NoName, status |-> "none", text |-> 0]
Absent == [state |-> "absent", name |-> NoName, version |-> 0]
NoSweep == [on |-> FALSE, names |-> [f \in SearchFiles |-> NoName]]

SearchInit ==
    /\ file = [f \in SearchFiles |-> Absent]
    /\ document = [f \in SearchFiles |-> NoDocument]
    /\ updated = <<>>
    /\ listed = [p \in Passes |-> <<>>]
    /\ sweep = NoSweep
    /\ overtaken = {}

Live(f) == file[f].state = "live"
InHand(f) == \E p \in Passes : \E i \in DOMAIN listed[p] : listed[p][i].file = f
Without(f) == SelectSeq(updated, LAMBDA g : g # f)

\* A row of search_documents is written: its updated_at moves to the end.
Write(f, row) ==
    /\ document' = [document EXCEPT ![f] = row]
    /\ updated' = Append(Without(f), f)

-----------------------------------------------------------------------------
(* Requests, each one transaction. *)

CreateFile(f) ==
    /\ file[f].state = "absent"
    /\ file' = [file EXCEPT ![f] = [state |-> "live", name |-> 0, version |-> 1]]
    /\ Write(f, [name |-> 0, status |-> "pending", text |-> 0])
    /\ UNCHANGED <<listed, sweep, overtaken>>

VersionChanges(f) ==
    /\ Live(f)
    /\ file[f].version < MaxVersion
    /\ file' = [file EXCEPT ![f].version = @ + 1]
    /\ overtaken' = IF InHand(f) THEN overtaken \cup {f} ELSE overtaken
    /\ UNCHANGED <<listed, sweep>>

PublishKeepingText(f) ==
    /\ VersionChanges(f)
    /\ UNCHANGED <<document, updated>>

PublishNextVersion(f) ==
    /\ VersionChanges(f)
    /\ IF document[f] # NoDocument
       THEN Write(f, [document[f] EXCEPT !.status = "pending", !.text = 0])
       ELSE UNCHANGED <<document, updated>>

\* The document is not touched.
RestoreVersion(f) ==
    /\ Live(f)
    /\ file[f].version < MaxVersion
    /\ file' = [file EXCEPT ![f].version = @ + 1]
    /\ overtaken' = overtaken \cup {f}
    /\ UNCHANGED <<document, updated, listed, sweep>>

Rename(f) ==
    /\ Live(f)
    /\ file[f].name < MaxRenames
    /\ file' = [file EXCEPT ![f].name = @ + 1]
    /\ UNCHANGED <<document, updated, listed, sweep, overtaken>>

DeleteFile(f) ==
    /\ Live(f)
    /\ file' = [file EXCEPT ![f].state = "deleted"]
    /\ UNCHANGED <<document, updated, listed, sweep, overtaken>>

RestoreFile(f) ==
    /\ file[f].state = "deleted"
    /\ file' = [file EXCEPT ![f].state = "live"]
    /\ UNCHANGED <<document, updated, listed, sweep, overtaken>>

-----------------------------------------------------------------------------
(* Maintenance: one transaction of two statements with a snapshot each. *)

ReadNames ==
    /\ ~sweep.on
    /\ sweep' = [NoSweep EXCEPT !.on = TRUE,
                    !.names = [f \in SearchFiles |-> IF Live(f) THEN file[f].name ELSE NoName]]
    /\ UNCHANGED <<file, document, updated, listed, overtaken>>

\* What INSERT ... ON CONFLICT and the DELETE make of a document.
Maintained(f) ==
    CASE ~Live(f) -> NoDocument
      [] Live(f) /\ sweep.names[f] = NoName -> document[f]
      [] OTHER -> IF document[f] = NoDocument
                  THEN [name |-> sweep.names[f], status |-> "pending", text |-> 0]
                  ELSE [document[f] EXCEPT !.name = sweep.names[f]]

\* Documents written get the end of the queue, in some order.
CommitMaintenance ==
    /\ sweep.on
    /\ document' = [f \in SearchFiles |-> Maintained(f)]
    /\ LET touched == {f \in SearchFiles : document'[f] # document[f]}
           written == {f \in touched : document'[f] # NoDocument}
       IN \E order \in [1..Cardinality(written) -> written] :
            /\ \A f \in written : \E i \in DOMAIN order : order[i] = f
            /\ updated' = SelectSeq(updated, LAMBDA f : f \notin touched) \o order
    /\ sweep' = NoSweep
    /\ UNCHANGED <<file, listed, overtaken>>

MaintenanceFails ==
    /\ sweep.on
    /\ sweep' = NoSweep
    /\ UNCHANGED <<file, document, updated, listed, overtaken>>

-----------------------------------------------------------------------------
(* Extraction. *)

Pending == {f \in SearchFiles : document[f].status = "pending" /\ Live(f)}

Before(f, g) == \E i, j \in DOMAIN updated : i < j /\ updated[i] = f /\ updated[j] = g

\* ORDER BY updated_at LIMIT: the files whose documents wait longest, in order.
Oldest ==
    LET count == IF Cardinality(Pending) < BatchLimit THEN Cardinality(Pending) ELSE BatchLimit
    IN {batch \in [1..count -> Pending] :
            /\ \A i, j \in 1..count : i < j => Before(batch[i], batch[j])
            /\ \A i \in 1..count, f \in Pending :
                    (\A j \in 1..count : batch[j] # f) => Before(batch[i], f)}

ListPending(p) ==
    /\ listed[p] = <<>>
    /\ Pending # {}
    /\ \E batch \in Oldest :
        listed' = [listed EXCEPT ![p] =
            [i \in DOMAIN batch |-> [file |-> batch[i], version |-> file[batch[i]].version]]]
    /\ UNCHANGED <<file, document, updated, sweep, overtaken>>

NextRow(p) == listed' = [listed EXCEPT ![p] = Tail(@)]

\* UPDATE ... WHERE extraction_status = 'pending'.
Settle(f, status, text) ==
    IF document[f].status = "pending"
    THEN Write(f, [document[f] EXCEPT !.status = status, !.text = text])
    ELSE UNCHANGED <<document, updated>>

\* The text is read, or the object is gone, or the type or the bytes are no text.
Extract(p) ==
    /\ listed[p] # <<>>
    /\ LET row == Head(listed[p]) IN
       IF row.version \in TextVersions
       THEN /\ row.file \notin Unreachable
            /\ \/ Settle(row.file, "indexed", row.version)
               \/ Settle(row.file, "failed", 0)
       ELSE Settle(row.file, "unsupported", 0)
    /\ NextRow(p)
    /\ UNCHANGED <<file, sweep, overtaken>>

DeferEndsPass(p) ==
    /\ listed[p] # <<>>
    /\ Head(listed[p]).version \in TextVersions
    /\ listed' = [listed EXCEPT ![p] = <<>>]
    /\ UNCHANGED <<file, document, updated, sweep, overtaken>>

\* The store cannot answer: the document stays pending, where it is in the queue.
Defer(p) ==
    /\ listed[p] # <<>>
    /\ Head(listed[p]).version \in TextVersions
    /\ NextRow(p)
    /\ UNCHANGED <<file, document, updated, sweep, overtaken>>

\* A statement fails, or the host stops.
PassEnds(p) ==
    /\ listed[p] # <<>>
    /\ listed' = [listed EXCEPT ![p] = <<>>]
    /\ UNCHANGED <<file, document, updated, sweep, overtaken>>

-----------------------------------------------------------------------------
SearchNext ==
    \/ \E f \in SearchFiles :
        CreateFile(f) \/ Rename(f) \/ PublishNextVersion(f) \/ RestoreVersion(f) \/ DeleteFile(f) \/ RestoreFile(f)
    \/ ReadNames \/ CommitMaintenance \/ MaintenanceFails
    \/ \E p \in Passes : ListPending(p) \/ Extract(p) \/ Defer(p) \/ PassEnds(p)

\* Worker loops tick for ever, and what they try again and again is not refused
\* for ever.  Clients owe nothing.
SearchFairness ==
    /\ WF_searchVars(ReadNames) /\ SF_searchVars(CommitMaintenance)
    /\ \A p \in Passes :
        /\ WF_searchVars(ListPending(p))
        /\ SF_searchVars(Extract(p) \/ Defer(p))
        /\ \A f \in SearchFiles :
            SF_searchVars(Extract(p) /\ Head(listed[p]).file = f)

SearchSpec == SearchInit /\ [][SearchNext]_searchVars /\ SearchFairness

-----------------------------------------------------------------------------
\* The types of the rows, of what passes have listed and of the maintenance.
SearchRows ==
    /\ file \in [SearchFiles -> [state : {"absent", "live", "deleted"},
                                 name : 0..NoName, version : 0..MaxVersion]]
    /\ document \in [SearchFiles -> [name : 0..NoName,
                                     status : Settled \cup {"none", "pending"}, text : 0..MaxVersion]]
    /\ listed \in [Passes -> Seq([file : SearchFiles, version : 0..MaxVersion])]
    /\ sweep \in [on : BOOLEAN, names : [SearchFiles -> 0..NoName]]
    /\ overtaken \subseteq SearchFiles

\* Types; a document has text exactly when it is indexed, and a place in the
\* order of updates exactly when it is there.
SearchTypeOK ==
    /\ SearchRows
    /\ \A f \in SearchFiles : document[f].status = "indexed" <=> document[f].text # 0
    /\ \A f \in SearchFiles :
        document[f] # NoDocument <=> \E i \in DOMAIN updated : updated[i] = f

\* The indexed text is that of the current version.
IndexedIsCurrent ==
    \A f \in SearchFiles : document[f].status = "indexed" => document[f].text = file[f].version

\* It is, when no version was restored and none was published while a pass had
\* the file listed, whatever deletions, renames and maintenance do meanwhile.
IndexedIsCurrentUnlessOvertaken ==
    \A f \in SearchFiles \ overtaken :
        document[f].status = "indexed" => document[f].text = file[f].version

\* What makes it hold: the rows that a pass has listed are of files that exist,
\* and of their current versions.
ListedRowsCurrent ==
    \A p \in Passes : \A i \in DOMAIN listed[p] :
        LET row == listed[p][i] IN
        /\ file[row.file].state # "absent"
        /\ row.file \notin overtaken => row.version = file[row.file].version

SearchInductive == SearchRows /\ ListedRowsCurrent /\ IndexedIsCurrentUnlessOvertaken

Changing(f) == []<><<file'[f] # file[f]>>_searchVars

\* A live file that is left alone is found under its name in the end.
NamesConverge ==
    \A f \in SearchFiles : []<>(Live(f) => document[f].name = file[f].name) \/ Changing(f)

\* The document of a live file that is left alone is settled in the end, if
\* fewer files than a batch holds are in buckets that refuse every read.
PendingDrains ==
    \A f \in SearchFiles \ Unreachable :
        []<>(Live(f) => document[f].status \in Settled) \/ Changing(f)

\* In the end a document has the name of its file, and its text if the bucket
\* can be read.
DocumentsConverge == NamesConverge /\ PendingDrains
=============================================================================
