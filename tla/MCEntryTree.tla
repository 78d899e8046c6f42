----------------------------- MODULE MCEntryTree ------------------------------
(* A folder docs with a folder team in it; note and memo can be created.      *)
EXTENDS EntryTree

CONSTANTS docs, team, note, memo, drive, c1, c2

TwoFolders ==
    [e \in Entries |-> CASE e = docs -> drive [] e = team -> docs [] OTHER -> NoEntry]
TwoFoldersAndNote ==
    [e \in Entries |-> CASE e = team -> docs [] OTHER -> drive]
=============================================================================
