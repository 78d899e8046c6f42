\* Creations and moves below folders that are deleted and restored meanwhile; those below
\* folders that are renamed meanwhile; creations in deep trees that are deleted meanwhile; and
\* every way to share, move, delete and restore what is in a drive.
SPECIFICATION DriveSpec
CONSTANTS
    Parts = {"tree", "paths", "deletions", "rights"}

    docs = docs  team = team  note = note  memo = memo
    drive = drive  c1 = c1  c2 = c2
    NoEntry = NoEntry
    Root = drive
    Entries = {docs, team, note, memo}
    Initial <- TwoFolders
    Clients = {c1, c2}
    Operations = {"create", "move", "rename", "delete", "restore"}
    MaxBatches = 2

    ada = ada
    bob = bob
    bot = bot
    People = {ada, bob, bot}
    Nobody = nobody
    CustodianOf <- MCCustodianOf
    Owners = {ada, bot}
    DriveRoot = drive
    Items = {e1, e2, e3}
    MaxGrants = 1
SYMMETRY DriveSymmetry
INVARIANTS NoLiveBelowDeleted ClosureMatchesParents PrefiltersAgree TreeIsNavigable
PROPERTIES DeletesOnlyChecked PathsBreakOnlyByMovesOut
\* Deletion batches are finite: the system stops when they are used up.
CHECK_DEADLOCK FALSE
