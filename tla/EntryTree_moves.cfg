\* A folder is renamed while a folder in it is moved out of it.
SPECIFICATION Spec
CONSTANTS
    docs = docs  team = team  note = note  memo = memo
    drive = drive  c1 = c1  c2 = c2
    NoEntry = NoEntry
    Root = drive
    Entries = {docs, team, note}
    Initial <- TwoFoldersAndNote
    Clients = {c1, c2}
    Operations = {"move", "rename"}
    MaxBatches = 0
INVARIANT PathsMatchParents
\* A deletion waits for a batch number: with none left its session can stop.
CHECK_DEADLOCK FALSE
