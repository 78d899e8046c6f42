\* Liveness: due batches are purged, unless an upload is stuck in 'completing'.
SPECIFICATION FairSpec
CONSTANTS
    docs = docs  plan = plan  note = note  clip = clip
    plan1 = plan1  plan2 = plan2  note1 = note1  clip1 = clip1
    drive = drive  w1 = w1  w2 = w2
    NoVersion = NoVersion
    NoLane = NoLane
    NoEntry = NoEntry
    Root = drive
    Folders = {docs}
    Files = {clip}
    Home <- HomeInFolder
    Versions = {clip1}
    FileOf <- OwnerOfVersion
    Initial = {}
    Uploads = {clip1}
    Timed = {clip}
    Lanes = {w1}
    Broken = {}
    BatchSize = 2
    MaxBatches = 2
INVARIANT TypeOK
PROPERTY DuePurgedUnlessStuck
\* Ids are finite: the system stops when they are used up.
CHECK_DEADLOCK FALSE
