\* A folder with a self-destructing file of two versions, and two cleanup lanes.
SPECIFICATION Spec
CONSTANTS
    docs = docs  plan = plan  note = note  clip = clip
    plan1 = plan1  plan2 = plan2  note1 = note1  clip1 = clip1
    drive = drive  w1 = w1  w2 = w2
    NoVersion = NoVersion
    NoLane = NoLane
    NoEntry = NoEntry
    Root = drive
    Folders = {docs}
    Files = {plan}
    Home <- HomeInFolder
    Versions = {plan1, plan2}
    FileOf <- OwnerOfVersion
    Initial = {plan1}
    Uploads = {}
    Timed = {plan}
    Lanes = {w1, w2}
    Broken = {}
    BatchSize = 2
    MaxBatches = 2
SYMMETRY LaneSymmetry
INVARIANTS RetainedContentStored NoOrphanedObject CallsSettleTruly
INVARIANT SelfDestructSkipsBin
PROPERTIES BatchesMoveTogether OnlyHolderEndsClaim
\* Ids are finite: the system stops when they are used up.
CHECK_DEADLOCK FALSE
