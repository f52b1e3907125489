SPECIFICATION DurableSpec

CONSTANTS
    short = short
    long = long
    Data = {short, long}
    PayLen <- MCPayLen
    SegCells = 6
    GrowCells = 3
    FsyncCoversEntry = TRUE
    DamageKinds = {"junk"}
    MaxSegments = 2
    MaxAppends = 6
    MaxCrashes = 2
    MaxFailures = 2

    DocIds = {"d1", "d2"}
    Texts = {"t1", "u1", "t2"}
    ChunkCount <- MCChunkCount
    DocWriters = {"w1", "w2"}
    Batches <- MCBatches
    Images <- MCImages
    NoDoc = NoDoc
    MaxCommits = 2
    MaxReopens = 1
    MaxCompactions = 1

    VDocs = {"a", "b"}
    VBatches <- MCVBatches
    MaxStored = 2
    MaxBuilds = 2
    MaxStops = 2

    Writes = {"w1", "w2"}
    Old = "old"
    New = "new"
    Absent = Absent
    Undecided = Undecided
    FinishMayFailTwice = FALSE
    MaxRestores = 2
    MaxPowerLosses = 2

INVARIANTS
    LogIsAcknowledged
    SealedSegmentsIntact
    ReplayMatchesLive
    NoStaleVector
    PlansAreCurrent
    

PROPERTIES
    RecoversAcknowledged
    
    

CHECK_DEADLOCK FALSE
