SPECIFICATION Spec
CONSTANTS
    short = short
    long = long
    Data = {short, long}
    PayLen <- MCPayLen
    SegCells = 6
    GrowCells = 3
    FsyncCoversEntry = TRUE
    DamageKinds = {}
    MaxSegments = 2
    MaxAppends = 2
    MaxCrashes = 1
    MaxFailures = 0
INVARIANT
    TornFrameIsCut
