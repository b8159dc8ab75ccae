SPECIFICATION StoresSpec
CONSTANTS
    Thread = {t1, t2, t3}
    Maintenance = t3
    Burst = 2
    Hash <- MCHash
    Number <- MCNumber
    Parent <- MCParent
    Targets = {0}
    MaxEpoch = 1
    NULL = NULL
    MaxHeight = 3
    MaxForks = 1
    MaxReorgHeight = 3
    StartHeight = 2
    LogBlocks = {}
    PoolKinds = {"v3", "v4"}
    SwapBlocks <- MCSwapBlocks
    ShapeBlocks <- MCShapeBlocks
    CatchUp = 2
    SeedDistance = 1
    ScanChunk = 2
    KeptBlocks = 1
    HeadLag = 0
    Failing = TRUE
INVARIANTS
    MutualExclusion
    NoLostWakeup
    BoundedOvertaking
    Grounded
    CoverageAnchored
    CurveExact
    
PROPERTY EveryWriterServed
CHECK_DEADLOCK FALSE
