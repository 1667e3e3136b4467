SPECIFICATION FTLSpec
CONSTANTS
    TotalBlocks = 4
    LogicalBlocks = 1
    PagesInBlock = 2
    IoUnitInPage = 2
    PageCountToMaxPerf = 1
    RandomTweak = TRUE
    BadBlockThreshold = 2
    StopAtFirstDeath = FALSE
    GCThresholdPct = 50
    NWorn = 1
    PreEC = 1
    FillingMode = 0
    NPagesToWarmup = 1
    NPagesToInvalidate = 0
    HostOps = {"write", "partial", "trim"}
    GCMode = 0
    GCReclaimBlocks = 1
    GCReclaimPct = 75
    EvictPolicy = "random"
    DChoiceParam = 2
    MappingModes = {0}
    WLLambdaPct = 100
    LAAlphaPct = 50
INVARIANTS
    TypeOK
    MappingConsistent
    WritePointers
    BlocksPartitioned
PROPERTIES
    ImplementsDevice
