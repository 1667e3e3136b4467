SPECIFICATION FairSpec
CONSTANTS
    TotalBlocks = 4
    LogicalBlocks = 1
    PagesInBlock = 3
    IoUnitInPage = 2
    PageCountToMaxPerf = 1
    RandomTweak = FALSE
    BadBlockThreshold = 3
    StopAtFirstDeath = FALSE
    GCThresholdPct = 50
    NWorn = 0
    PreEC = 1
    FillingMode = 0
    NPagesToWarmup = 1
    NPagesToInvalidate = 0
    HostOps = {"write", "trim"}
    GCMode = 1
    GCReclaimBlocks = 1
    GCReclaimPct = 75
    EvictPolicy = "greedy"
    DChoiceParam = 2
    MappingModes = {0, 1}
    WLLambdaPct = 100
    LAAlphaPct = 50
INVARIANTS
    WearInvariant
    NoPanic
PROPERTIES
    LeastWornOpened
    CollectionEnds
