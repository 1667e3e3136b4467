SPECIFICATION FTLSpec
CONSTANTS
    TotalBlocks = 4
    LogicalBlocks = 1
    PagesInBlock = 2
    IoUnitInPage = 1
    PageCountToMaxPerf = 1
    RandomTweak = TRUE
    BadBlockThreshold = 2
    StopAtFirstDeath = FALSE
    GCThresholdPct = 50
    NWorn = 0
    PreEC = 0
    FillingMode = 0
    NPagesToWarmup = 1
    NPagesToInvalidate = 0
    HostOps = {"write"}
    GCMode = 0
    GCReclaimBlocks = 1
    GCReclaimPct = 75
    EvictPolicy = "greedy"
    DChoiceParam = 2
    MappingModes = {0}
    WLLambdaPct = 100
    LAAlphaPct = 50
INVARIANTS
    CopiesOnlyValid
