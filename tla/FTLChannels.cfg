SPECIFICATION FTLSpec
CONSTANTS
    TotalBlocks = 5
    LogicalBlocks = 2
    PagesInBlock = 1
    IoUnitInPage = 2
    PageCountToMaxPerf = 2
    RandomTweak = FALSE
    BadBlockThreshold = 2
    StopAtFirstDeath = FALSE
    GCThresholdPct = 20
    NWorn = 1
    PreEC = 1
    FillingMode = 1
    NPagesToWarmup = 1
    NPagesToInvalidate = 4
    HostOps = {"write", "trim", "format"}
    GCMode = 0
    GCReclaimBlocks = 1
    GCReclaimPct = 75
    EvictPolicy = "greedy"
    DChoiceParam = 2
    MappingModes = {0, 1, 2, 3}
    WLLambdaPct = 100
    LAAlphaPct = 50
INVARIANTS
    InitNeverCollects
PROPERTIES
    NoDominatedVictim
    ChannelKept
    OpensBelowEveryAverage
