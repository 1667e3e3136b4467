SPECIFICATION Spec
CONSTANTS
    NQueues = 1
    MaxRequest = 2
    WRRHigh = 2
    WRRMedium = 2
    AggregationThreshold = 0
    TotalLogicalPages = 4
    LogicalPageSize = 2
    LBASizes <- MCLBASizes
    MaxQueueEntries = 8
    DefaultNamespaces = 1
    DefaultFormat = 1
    Word = 256
    QueueEntryAdmin = 7
    QueueEntryIO = 3
    MaxCommandID = 6
    IDSpace = 8
    Workload <- MCWorkload
    IODepth = 2
    Garbage = {5}
INVARIANTS
    Conserved
    PhaseAgrees
PROPERTIES
    ImplementsService
