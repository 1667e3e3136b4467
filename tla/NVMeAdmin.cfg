SPECIFICATION Spec
CONSTANTS
    NQueues = 2
    MaxRequest = 2
    WRRHigh = 2
    WRRMedium = 2
    AggregationThreshold = 1
    TotalLogicalPages = 4
    LogicalPageSize = 2
    LBASizes <- MCLBASizes
    MaxQueueEntries = 8
    DefaultNamespaces = 1
    DefaultFormat = 1
    Word = 256
    Priorities <- MCPriorities
    Weighted = TRUE
    QueueSize = 3
    Plans <- MCPlans
    Sizes = {2, 4}
    Quiescent = TRUE
PROPERTIES
    CollectsAll
INVARIANTS
    Conserved
    NamespacesDisjoint
