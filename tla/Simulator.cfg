SPECIFICATION SimSpec
CONSTANTS
    MaxEvents = 3
    MaxTick = 2
    MaxHandled = 2
INVARIANTS
    QueueInvariant
    BlockLayerOutlivesThread
PROPERTIES
    FirstComeFirstServed
    CleanupEnds
