SPECIFICATION Spec
CONSTANTS
    Devices <- MCDevices
    Timing <- MCTiming
    ChClasses = {1, 2, 4}
    DieClasses = {5, 9}
    FlushPeriod = 3
    FlushRange = 1
    MaxAhead = 1
INVARIANTS
    Exclusive
    Served
    Partitioned
    FlushHarmless
CHECK_DEADLOCK FALSE
