SPECIFICATION Spec
CONSTANTS
    LCAs = 3
    CacheLines = 2
    WaySizes = {0, 1}
    LineCounts = {1, 2}
    ParallelIO = 2
    ReadCaching = {FALSE, TRUE}
    WriteCaching = {FALSE, TRUE}
    ReadPrefetch = {TRUE}
    EvictAll = {FALSE}
    PrefetchAll = {FALSE}
INVARIANTS
    Indexed
    NeverCorrupted
    WritesKept
CHECK_DEADLOCK FALSE
