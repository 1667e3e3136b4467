SPECIFICATION Spec
CONSTANTS
    CoreCounts = {0, 1, 2}
    JobLatency = 1
    Latencies = {1, 3}
    Requests = {0, 1, 2, 3, 4, 5, 6, 7, 8}
    SubmissionLatency = 1
    CompletionLatency = 1
    IOSize = 7
    IODepth = 3
    Offset = 2
    Size = 5
    BlockSize = 2
    BlockAlign = 2
    Runtime = 5
    Width = 4
    TraceLines = 4
    MaxIOs = {0, 3}
    MaxQueueDepth = 2
    Generators = {"request", "trace"}
    Random = {FALSE}
    TimeBased = {FALSE, TRUE}
    Timing = {"sync", "async", "strict"}
    TraceGap = 2
INVARIANTS
    CompletionArmed
    Accounts
PROPERTIES
    NoLateIO
    RunEnds
