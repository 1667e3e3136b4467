SPECIFICATION Spec
CONSTANTS
    Slots = {0, 1}
    Requests = {1, 2, 3}
    Workloads <- MCWorkloads
    MaxRequest = 2
    MaxStops = 1
    MaxUIC = 1
    Chunks = {0, 1, 2}
    PagesInChunk = 2
    WriteSize = 2
    ResultBits = 2
INVARIANTS
    Accounted
    Awake
PROPERTIES
    ImplementsService
