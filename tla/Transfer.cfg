SPECIFICATION Spec
CONSTANTS
    Unit = 2
    Capacity = 4
    Rate = 2
    PageSize = 4
    EntriesPerPage = 2
    MaxTransfers = 2
    Delays = {1, 3}
    Jobs <- MCJobs
INVARIANTS
    DataMoved
    FifoAccounts
PROPERTIES
    TransfersEnd
