SPECIFICATION LiveSpec
CONSTANTS
    Ways = 2
    NSets = 1
    NTags = 3
    NWords = 4
    Values <- MCValues
    None = None
    NoPc = NoPc
    Buffer = Buffer
    MaxChanges = 1
    Workloads <- MCWorkloads
INVARIANT FetchReturnsCode
PROPERTIES FlushEmpties KeepsFetching BufferExecuted
