SPECIFICATION FairSpec
CONSTANTS
    None = None
    Ways = 2
    NSets = 1
    CoherenceEna = FALSE
    Words = {0}
    Values = {0, 1}
    Tags = {0, 1, 2, 3, 4, 5}
    Uncached = {3}
    NoAccess = {4}
    Faulty = {5}
    Workloads <- MCWorkloads
INVARIANTS
    LoadReturnsLastStore
    CleanMatchesMemory
    FlushedToMemory
    ReleaseNeedsReserve
    WriteDataStable
PROPERTIES
    RequestAnswered
