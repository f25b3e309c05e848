SPECIFICATION FairDataSpec
CONSTANTS
    None = None
    Depth = 3
    Data <- MCData
    Levels = 2
    NDigits = 3
    NTlb = 2
    Root <- MCRoot
    Values = {0, 1}
    MaxRemaps = 1
    Workloads <- MCWorkloads
INVARIANTS CompletesInOrder FlushInOrder StoresArrive
PROPERTIES OperationCompletes IsFifo

CHECK_DEADLOCK TRUE
