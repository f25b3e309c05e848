SPECIFICATION FairSpec
CONSTANTS
    None = None
    NTags = 4
    Regs = {0, 1, 2}
    Values = {0, 1, 2, 3}
    QDepth = 2
    MaxOver = 2
    Workloads <- MCWorkloads
INVARIANTS SettlesToLast
PROPERTIES OperandsInOrder AmoStores NeverStuck
CHECK_DEADLOCK TRUE
