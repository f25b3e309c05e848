SPECIFICATION Spec
CONSTANTS
    None = None
    NTags = 8
    Regs = {0, 1, 2}
    Values = {0, 1, 2, 3, 4, 5, 6, 7}
    QDepth = 4
    MaxOver = 7
    Workloads <- MCOvertaking
INVARIANTS SettlesToLast
CHECK_DEADLOCK TRUE
