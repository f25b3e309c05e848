SPECIFICATION FairSpec
CONSTANTS
    None = None
    Ways = 1
    NSets = 1
    Words = {0}
    Values = {0, 1}
    Tags = {0}
    Workloads <- MCWorkloads
INVARIANTS ServedByPort 
PROPERTY RequestAnswered
