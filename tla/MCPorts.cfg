SPECIFICATION PortsSpec
CONSTANTS
    Ways = 2
    NSets = 2
    Tags = {0, 1, 2, 3, 4}
    Words = {0}
    Values = {0, 1}
    None = None
    Slots = {0, 1}
    Uncached = {4}
    Faulty = {3}
    Workloads <- MCWorkloads
    Depth = 4
    TopAddrs = {1, 2}
    TopValues = {7, 8}
INVARIANTS L2ReadsNewest L2HoldsNewest L2FlushedToMemory AnswerReachesRequester
PROPERTIES L2RequestAnswered CachesAnswered
