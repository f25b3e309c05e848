SPECIFICATION Spec
CONSTANTS
    NM = 2
    NS = 2
    Beats = 2
    Values = {0, 1}
    None = None
    Workloads <- MCWorkloads
INVARIANTS ReadsOwnLine RoutedToRequester
PROPERTY RequestAnswered
