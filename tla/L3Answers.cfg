CONSTANTS
    l1 = l1
    l2 = l2
    NumCores = 1
    NumServers = 2
    Labels = {l1}
    MaxRequests = 2
    BatchSize = 1
    ServerFails = TRUE
SPECIFICATION FairSpec
CHECK_DEADLOCK FALSE
PROPERTY EveryClientAnswered
