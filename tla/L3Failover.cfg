CONSTANTS
    l1 = l1
    l2 = l2
    NumCores = 2
    NumServers = 3
    Labels = {l1}
    MaxRequests = 2
    BatchSize = 2
    ServerFails = TRUE
SPECIFICATION FairSpec
CHECK_DEADLOCK FALSE
INVARIANTS TypeOK ForgottenIsStored
PROPERTY EveryRequestStored
