CONSTANTS
    l1 = l1
    l2 = l2
    NumCores = 1
    NumServers = 2
    Labels = {l1, l2}
    MaxRequests = 2
    BatchSize = 2
    ServerFails = TRUE
SPECIFICATION Spec
CHECK_DEADLOCK FALSE
INVARIANT AckedBatchStored
