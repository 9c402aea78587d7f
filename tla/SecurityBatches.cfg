CONSTANTS
    BatchSize = 3
    UnknownKeys = TRUE
    MaxRpc = 2
    MaxOps = 5
SPECIFICATION Spec
CHECK_DEADLOCK FALSE
INVARIANTS FifoOnce NobodyWaits OnlyItsOwnRpc
