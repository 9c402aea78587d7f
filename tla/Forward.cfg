CONSTANTS
    d1 = d1
    d2 = d2
    any = any
    Any = any
    Routes <- MCRoutes
    BatchSize = 2
    MaxCommands = 2
    Receivers = {d1, d2}
    SenderFails = TRUE
    ReceiverFails = TRUE
    QuietRepair = TRUE
SPECIFICATION FairSpec
CHECK_DEADLOCK FALSE
INVARIANTS AtMostOnce BatchAckedIsDurable SettledDelivered
PROPERTY EveryBatchAcked
