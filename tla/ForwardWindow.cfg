CONSTANTS
    d1 = d1
    d2 = d2
    any = any
    Any = any
    Routes <- MCRoutes
    BatchSize = 2
    MaxCommands = 2
    Receivers = {d1, d2}
    SenderFails = TRUE
    ReceiverFails = FALSE
    QuietRepair = FALSE
SPECIFICATION Spec
CHECK_DEADLOCK FALSE
INVARIANT SettledDelivered
