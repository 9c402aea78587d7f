CONSTANTS
    N = 3
    Ops = {a, b}
    HeadFailover = TRUE
    AckBatchSize = 2
    LossyClose = TRUE
    MaxFailures = 2
    MaxConns = 4
    MaxExtraAcks = 1
SPECIFICATION FairSpec
INVARIANTS TypeOK ChainInv LogOrder PendingCovers AckedIsDurable SettledAgree
PROPERTIES Replicates AcksReturn
CHECK_DEADLOCK FALSE
