CONSTANTS
    N = 3
    Ops = {a, b}
    HeadFailover = TRUE
    AckBatchSize = 1
    LossyClose = FALSE
    MaxFailures = 1
    MaxConns = 3
    MaxExtraAcks = 0
SPECIFICATION Spec
SYMMETRY CommandSymmetry
INVARIANTS SurvivorsAgree
CHECK_DEADLOCK FALSE
