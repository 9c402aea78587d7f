CONSTANTS
    k1 = k1
    w1 = w1
    w2 = w2
    s1 = s1
    s2 = s2
    Keys = {k1}
    Replicas = {0, 1}
    Workers = {w1, w2}
    WorkerOf <- OneWorkerPerReplica
    Servers = {s1, s2}
    Configs <- MCConfigs
    Puts = {p1, p2}
    Gets = {g1}
    Fakes = {f1}
    UpdateCacheEnabled = TRUE
    NoVal = NoVal
    InitVal = InitVal
SPECIFICATION FairSpec
INVARIANTS AnsweredIsStored
PROPERTIES Atomic KvNeverGoesBack EveryRequestAnswered
CHECK_DEADLOCK FALSE
