SPECIFICATION FairSpec
CONSTANTS
    NoCore = NoCore
    Core <- TwoCores
    Cluster = {1}
    cluster_of <- OneCluster
    leader_core <- CoreZeroLeads
    receiver_core <- ReceiverOnCoreOne
    exit_core = 0
    logging = TRUE
    rt_throttling = TRUE
INVARIANTS
    TypeOK
    NoCallbackAfterStop
    NothingOutlivesCoreInfo
    LogsWrittenBeforeClose
PROPERTY
    UnloadEnds
CHECK_DEADLOCK FALSE
