SPECIFICATION Spec
CONSTANTS
    NoCore = NoCore
    Core <- TwoCores
    Cluster = {1}
    cluster_of <- OneCluster
    leader_core <- CoreZeroLeads
    receiver_core <- NoReceiver
    exit_core = 1
    logging = FALSE
    rt_throttling = TRUE
INVARIANTS
    ThrottlingDisabled
CHECK_DEADLOCK FALSE
