SPECIFICATION Spec
CONSTANTS
    c1 = c1
    c2 = c2
    cl1 = cl1
    NoCore = NoCore
    Core = {c1, c2}
    Cluster = {cl1}
    cluster_of <- OneCluster
    leader_core <- FirstLeads
    gpu_core <- NoGpu
    cur_bandwidth_budget <- BudgetOfOne
    g_manage_period_interval = 1
    g_logging = FALSE
    LateTicks = 0
    LastTick = 4
    MaxUnread = 1
    GpuBursts = {}
INVARIANTS
    ResetOncePerPeriod
CHECK_DEADLOCK FALSE
