SPECIFICATION Spec
CONSTANTS
    c1 = c1
    c2 = c2
    cl1 = cl1
    NoCore = NoCore
    Core = {c1, c2}
    Cluster = {cl1}
    cluster_of <- OneCluster
    leader_core <- FirstLeads
    gpu_core <- GpuOnSecond
    cur_bandwidth_budget <- BudgetOfOne
    g_manage_period_interval = 2
    g_logging = TRUE
    LateTicks = 0
    LastTick = 4
    MaxUnread = 1
    GpuBursts = {0, 2}
INVARIANT
    OverBudgetNoticed
CHECK_DEADLOCK FALSE
