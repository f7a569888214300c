SPECIFICATION LoadSpec
CONSTANTS
    min_cpu = 0
    max_cpu = 3
    Online <- ThreeOfCl1
    KTIME_MAX = 3
    US_PER_SEC = 60
    BYTES_PER_MB = 32
    CACHE_LINE_SIZE = 2
    BEAT_SIZE = 1
    INT_MODULUS = 512
    Parameters <- InsmodLines
    NUMBER_OF_CORES = 8
    FirstOfCl2 = 4
    OnlineCores <- FourOfEight
    MayTerminate = {"cl2"}
INVARIANTS
    LoadTypeOK
    LeaderElected
    LoadedIsComplete
    ProfiledClusterServed
    FailedLoadLeaves
    PointerSurvivesOnlyEarlyExit
    IntervalCoversPeriod
    BudgetConfigured
PROPERTIES
    ElectionStartsFresh
CHECK_DEADLOCK FALSE
