SPECIFICATION FairSpec
CONSTANTS
    Devices <- MCDevices
    Uninitialized <- MCUninitialized
    CounterLists <- MCCounterLists
    Amounts <- MCAmounts
    MaxStops = 2
    BUFFERS = 2
    WORD = 16
    Cells <- MCCells
    Ahead <- MCAhead
    MaxDumps = 3
    MaxTime = 2
    CAPACITY = 2
    US_PER_SEC = 60
    BYTES_PER_MB = 32
    CACHE_LINE_SIZE = 2
    BEAT_SIZE = 1
    INT_MODULUS = 16
INVARIANTS
    SamplerTypeOK
    ConstantsAreReported
    SetUpOnOpenDevice
    SlicesReadOnce
    BeatsConfigured
    UnreadAreStops
    OneSession
    ValueIsTraffic
    ChargeIsTraffic
    SurvivesSampling
PROPERTIES
    StartUpEnds
CHECK_DEADLOCK FALSE
