SPECIFICATION FairSpec
CONSTANT
    MaxTicks = 3
INVARIANTS
    TypeOK
    NoPointerToDeadProfiler
PROPERTIES
    ChargedOnce
    WrittenIsCharged
    TerminatedExits
CHECK_DEADLOCK FALSE
