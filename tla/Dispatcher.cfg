SPECIFICATION Spec
CONSTANTS
    DEFAULT_TIMEOUTS = 1
    MAX_TIMEOUTS = 9
    Delays = {0, 2}
    Interval = 1
    MaxSeq = 3
    MaxTime = 3
INVARIANTS
    TypeOK
    BoundedLateness
    CancelHolds
PROPERTIES
    EveryTimerRuns
    ExitEnds
CHECK_DEADLOCK FALSE
