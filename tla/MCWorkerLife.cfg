CONSTANTS
    l1 = l1
    l2 = l2
    s1 = s1
    s2 = s2
    Loops <- MCLoops
    Sockets <- MCSockets
    MaxHandlers = 1
    MaxSignals = 2
SPECIFICATION Spec
INVARIANTS
    LoopsNeverOverlap
    OneSocketOneHeartbeat
PROPERTIES
    BackoffDoubles
    NothingStartsAfterStop
    WorkerKeepsGoing
    StopEnds
CHECK_DEADLOCK FALSE
