CONSTANTS
    Keys = {k1, k2}
    MaxControllers = 2
    Backends <- KeepingBackends
SPECIFICATION Spec
INVARIANTS
    TypeOK
    WorkersReachable
    ShutdownStopsThreads
    TwoWorkersOnlyInHandover
    NothingLeftBehind
PROPERTIES
    CallsReturn
CHECK_DEADLOCK FALSE
