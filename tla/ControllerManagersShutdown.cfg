CONSTANTS
    Keys = {k1}
    MaxControllers = 2
    Backends <- EvictingBackends
SPECIFICATION Spec
INVARIANT ShutdownStopsThreads
CHECK_DEADLOCK FALSE
