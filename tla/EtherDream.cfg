SPECIFICATION Spec
CONSTANTS
    Capacity = 4
    Floor = 1
    Headroom = 1
    WriteHeadroom = 1
    MaxPacket = 2
    RefillMin = 2
    UnderrunLevel = 1
    Rates <- MCRates
    Latencies <- MCLatencies
    DefaultRate = 2000
    DefaultLatency = 2
    MaxFaults = 1
    MaxChanges = 1
INVARIANTS TypeOK AnswersNotMistaken ShutdownStopsPlayback
PROPERTIES RestartIsBlanked StopTerminates 
CHECK_DEADLOCK FALSE
