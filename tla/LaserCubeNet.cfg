SPECIFICATION Spec
CONSTANTS
    Slots = 2
    Capacity = 2
    Packet = 1
    Latency = 1000
    Rates <- MCRates
    DefaultRate = 1
    MaxRate = 2
    StallAge = 1
    CleanAge = 2
    LoopTime = 1
    MaxPolls = 1
    MaxFaults = 1
    MaxChanges = 2
INVARIANTS TypeOK AssumedRateWasTold
PROPERTIES Reconnects SilenceNoticed
