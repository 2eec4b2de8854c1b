SPECIFICATION FairSpec
CONSTANTS
    Callbacks = {c1, c2}
    NoCallback = none
    Requests <- MCRequests
    TransportLevels = {0, 2}
    LatencyPoints = 2
    MaxQueue = 1
    MaxConsumed = 4
INVARIANTS
    TypeOK
    SourceExclusive
    StalePointsFirst
    StreamConserved
PROPERTIES
    SwitchReturns
