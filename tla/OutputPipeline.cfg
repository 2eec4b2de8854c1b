SPECIFICATION Spec
CONSTANTS
    Positions = {p}
    Centre = centre
    Content <- MCContent
    MaxBatch = 2
    SyncTimes <- MCSyncTimes
    Rates <- MCRates
    MaxRate = 2
    MaxSync = 1
INVARIANTS
    TypeOK
    DisarmLeakBounded
    HoldThenCentre
    StartupBlanked
