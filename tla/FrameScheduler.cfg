SPECIFICATION FairSpec
CONSTANTS
    Shapes <- MCShapes
    LongestFrame = 3
    Places = {"a", "b"}
    MaxFrames = 4
    MaxDue = 1
    MaxLead = 1
    HoldTime = 2
    PointsPerTick = 2
    TransitionLen = 2
    LatencyPoints = 0
    Requests <- MCRequests
INVARIANTS
    TypeOK
PROPERTIES
    TransitionBetweenFrames
    FeedSpec
    EventuallyBlank
