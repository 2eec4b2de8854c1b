SPECIFICATION DeadlineSpec
CONSTANTS
    Size = 3
    MaxBytes = 6
    MaxCalls = 2
INVARIANTS DeadlineTypeOK BuffersReleased
PROPERTIES SingleStepReturns
CHECK_DEADLOCK FALSE
