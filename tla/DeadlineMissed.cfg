SPECIFICATION DeadlineSpec
CONSTANTS
    Size = 3
    MaxBytes = 6
    MaxCalls = 2

PROPERTIES DeadlineKept
CHECK_DEADLOCK FALSE
