SPECIFICATION Spec
CONSTANTS
    Banks = {0, 8}
    Rates = {1, 2}
    DefaultRate = 1
    MaxControllers = 3
    MaxFaults = 2
INVARIANTS TypeOK ConnectedIsStreaming OneLateBlock
