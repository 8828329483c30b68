SPECIFICATION Spec
CONSTANTS
    Callers <- MCCallers
    Clients = 2
    MaxHeight = 2
    MaxTxs = 1
INVARIANT StopsBetweenBlocks
INVARIANT OnlyStopHalts
PROPERTY CallsReturn
