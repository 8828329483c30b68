CONSTANTS
    None = None
    ZeroAddress = 0
    Addrs = {1, 2, 3}
    Senders = {1, 2}
    Proposer = 2
    Holders <- MCHolders
    Amounts = {0, 1}
    Gases = {1, 3}
    CreateAddress <- MCCreateAddress
    GasLimit = 5
    IntrinsicGas = 2
    MaxTxs = 3
    MaxOps = 3
    MaxDepth = 3
    MaxHeight = 2
SPECIFICATION Spec
INVARIANTS
    MoneyKept
    AccessedAreListed
    CallSeesCommitted
PROPERTIES
    FailedLeavesNothing
    NoncesGrow
CHECK_DEADLOCK FALSE
