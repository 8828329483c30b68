CONSTANTS
    None = None
    Addrs = {0, 1, 2, 3}
    ZeroAddress = 0
    Proposer = 2
    Holders <- MCHolders
    Amounts = {2, 15}
    Payloads <- MCPayloads
    ChainIds = {"rigo", "other"}
    ChainId = "rigo"
    Nil = Nil
    Base = 4
    AmountLen = 2
    IntValues = 4
    Fee = 1
    Senders = {1, 3}
    Receivers = {2, 3}
    Nonces = {0, 1, 2}
    MaxChecks = 3
    MaxHeight = 4
SPECIFICATION Spec
INVARIANTS
    SupplyKept
    NoReplay
    NeverPanics
    CarriedOutAsSigned
    SignaturesSurvive
CHECK_DEADLOCK FALSE
