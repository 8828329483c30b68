CONSTANTS
    Addrs = {1, 2, 3, 4}
    InitialPower <- MCPower
    MaxValidatorCnt = 3
    IndividualLimitRatio = 60
    UpdatableLimitRatio = 33
    Changes <- MCChanges
    MaxHeight = 2
    MaxPower = 5
SPECIFICATION MempoolSpec
INVARIANT LimiterFollowsLedger
CHECK_DEADLOCK FALSE
