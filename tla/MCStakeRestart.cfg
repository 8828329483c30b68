CONSTANTS
    None = None
    Addrs = {1, 2, 3}
    Genesis <- MCTwoValidators
    Wealth = 2
    MaxValidatorCnt = 2
    MinValidatorPower = 2
    MinDelegatorPower = 1
    MinSelfStakeRatio = 50
    LazyRewardBlocks = 2
    RewardPerPower = 1
    SlashRatio = 50
    SignedBlocksWindow = 2
    MinSignedBlocks = 1
    Amounts = {2}
    MaxHeight = 6
    FirstTxHeight = 2
    MaxTxs = 2
    MaxEvidence = 1
    MaxMissed = 2
SPECIFICATION RestartSpec
INVARIANT EngineFollows
CHECK_DEADLOCK FALSE
