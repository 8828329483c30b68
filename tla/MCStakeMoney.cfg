CONSTANTS
    None = None
    Addrs = {1, 2}
    Genesis <- MCOneValidator
    Wealth = 4
    MaxValidatorCnt = 2
    MinValidatorPower = 2
    MinDelegatorPower = 1
    MinSelfStakeRatio = 50
    LazyRewardBlocks = 2
    RewardPerPower = 1
    SlashRatio = 50
    SignedBlocksWindow = 2
    MinSignedBlocks = 1
    Amounts = {1, 2}
    MaxHeight = 5
    FirstTxHeight = 1
    MaxTxs = 3
    MaxEvidence = 1
    MaxMissed = 0
SPECIFICATION RestartSpec
INVARIANTS
    Conserved
    PowersAddUp
    NoneOverdue
PROPERTY RefundedWhenDue
CHECK_DEADLOCK FALSE
