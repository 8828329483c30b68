CONSTANTS
    None = None
    Powers <- MCPowers
    Fields = {"gas", "stake"}
    Ballots <- MCBallots
    Unreadable <- MCUnreadable
    GenesisParams <- MCGenesis
    SlashRatio = 50
    VotingPeriods = {1}
    LazyApplyingBlocks = 1
    Delays = {0, 2}
    MaxProposals = 2
    MaxVotes = 2
    MaxEvidence = 2
    MaxHeight = 6
SPECIFICATION Spec
INVARIANTS
    TallyMatches
    AgreedByMajority
    ParamsInForce
    EachChangeKept
PROPERTIES
    FrozenAsVoted
    AppliedOnTime
CHECK_DEADLOCK FALSE
