SPECIFICATION AgentSpec
CONSTANTS
    s1 = s1
    s2 = s2
    NoBlob = NoBlob
    Foreign = Foreign
    Unparsable = Unparsable
    UnitsPerShare = 2
    NoContext = NoContext
    Failed = Failed
    MAX_RUNS = 1
    MAX_ACTIONS = 2
    MAX_TWEETS = 1
    MAX_ARTIFACTS = 1
    UnitsPerCoin = 2
    BorrowWeight = 2
    UsdcCoinType = "0x2::usdc"
    SuiCoinType = "0x2::sui"
    NaviPrecision = 2
    MaxLanded = 2
    MaxRuns = 3
    MaxPosts = 2
    Slots <- MCSlots
    Configs <- MCConfigs
PROPERTIES
    GuardRepaysLargestBorrow
SYMMETRY MCSymmetry
CHECK_DEADLOCK FALSE
