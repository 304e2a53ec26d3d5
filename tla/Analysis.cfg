SPECIFICATION AnalysisSpec
CONSTANTS
    Shapes <- MCShapes
    Keys <- MCKeys
    Loaded <- MCLoaded
    TokenAccounts <- MCTokenAccounts
    Lamports <- MCHolding
    Tokens <- MCTokens
    Fee = 1
    IdlNames <- MCIdlNames
    LogNames <- MCLogNames
    Monitored <- MCMonitored
    Watched <- MCWatched
    Threshold = 5
INVARIANTS
    LegsExplainBalances
    LargeTransfersAreReal
    AuthorityIsAgreedOn
    CategoryMatchesTheBalances
CHECK_DEADLOCK FALSE
