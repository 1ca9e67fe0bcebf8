INIT HInit
NEXT HandlerNext
CONSTANTS
    Unset = Unset
    NoNumber = NoNumber
    Tokens <- HTokens
    Meta <- HMeta
    NumberOf <- HNumberOf
    RankScore <- HRankScore
INVARIANT FilterHolds
CHECK_DEADLOCK FALSE
