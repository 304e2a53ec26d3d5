\* Programs call one another; the log may be truncated.
SPECIFICATION NamesSpec
CONSTANTS
    Programs = {"amm", "token", "system"}
    Native = {"system"}
    Names = {"swap", "close"}
    Acts <- SomeActs
    Messages <- PlainMessages
    OwnUnits <- Units
    MaxDepth = 2
    MaxExtra = 1
    MayTruncate = TRUE
    NoName = NoName
    Idl <- SwapOnly
    LookedUp = {}
    Codes = {1}
    ErrorTables <- AllErrors
    NoError = NoError
INVARIANTS
    CompleteIsExact
    VerifiedIsExact
    AlignedNamesAreOwn
    ErrorNamesTheRaiser
CHECK_DEADLOCK FALSE
