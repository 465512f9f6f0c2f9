SPECIFICATION Spec
CONSTANTS
    Messages <- ConflictingSnap
    Rids <- OneRid
    Intent <- OneIntent
    Symbols <- SymbolSet
    TradingSymbols <- TradingSet
    Ttl <- TtlByKind
    CacheSize = 8
    MaxBars = 2
    RequireText = FALSE
    RequireMacro = FALSE
    MaxTime = 0
    ClockStepsBack = FALSE
    RouteMsgs <- OneMsg
    Handlers = {h1}
    Modes <- NormalOnly
    TextScore <- ScoreByText
    BuildMayFail = FALSE
    MaxRestarts = 0
PROPERTIES
    CachedReviewNotOverConflict
CHECK_DEADLOCK FALSE
