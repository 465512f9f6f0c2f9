SPECIFICATION FairSpec
CONSTANTS
    Messages <- ConflictMessages
    Rids <- OneRid
    Intent <- ConflictIntent
    Symbols <- SymbolSet
    TradingSymbols <- TradingSet
    Ttl <- TtlByKind
    CacheSize = 8
    MaxBars = 2
    RequireText = FALSE
    RequireMacro = FALSE
    MaxTime = 2
    ClockStepsBack = FALSE
    RouteMsgs <- OneMsg
    Handlers = {h1}
    Modes <- NormalOnly
    TextScore <- ScoreByText
    BuildMayFail = FALSE
    MaxRestarts = 0
INVARIANTS
    ReviewsGrounded
PROPERTIES
    NewReviewNotOverConflict
    MeetsContract
    EveryRouteSettles
CHECK_DEADLOCK FALSE
