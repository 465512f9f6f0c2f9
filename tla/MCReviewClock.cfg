SPECIFICATION Spec
CONSTANTS
    Messages <- SnapAndBar
    Rids <- OneRid
    Intent <- LateIntent
    Symbols <- SymbolSet
    TradingSymbols <- TradingSet
    Ttl <- TtlByKind
    CacheSize = 8
    MaxBars = 2
    RequireText = FALSE
    RequireMacro = FALSE
    MaxTime = 3
    ClockStepsBack = TRUE
    RouteMsgs <- OneMsg
    Handlers = {h1}
    Modes <- ConflictModes
    TextScore <- ScoreByText
    BuildMayFail = FALSE
    MaxRestarts = 0
INVARIANTS
    TypeOK
    ReviewsGrounded
    ReviewInWindow
CHECK_DEADLOCK FALSE
