SPECIFICATION FairSpec
CONSTANTS
    Messages <- NoMessages
    Rids <- ThreeRids
    Intent <- ThreeIntents
    Symbols <- SymbolSet
    TradingSymbols <- TradingSet
    Ttl <- TtlByKind
    CacheSize = 2
    MaxBars = 2
    RequireText = FALSE
    RequireMacro = FALSE
    MaxTime = 0
    ClockStepsBack = FALSE
    RouteMsgs <- ThreeMsgs
    Handlers = {h1}
    Modes <- NormalOnly
    TextScore <- ScoreByText
    BuildMayFail = FALSE
    MaxRestarts = 0
PROPERTIES
    EveryRouteSettles
CHECK_DEADLOCK FALSE
