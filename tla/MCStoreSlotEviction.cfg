SPECIFICATION StoreSpec
CONSTANTS
    Messages <- BarDeliveries
    Rids <- OneRoute
    Intent <- OneIntent
    Symbols <- SymbolSet
    TradingSymbols <- TradingSet
    Ttl <- TtlByKind
    CacheSize = 3
    MaxBars = 2
    RequireText = FALSE
    RequireMacro = FALSE
    MaxTime = 3
    ClockStepsBack = FALSE
INVARIANTS
    RetainedBarsAgree
CHECK_DEADLOCK FALSE
