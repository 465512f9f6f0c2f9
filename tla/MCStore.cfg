SPECIFICATION StoreSpec
CONSTANTS
    Messages <- Deliveries
    Rids <- OneRoute
    Intent <- OneIntent
    Symbols <- SymbolSet
    TradingSymbols <- TradingSet
    Ttl <- TtlByKind
    CacheSize = 2
    MaxBars = 2
    RequireText = FALSE
    RequireMacro = FALSE
    MaxTime = 2
    ClockStepsBack = TRUE
INVARIANTS
    StoreTypeOK
    EntriesMatchDigests
    LookupConfirmsBuild
    CutIsExact
    RetainedBarsAgree
PROPERTIES
    FirstReceiptWins
    CutIsStable
