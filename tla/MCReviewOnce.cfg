SPECIFICATION Spec
CONSTANTS
    Messages <- SnapAndBar
    Rids <- OneRid
    Intent <- OneIntent
    Symbols <- SymbolSet
    TradingSymbols <- TradingSet
    Ttl <- TtlByKind
    CacheSize = 8
    MaxBars = 2
    RequireText = FALSE
    RequireMacro = FALSE
    MaxTime = 1
    ClockStepsBack = FALSE
    RouteMsgs <- ReusedOne
    Handlers = {h1, h2}
    Modes <- NormalOnly
    TextScore <- ScoreByText
    BuildMayFail = TRUE
    MaxRestarts = 1
SYMMETRY HandlerSymmetry
INVARIANTS
    EvidenceCutFrozen
    SecondCallOnlyIfOpposed
    OneReviewPerRoute
    AckedOnlyAfterReview
PROPERTIES
    MeetsContract
CHECK_DEADLOCK FALSE
