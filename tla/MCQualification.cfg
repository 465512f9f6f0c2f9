SPECIFICATION FairQualification
CONSTANTS
    Corpora <- CorpusSet
    Arguments <- ArgumentSet
    HardMaximum = 3
    Routed = 6
    Window = 4
    StaleBy = 5
    Harness = h1
    Handlers = {h1}
    Writers <- TwoWriters
    Overwriters <- OtherOnly
    Messages <- MessageSet
    Rids <- RidSet
    Intent <- IntentById
    Symbols <- SymbolSet
    TradingSymbols <- TradingSet
    Ttl <- TtlByKind
    CacheSize = 8
    MaxBars = 2
    RequireText = TRUE
    RequireMacro = TRUE
    MaxTime = 11
    ClockStepsBack = FALSE
    RouteMsgs <- RouteSet
    Modes <- NormalOnly
    TextScore <- ScoreByText
    BuildMayFail = FALSE
    MaxRestarts = 0
INVARIANTS
    QualificationTypeOK
    FaultFailsClosed
    CompleteCasesAskOnce
    LegacyNeverDispatches
    
PROPERTIES
    ReportsRemainAtomic
    QualificationEnds
CHECK_DEADLOCK FALSE
