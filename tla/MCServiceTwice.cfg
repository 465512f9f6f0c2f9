SPECIFICATION Spec
CONSTANTS
    SnapshotMsgs <- OneSnap
    SentimentMsgs <- OneSignal
    DecisionMsgs <- Plain
    SystemModes <- Normal
    Answers <- SomeAnswers
    Symbols <- SymbolSet
    TradingSymbols <- TradingSet
    ProcessedSize = 8
    SnapshotSize = 8
    MaxTime = 0
    MaxRestarts = 0
    DecisionTtl = 1
    SnapshotTtl = 2
    SentimentTtl = 2
    MaxSkew = 0
    MaxWindow = 5
    MinConfidence = 25
    Deadband = 25
    MinEntryConfidence = 60
INVARIANTS
    ModelCalledOnce
CHECK_DEADLOCK FALSE
