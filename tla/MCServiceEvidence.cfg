SPECIFICATION Spec
CONSTANTS
    SnapshotMsgs <- OneSnap
    SentimentMsgs <- SignalsAround
    DecisionMsgs <- Conflicting
    SystemModes <- AllModes
    Answers <- SomeAnswers
    Symbols <- SymbolSet
    TradingSymbols <- TradingSet
    ProcessedSize = 8
    SnapshotSize = 8
    MaxTime = 1
    MaxRestarts = 0
    DecisionTtl = 1
    SnapshotTtl = 2
    SentimentTtl = 2
    MaxSkew = 1
    MaxWindow = 5
    MinConfidence = 25
    Deadband = 25
    MinEntryConfidence = 60
INVARIANTS
    CommandsGrounded
    NoMixedSentiment
    CommandsCoherent
CHECK_DEADLOCK FALSE
