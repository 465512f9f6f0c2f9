SPECIFICATION FairSpec
CONSTANTS
    SnapshotMsgs <- ReusedSnaps
    SentimentMsgs <- TwoSignals
    DecisionMsgs <- Cites
    SystemModes <- Normal
    Answers <- NoAnswers
    Symbols <- SymbolSet
    TradingSymbols <- TradingSet
    ProcessedSize = 1
    SnapshotSize = 1
    MaxTime = 1
    MaxRestarts = 1
    DecisionTtl = 0
    SnapshotTtl = 2
    SentimentTtl = 2
    MaxSkew = 0
    MaxWindow = 5
    MinConfidence = 25
    Deadband = 25
    MinEntryConfidence = 60
INVARIANTS
    TypeOK
    HeldEvidenceIsKnown
    AckedOnlyAfterCommand
    AnswersBoundedByTasks
PROPERTIES
    SnapshotIdentityFixed
    DecisionsSettle
CHECK_DEADLOCK FALSE
