SPECIFICATION FairSpec
CONSTANTS
    Rows <- MCRows
    Accounts <- MCAccounts
    Texts <- MCTexts
    BatchSize = 2
    TeiBatch = 1
    ReplayAll = FALSE
    WindowStarts <- MCWindows
    Disruptions = {"late", "crash", "stop", "fresh", "poll", "tei", "load", "upsert", "save"}
    MaxDisruptions = 1
    NoCursor = NoCursor
INVARIANTS
    TypeOK
    NoLoss
    CursorAtRow
    AtMostOnce
    FoldOrder
PROPERTIES
    EventuallyFolded
