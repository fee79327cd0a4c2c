SPECIFICATION Spec
CONSTANTS
    Rows <- MCRows
    Accounts <- MCAccounts
    Texts <- MCTexts
    BatchSize = 2
    TeiBatch = 1
    ReplayAll = FALSE
    WindowStarts <- MCWindows
    Disruptions = {"tei"}
    MaxDisruptions = 1
    NoCursor = NoCursor
PROPERTIES
    FailedStayAhead
