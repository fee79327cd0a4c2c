SPECIFICATION Spec
CONSTANTS
    Uris <- MCUris
    Authors <- MCAuthors
    Groups <- MCGroups
    Pipelines <- MCPipelines
    PriorityOf <- MCPriority
    Banned <- MCBanned
    Penalty = 15
    NoGroup = NoGroup
INVARIANTS
    TypeOK
    PreferredCopy
    QuotaKept
    BestFirst
CHECK_DEADLOCK FALSE
