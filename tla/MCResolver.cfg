SPECIFICATION FairSpec
CONSTANTS
    Callers = {c1, c2}
    MaxId = 2
    Disruptions = {"cancel", "db", "search", "forward", "deleted"}
    MaxDisruptions = 2
    NoRow = NoRow
    Unmapped = Unmapped
    Failed = Failed
INVARIANTS
    TypeOK
    NoPinnedFlight
PROPERTIES
    WaitersServed
    MappingHeals
