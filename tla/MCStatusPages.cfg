SPECIFICATION FairSpec
CONSTANTS
    Copies = {"a1", "a2", "a3", "b1", "x1", "n1"}
    PostOf <- SomeCopies
    Natives = {"n1"}
    Seeds <- SomeSeeds
    MaxId = 12
    MaxChanges = 2
    NoRow = NoRow
    Rankings <- SomeRankings
    Uriless = {}
    Anonymous = {"x1"}
    Above <- SomeAbove
    CachedAbove <- SomeCached
    ReplyPages <- SomePages
    Cursorless = {"a2"}
    Asked = {"a1", "a2"}
    Limit = 2
    MaxPages = 2
    Disruptions = {"db", "forward", "provider"}
    MaxDisruptions = 1
INVARIANTS
    TypeOK
    PageFollowsRanking
    SnowflakeKept
    ContextWhole
    FavouriteShown
PROPERTIES
    HandlesKept
    ScrollEnds
