SPECIFICATION TrendFairSpec
CONSTANTS
    Clients = {c1}
    Providers = {"p", "q"}
    Filtering = {"p"}
    MaxResults <- FewResults
    PoolSize = 3
    Languages = {"de", "en"}
    Speaks <- SomeSpeak
    Offers <- TwoOffers
    PageLimit = 1
    MaxJobs = 2
    MaxChanges = 1
    Disruptions = {"db", "provider", "redis"}
    MaxDisruptions = 1
    Nothing = Nothing
INVARIANTS
    TrendTypeOK
    ScrollExact
PROPERTIES
    Heals
