SPECIFICATION FairSpec
CONSTANTS
    Requests = {r1}
    Posts <- MCPosts
    Network <- MCNetwork
    n1 = n1
    n2 = n2
    t1 = t1
    t2 = t2
    r1 = r1
    r2 = r2
    Rankings <- MCSteadyRankings
    Blockable = {t1}
    Limits = {2}
    Reloads = {FALSE}
    Cap = 4
    Disruptions = {"policy", "get", "set", "poolExpires", "seenExpires", "cancel"}
    MaxDisruptions = 2
PROPERTIES
    BlocksLast
    EventuallyShown
