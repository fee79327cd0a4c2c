SPECIFICATION Spec
CONSTANTS
    Requests = {r1, r2}
    Posts <- MCPosts
    Network <- MCNetwork
    n1 = n1
    n2 = n2
    t1 = t1
    t2 = t2
    r1 = r1
    r2 = r2
    Rankings <- MCTwoRankings
    Blockable = {}
    Limits = {2}
    Reloads = {TRUE, FALSE}
    Cap = 2
    Disruptions = {"get", "set", "poolExpires", "seenExpires", "cancel", "statuses", "gone"}
    MaxDisruptions = 1
SYMMETRY RequestSymmetry
INVARIANTS
    TypeOK
    NoRepeat
    SeenWasDelivered
    EmptyOnlyIfExhausted
