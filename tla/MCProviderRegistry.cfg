SPECIFICATION FairSpec
CONSTANTS
    Shells = {s1}
    Handlers = {h1, h2}
    Capabilities <- MCOneCapability
    Routes = {home}
    Answers = {"pending", "approved"}
    MaxKeys = 2
    Disruptions = {"abort", "answer", "again", "revoke"}
    MaxDisruptions = 2
    Null = Null
INVARIANTS
    TypeOK
    StatusNeedsKey
    ApprovalOfKey
PROPERTIES
    StatusConverges
