SPECIFICATION Spec
CONSTANTS
    Requests = {r1}
    Snowflakes = {11, 12, 13, 14}
    OriginOf <- TwoPosts
    Uriless = {14}
    Native = Native
    Wrapper = Wrapper
    MaxId = 2
    Bodies = {"json", "form", "broken", "large"}
    NamedIds <- SomeIds
    Disruptions = {"db", "lost", "body", "search", "refused", "cancel"}
    MaxDisruptions = 2
    NoRow = NoRow
    Unmapped = Unmapped
INVARIANTS
    TypeOK
    NamesKept
PROPERTIES
    DeliverySpec
CHECK_DEADLOCK FALSE
