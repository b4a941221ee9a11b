\* Two pages with queries of their own, an operation that commits twice, one fault.
SPECIFICATION FairSpec
CONSTANTS
    Pages = {p1, p2}
    Committers = {c1}
    Query <- OwnQuery
    Batch = 1
    CacheLimit = 1
    MaxEvents = 2
    MaxFaults = 1
    None = None
INVARIANTS TypeOK AcknowledgedIsAnnounced WholeProjections
CHECK_DEADLOCK FALSE
PROPERTIES FeedIsDelivered LivePagesFollow
