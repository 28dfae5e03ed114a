CONSTANTS
    a1 = a1
    c1 = c1
    c2 = c2
    s1 = s1
    s2 = s2
    p1 = p1
    p2 = p2
    Null = Null
    Assets <- MCOneAsset
    Listeners <- MCClients
    Sockets <- MCTwoSockets
    Prices <- MCOnePrice
    AttemptCap = 5
SPECIFICATION FeedSpec
CHECK_DEADLOCK FALSE
INVARIANTS
    StaleMeansUnavailable
