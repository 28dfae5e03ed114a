CONSTANTS
    a1 = a1
    a2 = a2
    l1 = l1
    l2 = l2
    s1 = s1
    s2 = s2
    p1 = p1
    p2 = p2
    Null = Null
    Assets <- MCAssets
    Listeners <- MCListeners
    Sockets <- MCSockets
    Prices <- MCPrices
    AttemptCap = 5
SPECIFICATION Spec
SYMMETRY MCSymmetry
INVARIANTS
    SubscribedMirrorsListeners
    UpstreamAgrees
    NoLostReconnect
    OneUpstreamSocket
    StaleWhileDown
PROPERTIES
    BackoffDoubles
