SPECIFICATION Spec
CONSTANTS
    main = main
    backup = backup
    own = own
    off = off
    odd = odd
    r1 = r1
    r2 = r2
    None = None
    Channels = {main, own, off, odd}
    Requests = {r1, r2}
    WindowSize = 1
    Latencies = {"fast", "stalled"}
    MaxRetries = 2
    InitialHealth <- MCInitialHealth
    InitialState <- MCInitialState
    Tier <- MCTier
    TierAllowed <- MCTierAllowed
    ChannelList <- Mixed
    Priority <- MCSamePriority
    Supported <- MCSupported
CONSTRAINT ClientsStay
INVARIANTS
    TypeOK
    SelectsBest
    BreakerContains
    OutOfBounds
