SPECIFICATION BusySpec
CONSTANTS
    main = main
    backup = backup
    own = own
    off = off
    odd = odd
    r1 = r1
    r2 = r2
    None = None
    Channels = {main, backup, odd, off}
    Requests = {r1}
    WindowSize = 2
    Latencies = {"fast", "stalled"}
    MaxRetries = 2
    InitialHealth <- MCInitialHealth
    InitialState <- MCInitialState
    Tier <- MCTier
    TierAllowed <- MCTierAllowed
    ChannelList <- Ladder
    Priority <- MCSamePriority
    Supported <- MCSupported
PROPERTY OpenCircuitIsProbed
