SPECIFICATION Spec
CONSTANTS
    main = main
    backup = backup
    own = own
    off = off
    odd = odd
    r1 = r1
    r2 = r2
    None = None
    Channels = {main, backup}
    Requests = {r1}
    WindowSize = 2
    Latencies = {"fast", "stalled"}
    MaxRetries = 2
    InitialHealth <- MCInitialHealth
    InitialState <- MCInitialState
    Tier <- MCTier
    TierAllowed <- MCTierAllowed
    ChannelList <- Pair
    Priority <- MCPriority
    Supported <- MCSupported
PROPERTY FailsOverToNextBest
