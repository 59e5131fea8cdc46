SPECIFICATION MCSpec
CONSTANTS
    main = main
    backup = backup
    odd = odd
    off = off
    r1 = r1
    None = None
    Channels = {main, backup, odd, off}
    Requests = {r1}
    Handler = r1
    WindowSize = 2
    Latencies = {"fast", "stalled"}
    MaxRetries = 2
    InputTokens = {1}
    Usages = {1}
    FaultModes = {FALSE}
    EngineModes = {TRUE}
    MaxText = 1
    InitialHealth <- MCInitialHealth
    InitialState <- MCInitialState
    Tier <- MCTier
    TierAllowed <- MCTierAllowed
    ChannelList <- MCChannels
    Priority <- MCPriority
    Supported <- MCSupported
    ProviderOf <- MCProviderOf
INVARIANT
    EntryNamesAnswerer
PROPERTIES
    HealthSpec
    FailoverPromise
    HandlerPromise
