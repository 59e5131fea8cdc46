SPECIFICATION MCSpec
CONSTANTS
    a = a
    b = b
    small = small
    large = large
    Channels = {a, b}
    WindowSize = 1
    Latencies = {"fast", "stalled"}
    InitialHealth <- MCInitialHealth
    InitialState <- MCInitialState
    Models = {small, large}
    Mapping <- MCMapping
    MaxCrashes = 1
    MaxFailures = 1
INVARIANTS
    ServerTypeOK
    AllOrNothing
    StatusIsRegular
PROPERTY
    ServesUnlessRefused
