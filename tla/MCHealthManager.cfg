SPECIFICATION MCSpec
CONSTANTS
    up = up
    off = off
    Channels = {up, off}
    WindowSize = 5
    Latencies = {"fast", "slow", "stalled"}
    InitialHealth <- MCInitialHealth
    InitialState <- MCInitialState
    MaxFailures = 7
INVARIANTS
    HealthTypeOK
    ConsecutiveFailures
    OpenNeedsEvidence
PROPERTY
    FastSuccessNeverHurts
