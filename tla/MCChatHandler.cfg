SPECIFICATION MCSpec
CONSTANTS
    Providers = {"openai", "anthropic", "gemini"}
    InputTokens = {0, 2}
    Usages = {0, 1, 2}
    FaultModes = {FALSE, TRUE}
    EngineModes = {FALSE, TRUE}
    MaxLines = 3
INVARIANTS
    TypeOK
    ChargedIsDelivered
    EntryTellsCharge
    SpendReachesLimits
PROPERTY
    EveryCallIsLogged
