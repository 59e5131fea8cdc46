SPECIFICATION MCSpec
CONSTANTS
    u1 = u1
    k1 = k1
    r1 = r1
    r2 = r2
    Nobody = Nobody
    Users = {u1}
    Keys = {k1}
    Owner <- MCOwner
    Slots = {r1, r2}
    KeyOf <- MCKeyOf
    Costs = {1, 2}
    Rules <- MCRules
    CacheTTL = 2
    Outages = {"none", "on"}
    MaxSpend = 4
INVARIANTS
    TypeOK
    OvershootBounded
PROPERTIES
    DailyOverspendIsPaused
    PauseTakesEffect
