SPECIFICATION MCFairSpec
CONSTANTS
    c1 = c1
    c2 = c2
    u1 = u1
    Absent = Absent
    Free = Free
    Callers = {c1, c2}
    Users = {u1}
    UserOf <- MCUserOf
    Opening <- MCOpening
    Amounts = {1, 3}
    Recharges = {1}
    TicksPerUnit = 2
    Faulty = TRUE
    MaxCharges = 2
    MaxCredits = 2
    paid = paid
    astray = astray
    Payments = {paid, astray}
    Payer <- MCPayer
    Price <- MCPrice
INVARIANTS
    TypeOK
    NonNegative
    NoLostUpdate
    ReconciledWithin
    AcknowledgedIsCredited
PROPERTY
    AtomicAccount
    SettlesOnBalance
    RequestsFinish
