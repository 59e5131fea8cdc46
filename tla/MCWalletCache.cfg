SPECIFICATION MCSpec
CONSTANTS
    c1 = c1
    c2 = c2
    u1 = u1
    Absent = Absent
    Free = Free
    Callers = {c1, c2}
    Users = {u1}
    UserOf <- MCUserOf
    Opening <- MCOpening
    Amounts = {1, 3}
    Recharges = {}
    TicksPerUnit = 1
    Faulty = FALSE
    MaxCharges = 3
    MaxCredits = 2
    paid = paid
    astray = astray
    Payments = {}
    Payer <- MCPayer
    Price <- MCPrice
INVARIANT CacheCurrentAfterInvalidation
