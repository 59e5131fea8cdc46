SPECIFICATION FairSpec
CONSTANTS
    c1 = c1
    c2 = c2
    c3 = c3
    c4 = c4
    None = None
    Calls = {c1, c2, c3, c4}
    Capacity = 2
    Faulty = TRUE
INVARIANTS
    TypeOK
    StoredInOrder
    ChargedAccounted
PROPERTY
    CatchesUp
