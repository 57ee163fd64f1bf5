SPECIFICATION Spec
CONSTANTS
    Threads = {t1, t2, t3}
    Lanes = {l1, l2}
    Identities = {i1, i2}
    Capacity = 1
    MaxPosts = 1
    Closes = TRUE
    None = None
SYMMETRY Symmetry
INVARIANTS
    TypeOK
    PrivateExchange
    PoolNeverBlocks
CHECK_DEADLOCK FALSE
