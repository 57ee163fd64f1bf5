SPECIFICATION Spec
CONSTANTS
    Threads = {t1, t2}
    Lanes = {l1}
    Identities = {i1, i2}
    Capacity = 1
    MaxPosts = 1
    Closes = FALSE
    None = None
SYMMETRY Symmetry
INVARIANT
    RetiredIsClosed
CHECK_DEADLOCK FALSE
