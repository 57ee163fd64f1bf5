SPECIFICATION FairSpec
CONSTANTS
    Tasks = {t1, t2, t3}
    MaxChanges = 3
    None = None
INVARIANT
    Announced
PROPERTY
    CatchUp
CHECK_DEADLOCK FALSE
