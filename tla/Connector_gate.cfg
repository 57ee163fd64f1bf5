SPECIFICATION FairSpec
CONSTANTS
    Requests = {r1, r2}
    Kinds <- MCKinds
    r1 = r1
    r2 = r2
    MaxListeners = 2
    MaxDomains = 2
    MaxLoads = 1
    None = None
INVARIANTS
    Serialized
    NeverDeaf
PROPERTIES
    RunsInPlace
    StopsItsOwn
    ImplementsContract
    HostAnswered
CHECK_DEADLOCK FALSE
