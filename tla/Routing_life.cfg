SPECIFICATION FairSpec
CONSTANTS
    Hosts = {h1, h2}
    Runtimes = {v1, v2}
    Installers = {i1, i2}
    h1 = h1
    h2 = h2
    v1 = v1
    v2 = v2
    i1 = i1
    i2 = i2
    k1 = k1
    k2 = k2
    Registers <- MCRegisters
    Clients = {k1, k2}
    Plans <- MCPlans
    MaxCrashes = 1
    None = None
INVARIANTS
    TypeOK
    OneHost
    HostOnlyStays
PROPERTIES
    ImplementsContract
    HostReturns
    ReplacedRetires
CHECK_DEADLOCK FALSE
