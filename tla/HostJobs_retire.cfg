SPECIFICATION FairSpec
CONSTANTS
    Callers = {c1, c2}
    RequestIds <- NamedIds
    c1 = c1
    c2 = c2
    r1 = r1
    r2 = r2
    ExecWork = {}
    ToolWork = {tool}
    ControlWork = {state}
    Capacity = 2
    MaxGen = 0
    Modes = {"ready", "stopped"}
    Retires = TRUE
    Hurried = {}
    None = None
INVARIANT FifoDispatch
PROPERTIES
    QueueDrains
    WorkersRetire
    ImplementsContract
CHECK_DEADLOCK FALSE
