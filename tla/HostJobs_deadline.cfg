SPECIFICATION Spec
CONSTANTS
    Callers = {c1, c2}
    RequestIds <- SharedId
    c1 = c1
    c2 = c2
    r1 = r1
    r2 = r2
    ExecWork = {}
    ToolWork = {tool}
    ControlWork = {}
    Capacity = 1
    MaxGen = 0
    Modes = {"ready"}
    Retires = FALSE
    Hurried = {c1, c2}
    None = None
INVARIANT OriginalDeadline
CHECK_DEADLOCK FALSE
