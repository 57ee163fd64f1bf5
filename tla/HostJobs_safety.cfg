SPECIFICATION Spec
CONSTANTS
    Callers = {c1, c2}
    RequestIds <- AnyId
    c1 = c1
    c2 = c2
    r1 = r1
    r2 = r2
    ExecWork = {exec}
    ToolWork = {}
    ControlWork = {}
    Capacity = 1
    MaxGen = 1
    Modes = {"ready", "busy", "stopped"}
    Retires = FALSE
    Hurried = {c1, c2}
    None = None
SYMMETRY Symmetry
INVARIANTS
    TypeOK
    UnknownWasHanded
    OneAnswer
    OneWorker
    UnansweredIsKnown
PROPERTY
    ImplementsContract
CHECK_DEADLOCK FALSE
