SPECIFICATION Spec
CONSTANTS
    Requests = {f1, f2, b1}
    Foreground = {f1, f2}
    None = None
SYMMETRY Symmetry
INVARIANTS
    TypeOK
    WatchdogOwn
    AnswersMatch
    NeverStuck
PROPERTY
    BackgroundYields
CHECK_DEADLOCK FALSE
