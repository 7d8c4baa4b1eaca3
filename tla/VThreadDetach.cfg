CONSTANTS
    NThreads = 4
    NProcs = 2
    Blocks = {"block"}
    Tasks = {}
    Functions = {}
    Outer <- MCOuter
    Events = {"ev"}
    Statements = {"delay", "wait", "event", "join", "join_any", "join_none", "disable_fork", "wait_fork"}
    Disablable = {}
    JoinsBesideDetached = FALSE
    MaxStmts = 5
SPECIFICATION Spec
INVARIANTS Consistent
