CONSTANTS
    NThreads = 4
    NProcs = 2
    Blocks = {"block", "taskBlock", "functionBlock"}
    Tasks = {"task"}
    Functions = {"function"}
    Outer <- MCOuter
    Events = {"ev"}
    Statements = {"delay", "wait", "event", "join", "block", "task", "function", "disable"}
    Disablable = {"block", "taskBlock", "functionBlock"}
    JoinsBesideDetached = FALSE
    MaxStmts = 7
SPECIFICATION Spec
INVARIANTS TypeOK AssertsHold TreeAgrees NoneForgotten JoinersAreWoken JoinsMatchChildren
PROPERTIES JoinWaits DisableStops
