CONSTANTS
    NThreads = 4
    NProcs = 2
    Blocks = {"block"}
    Tasks = {"task"}
    Functions = {}
    Outer <- MCOuter
    Events = {"ev"}
    Statements = {"delay", "block", "task", "disable"}
    Disablable = {"task"}
    JoinsBesideDetached = FALSE
    MaxStmts = 5
SPECIFICATION Spec
INVARIANT JoinersAreWoken
