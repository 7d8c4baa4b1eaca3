SPECIFICATION Spec
CONSTANTS
    a = a
    b = b
    c = c
    None = None
    Nets = {a, b, c}
    Cells = {1, 2, 3}
    Targets <- MCTargets
    Ways <- MCWays
    MinFailed = 1
    Tries = 1
    keepTrying = FALSE
    Commands = {"stage1", "stage2", "route1", "route2", "remove", "write"}
    MaxCommands = 3
INVARIANTS TypeOK RoutesHaveTheirCells CellsHaveTheirRoutes NoneForgotten NoneMissed
PROPERTIES SecondStageEnds
CHECK_DEADLOCK FALSE
