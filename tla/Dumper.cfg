\* Two variables, three points in time, both writers.
SPECIFICATION Spec
CONSTANTS
    Vars = {v1, v2}
    Writers = {"vcd", "lxt2"}
    MaxTime = 2
INVARIANTS TypeOK FileCurrent CallbackMatchesList LibraryDark
PROPERTIES TimesRight
\* The simulation ends.
CHECK_DEADLOCK FALSE
