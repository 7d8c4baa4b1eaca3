\* The VCD writer alone.
SPECIFICATION Spec
CONSTANTS
    Vars = {v1}
    Writers = {"vcd"}
    MaxTime = 1
INVARIANTS DarkWhileOff
CHECK_DEADLOCK FALSE
