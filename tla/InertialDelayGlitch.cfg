\* An input that changes twice while a transition is due.
SPECIFICATION Spec
CONSTANTS
    Kinds = {"vec4"}
    Delays = {0, 1, 2}
    MaxDelay = 2
    Glitches = TRUE
    MaxInputs = 4
    MaxTime = 4
INVARIANTS MostRecentIsInput
\* The simulation ends.
CHECK_DEADLOCK FALSE
