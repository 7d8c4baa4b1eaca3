\* Both kinds of values; an input may change while a transition is due, but not twice.
SPECIFICATION Spec
CONSTANTS
    Kinds = {"vec4", "real"}
    Delays = {0, 1, 2}
    MaxDelay = 2
    Glitches = FALSE
    MaxInputs = 5
    MaxTime = 4
INVARIANTS TypeOK Settles
PROPERTIES Inertial
\* The simulation ends.
CHECK_DEADLOCK FALSE
