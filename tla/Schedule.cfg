SPECIFICATION Spec
CONSTANTS
    MaxEvents = 3
    MaxDelay = 2
    Uses = {}
INVARIANTS TypeOK StepsApart NothingLost FinalsRun
PROPERTIES FinishStopsTime
