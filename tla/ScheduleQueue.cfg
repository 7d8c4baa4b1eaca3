SPECIFICATION FairSpec
CONSTANTS
    MaxEvents = 3
    MaxDelay = 1
    Uses = {}
PROPERTIES ImplementsQueue EventsRun Ends
