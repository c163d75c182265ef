CONSTANTS
    Interval <- cInterval
    Measurements = {"a"}
    Samples = {1}
    Faults <- cFaults
    Naps = {3}
    Delays = {2, 5}
    Scenarios <- cScenarios
    Busy = 1
    Jitter = 1
    MaxHeld = 3
    All = All
SPECIFICATION FairSpec
PROPERTIES
    StopsWhenTold
CHECK_DEADLOCK FALSE
