SPECIFICATION Spec
CONSTANTS
    Agents = {a1}
    Checkers = {c1}
    FailThreshold = 2
    MaxParallel = 1
    MaxFaults = 2
PROPERTIES
    OutageShows
CHECK_DEADLOCK FALSE
