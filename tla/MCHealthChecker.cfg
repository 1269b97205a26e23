SPECIFICATION Spec
CONSTANTS
    Agents = {a1}
    Checkers = {c1, c2}
    FailThreshold = 2
    MaxParallel = 1
    MaxFaults = 2
INVARIANTS
    FlagExplained
    AnnouncedOnce
PROPERTIES
    AlarmsEarned
    RecoveryShows
CHECK_DEADLOCK FALSE
