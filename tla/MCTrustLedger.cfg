SPECIFICATION Spec
CONSTANTS
    Writers = {w1, w2, w3}
    Readers = {o1}
    Readings <- MCReadings
    Precision = 2
    Zones <- MCZones
    NoWriter = NoWriter
INVARIANTS
    ChainIntact
    NoConflict
    VerifyBlamesTimestamps
    OverviewNotBehind
PROPERTIES
    ImplementsMemoryLedger
    AppendsSettle
CHECK_DEADLOCK FALSE
