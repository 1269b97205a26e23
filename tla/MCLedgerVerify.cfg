SPECIFICATION Spec
CONSTANTS
    Writers = {w1, w2}
    Readers = {o1}
    Readings <- MCReadings
    Precision = 2
    Zones <- MCZones
    NoWriter = NoWriter
INVARIANT VerifyAcceptsChain
CHECK_DEADLOCK FALSE
