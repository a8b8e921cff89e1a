CONSTANTS
    Torn = Torn
    None = None
    w1 = w1
    w2 = w2
    Readers = {}
    Writers = {w1, w2}
    Slots = {0, 1}
    MaxTxn = 4
    MaxNonce = 3
    MaxGrowth = 1
    MaxReclaim = 2
    ResolveFirst = FALSE
    Faults = {}
SPECIFICATION Spec

INVARIANT HealthyWriterMapsBase
CHECK_DEADLOCK FALSE
