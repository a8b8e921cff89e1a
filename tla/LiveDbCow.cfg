CONSTANTS
    Torn = Torn
    None = None
    r1 = r1
    w1 = w1
    Readers = {r1}
    Writers = {w1}
    Slots = {0}
    MaxTxn = 4
    MaxNonce = 3
    MaxGrowth = 1
    MaxReclaim = 2
    ResolveFirst = FALSE
    Faults = {"kill"}
SPECIFICATION Spec
PROPERTY ImplementsCowStore
CHECK_DEADLOCK FALSE
