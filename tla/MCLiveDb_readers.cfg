CONSTANTS
    Torn = Torn
    None = None
    r1 = r1
    r2 = r2
    w1 = w1
    Readers = {r1, r2}
    Writers = {w1}
    Slots = {0, 1}
    MaxTxn = 4
    MaxNonce = 3
    MaxGrowth = 1
    MaxReclaim = 2
    ResolveFirst = FALSE
    Faults = {"kill"}
SYMMETRY Symmetry
SPECIFICATION Spec
INVARIANTS ReadersIntact ScanNeverCorrupt ReadersStayRegistered
CHECK_DEADLOCK FALSE
