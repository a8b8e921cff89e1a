CONSTANTS
    Torn = Torn
    None = None
    r1 = r1
    r2 = r2
    w1 = w1
    Readers = {r1, r2}
    Writers = {w1}
    Slots = {0}
    MaxTxn = 4
    MaxNonce = 3
    MaxGrowth = 1
    MaxReclaim = 2
    ResolveFirst = FALSE
    Faults = {"error","unlock","retain"}
SYMMETRY Symmetry
SPECIFICATION Spec
INVARIANTS ReadersIntact NotCommittedIsFinal AlwaysOpenable
CHECK_DEADLOCK FALSE
