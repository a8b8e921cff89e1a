CONSTANTS
    Torn = Torn
    None = None
    w1 = w1
    w2 = w2
    Readers = {}
    Writers = {w1, w2}
    Slots = {0}
    MaxTxn = 4
    MaxNonce = 3
    MaxGrowth = 1
    MaxReclaim = 2
    ResolveFirst = FALSE
    Faults = {"kill", "error"}
SPECIFICATION Spec
SYMMETRY Symmetry
VIEW WithoutDisk
INVARIANTS BaseStaysSelected
PROPERTY PublishesInOrder
CHECK_DEADLOCK FALSE
