CONSTANTS
    Torn = Torn
    None = None
    w1 = w1
    Readers = {}
    Writers = {w1}
    Slots = {0, 1}
    MaxTxn = 4
    MaxNonce = 3
    MaxGrowth = 1
    MaxReclaim = 2
    ResolveFirst = FALSE
    Faults = {"kill","power"}
SPECIFICATION Spec
INVARIANTS CommittedSurvives
CHECK_DEADLOCK FALSE
