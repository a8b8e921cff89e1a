CONSTANTS
    None = None
    r1 = r1
    r2 = r2
    Readers = {r1, r2}
    Pages = {2, 3, 4}
    MaxTxn = 4
    MaxNonce = 4
SPECIFICATION Spec
SYMMETRY Symmetry
INVARIANTS HeldIntact PagesAccounted IInv
CHECK_DEADLOCK FALSE
