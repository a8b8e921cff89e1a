CONSTANTS
    h1 = h1
    h2 = h2
    h3 = h3
    t1 = t1
    t2 = t2
    a1 = a1
    a2 = a2
    None = None
    Loads <- MCLoads
    Threads = {t1, t2}
    Tries = 1
    Addresses = {a1, a2}
SPECIFICATION Spec
SYMMETRY Symmetry
INVARIANTS PendingCounts Quiet OwnAddresses AllResolved PoolInv
CHECK_DEADLOCK FALSE
