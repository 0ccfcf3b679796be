SPECIFICATION Spec
CONSTANTS
    h1 = h1
    h2 = h2
    h3 = h3
    o1 = o1
    o2 = o2
    None = None
    Share = 2
    Funds = 4
    Handlers <- MCHandlers
    Orders <- MCOrders
SYMMETRY MCSymmetry
INVARIANTS
    ChargedTwiceOnlyIfOverlapping
CHECK_DEADLOCK FALSE
