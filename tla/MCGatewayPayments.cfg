SPECIFICATION Spec
CONSTANTS
    u1 = u1
    u2 = u2
    u3 = u3
    o1 = o1
    c1 = c1
    w1 = w1
    w2 = w2
    None = None
    Users <- MCThreeUsers
    Orders <- MCOrders
    Coupons <- MCCoupons
    FullDiscount <- MCNoFullDiscount
    MaxUses = 1
    Workers <- MCWorkers
    MayCrash = TRUE
    MaxCredits = 2
SYMMETRY MCSymmetry
INVARIANTS
    RecordedMeansDelivered
    UsesMatchRows
    OvershootIsBounded
    CreditedTwiceOnlyIfRetried
PROPERTIES
    ImplementsContract
