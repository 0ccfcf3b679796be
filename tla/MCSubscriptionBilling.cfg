SPECIFICATION FairSpec
CONSTANTS
    s1 = s1
    s2 = s2
    u1 = u1
    w1 = w1
    w2 = w2
    None = None
    Subs <- MCOneSub
    Users <- MCUsers
    Owner <- MCOwner
    Workers <- MCWorkers
    MaxCharges = 2
    MaxRestarts = 1
INVARIANTS
    OverdueIsHeld
    PaidIsSettled
    ChargedTwiceOnlyIfRaced
PROPERTIES
    UnpaidIsHeld
    ImplementsContract
