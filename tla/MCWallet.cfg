SPECIFICATION Spec
CONSTANTS
    u1 = u1
    t1 = t1
    t2 = t2
    t3 = t3
    h1 = h1
    h2 = h2
    Absent = Absent
    Idle = Idle
    Users <- MCUsers
    TxnIds <- MCTxnIds
    Handlers <- MCHandlers
    Amounts <- MCAmounts
    FeeHolds <- MCFeeHolds
SYMMETRY MCSymmetry
INVARIANTS
    LockedCoversPending
    LedgerExplainsWallet
    HeldFeesStayCovered
CHECK_DEADLOCK FALSE
PROPERTIES
    ImplementsContract
    CreditedTwiceOnlyIfOverlapping
