SPECIFICATION Spec
CONSTANTS
    i1 = i1
    i2 = i2
    p1 = p1
    q1 = q1
    q2 = q2
    w1 = w1
    w2 = w2
    None = None
    Invoices <- MCInvoices
    Partners <- MCPartners
    Payouts <- MCPayouts
    Workers <- MCWorkers
    Chain <- MCChain
    Commission <- MCCommission
    CreditAmounts <- MCOneCreditNote
SYMMETRY MCSymmetry
CHECK_DEADLOCK FALSE
INVARIANTS
    TypeOK
    PaidOnce
    ClaimsHaveTheirPayout
    PayoutIsWorthItsRows
    VoidLeavesNothing
    PaidVoidsAreFlagged
PROPERTY ImplementsContract
