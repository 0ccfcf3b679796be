SPECIFICATION Spec
CONSTANTS
    d1 = d1
    d2 = d2
    w1 = w1
    w2 = w2
    None = None
    Deposits <- MCDepositSet
    Workers <- MCWorkers
    MaxRefusals = 2
SYMMETRY MCSymmetry
CHECK_DEADLOCK FALSE
INVARIANTS
    OneCreditPerApproval
    StatusesAgree
PROPERTIES
    ImplementsContract
