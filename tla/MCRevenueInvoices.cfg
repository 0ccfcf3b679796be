SPECIFICATION Spec
CONSTANTS
    w1 = w1
    w2 = w2
    None = None
    Final = Final
    NPeriods = 2
    NRows = 2
    Cancellations = {}
    Kinds = {"compute", "issue", "late", "chain"}
    MaxJobs = 2
    MaxRestarts = 1
    MonthOf <- MCMonthOf
    AmountOf <- MCAmountOf
    Workers <- MCTwoWorkers
SYMMETRY MCSymmetry
INVARIANTS
    LateRowsCounted
PROPERTIES
    ImplementsContract
    MarkCarriedOn
