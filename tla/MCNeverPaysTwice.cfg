SPECIFICATION Spec
CONSTANTS
    w1 = w1
    w2 = w2
    None = None
    Final = Final
    NPeriods = 2
    NRows = 2
    Cancellations = {}
    Kinds = {"compute", "issue", "late", "chain"}
    MaxJobs = 4
    MaxRestarts = 0
    MonthOf <- MCMonthOfBoth
    AmountOf <- MCGains
    Workers <- MCOneWorker
INVARIANT NeverPaysTwice
