SPECIFICATION FairSpec
CONSTANTS
    w1 = w1
    w2 = w2
    None = None
    Final = Final
    NPeriods = 2
    NRows = 0
    Cancellations = {1, 2}
    Kinds = {"compute", "issue"}
    MaxJobs = 1
    MaxRestarts = 1
    MonthOf <- MCNoRows
    AmountOf <- MCNoRows
    Workers <- MCOneWorker
PROPERTY FinalInvoiceSettled
