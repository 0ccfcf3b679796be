CONSTANTS
    f1 = f1
    Fills = {f1}
    FillLots = 2
    OtherLegs = {FALSE, TRUE}
    MaxUpsets = 1
SPECIFICATION Spec
INVARIANTS
    TotalIsTheLeg
CHECK_DEADLOCK FALSE
