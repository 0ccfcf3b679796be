CONSTANTS
    f1 = f1
    Fills = {f1}
    FillLots = 2
    OtherLegs = {FALSE}
    MaxUpsets = 1
SPECIFICATION FairSpec
INVARIANTS
    OverfillNeedsAnUnguardedDecision
PROPERTIES
    NoLiveOrderInsideARestOrder
    FlatMasterFlattens
CHECK_DEADLOCK FALSE
