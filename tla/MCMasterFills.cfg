CONSTANTS
    a = a
    Orders = {a}
    MaxFills = 2
    MaxEvents = 1
SPECIFICATION FairSpec
INVARIANTS
    NoLotCopiedTwice
    EveryLotAccounted
PROPERTIES
    WrongHintIsCleared
    ImplementsContract
CHECK_DEADLOCK FALSE
