CONSTANTS
    a = a
    Orders = {a}
    MaxFills = 2
    MaxEvents = 1
SPECIFICATION Spec
PROPERTIES
    SkippedIncrementWasForwarded
CHECK_DEADLOCK FALSE
