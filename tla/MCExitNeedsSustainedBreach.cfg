SPECIFICATION Spec
CONSTANTS
    l1 = l1
    l2 = l2
    t1 = t1
    None = None
    Poll = Poll
    Legs <- MCOneLeg
    Ticks <- MCOneTick
    LockTTL = 1
    Cooldown = 2
    SettleGrace = 1
    CacheTTL = 1
    BreachTicks = 2
    MaxMoves = 0
    MaxTurns = 2
    MaxFaults = 0
PROPERTIES
    ExitNeedsSustainedBreach
