SPECIFICATION MeterFairSpec
CONSTANTS
    Conns = {c1, c2}
    Cap = 2
    WarnAt = 1
    SettleAt = 2
    MaxFrames = 4
    MaxFaults = 1
INVARIANT EveryFrameOnce
PROPERTY ClosedIsSettled
PROPERTY SpentStops
CHECK_DEADLOCK FALSE
