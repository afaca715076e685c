SPECIFICATION CapFairSpec
CONSTANTS
    Servers = {s1}
    Requests = {q1, q2}
    Flushes = {f1, f2}
    Cap = 2
    Warn = 1
    MaxResets = 1
    MaxFailed = 1
INVARIANTS
    OneMailPerCrossing
    ClaimsAreCurrent
PROPERTY
    RefusalIsClaimed
CHECK_DEADLOCK FALSE
