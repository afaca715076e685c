SPECIFICATION Spec
CONSTANTS
    Handlers = {1}
    Subscriptions = {1}
    PaidTiers = {1, 2}
    PerSecond = 1
    OldChanges = FALSE
    MaxEvents = 3
    MaxLocal = 0
    MaxFailures = 1
    MaxTogether = 4
INVARIANT TierMatchesRow
CHECK_DEADLOCK FALSE
