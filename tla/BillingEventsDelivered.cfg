SPECIFICATION FairSpec
CONSTANTS
    Handlers = {1, 2}
    Subscriptions = {1, 2}
    PaidTiers = {1}
    PerSecond = 2
    OldChanges = TRUE
    MaxEvents = 3
    MaxLocal = 1
    MaxFailures = 1
    MaxTogether = 3
INVARIANT TierMatchesRowIfServed
INVARIANT SettlesOnTheTruth
PROPERTY FollowsHistory
PROPERTY EveryEventAnswered
CHECK_DEADLOCK FALSE
