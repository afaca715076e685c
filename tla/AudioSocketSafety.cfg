SPECIFICATION FairSpec
CONSTANTS
    Conns = {c1, c2}
    MaxStarts = 1
    MaxFrames = 3
    Window = 2
    Budget = 3
    MaxPending = 1
    SessionCap = 2
    HighWater = 2
INVARIANT BudgetHonoured
INVARIANT HeldMatchesReservations
INVARIANT AudioInFlightIsReserved
INVARIANT DeniedNeverUploads
 
PROPERTY ImplementsLeases
PROPERTY FlushReleases
CHECK_DEADLOCK FALSE
