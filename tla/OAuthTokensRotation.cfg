SPECIFICATION Spec
CONSTANTS
    Requests = {r1, r2}
    Grants = {1}
    Grace = 2
    MaxPairs = 3
    MaxTime = 2
    MaxEnds = 1
    MaxFailures = 1
SYMMETRY Symmetry
INVARIANT ClientStaysConnected
INVARIANT WindowIsBounded
INVARIANT EndedIsDead
INVARIANT OneConsentOnePair
CHECK_DEADLOCK FALSE
