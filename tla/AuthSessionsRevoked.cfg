SPECIFICATION Spec
CONSTANTS
    Requests = {r1, r2}
    Browsers = {b1}
    MaxSessions = 3
    MaxLinks = 2
    MaxChanges = 1
    MaxFailures = 1
SYMMETRY Symmetry
INVARIANT RevocationIsComplete
INVARIANT TabsStaySignedIn
INVARIANT OlderLinksStop
CHECK_DEADLOCK FALSE
