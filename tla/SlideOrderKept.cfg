SPECIFICATION OrderSpec
CONSTANTS
    Requests = {r1, r2}
    Initial = 2
    MaxSlides = 4
    MaxSplits = 2
    MaxDeaths = 1
SYMMETRY Symmetry
INVARIANTS
    AnswersStayTrue
    RenumberingRestoresOrder
PROPERTY
    NothingListedIsLost
CHECK_DEADLOCK FALSE
