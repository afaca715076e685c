SPECIFICATION Spec
CONSTANTS
    Decks = {d1, d2}
    Players = {p1, p2}
    Purgers = {w1, w2}
    MaxFailures = 1
SYMMETRY Symmetry
INVARIANTS
    NarrationGoesWithItsLecture
    HoldersKeepTheirAudio
    ClaimsAreNotForgotten
CHECK_DEADLOCK FALSE
