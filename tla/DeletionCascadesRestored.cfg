SPECIFICATION Spec
CONSTANTS
    ann = ann
    bob = bob
    course = course
    anns = anns
    bobs = bobs
    s1 = s1
    Requests = {r1, r2}
    Accounts = {ann, bob}
    Projects = {course}
    Lectures = {anns, bobs}
    Slides = {s1}
    Owner <- MCOwner
    Project <- MCProject
    Lecture <- MCLecture
    MaxTime = 3
    MaxSweeps = 1
    MaxDisturbances = 1
SYMMETRY Symmetry
INVARIANT RestoreIsExact
PROPERTY LiveIsNotPurged
CHECK_DEADLOCK FALSE
