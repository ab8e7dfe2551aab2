SPECIFICATION Spec
CONSTANTS
    r1 = r1  r2 = r2  r3 = r3
    p1 = p1  p2 = p2
    d1 = d1
    Requests = {r1, r2, r3}
    Participants = {p1, p2}
    Days = {d1}
    Registered = {p1, p2}
    Attended = {}
    WarmStart = FALSE
    Flaggable = {}
    MaxFails = 1
    MaxRestarts = 1
    Nil = Nil
SYMMETRY RequestSymmetry
INVARIANTS
    TypeOK
    ConfirmedOnce
    CountedAtMostTwice
PROPERTIES
    ExactStaysExact
CHECK_DEADLOCK FALSE
