CONSTANTS
    p1 = p1
    p2 = p2
    w1 = w1
    w2 = w2
    c1 = c1
    Nil = Nil
    Participants = {p1, p2}
    Early = {p1}
    Flaggable = {}
    Workers = {w1}
    Clerks = {}
    MaxEdits = 1
    MaxFails = 0
SPECIFICATION Spec
INVARIANT EditReopens
