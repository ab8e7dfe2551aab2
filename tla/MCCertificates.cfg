CONSTANTS
    p1 = p1
    p2 = p2
    w1 = w1
    w2 = w2
    c1 = c1
    Nil = Nil
    Participants = {p1, p2}
    Early = {p1}
    Flaggable = {p2}
    Workers = {w1, w2}
    Clerks = {}
    MaxEdits = 1
    MaxFails = 1
SPECIFICATION Spec
SYMMETRY WorkerSymmetry
INVARIANTS TypeOK DispatchCovers SentWasEmailed
