CONSTANTS
    p1 = p1
    p2 = p2
    w1 = w1
    w2 = w2
    c1 = c1
    Nil = Nil
    Participants = {p1}
    Early = {p1}
    Flaggable = {}
    Workers = {w1, w2}
    Clerks = {c1}
    MaxEdits = 1
    MaxFails = 1
SPECIFICATION FairSpec
INVARIANT EmailsHaveACause
PROPERTY DueIsDispatched
