SPECIFICATION FairSpec
CONSTANTS
    r1 = r1
    r2 = r2
    r3 = r3
    p1 = p1
    p2 = p2
    d1 = d1
    Requests = {r1, r2, r3}
    Participants = {p1, p2}
    Days = {d1}
    Registered = {p1}
    Attended = {}
    WarmStart = TRUE
    Flaggable = {p1}
    MaxFails = 1
    MaxRestarts = 0
    Nil = Nil
INVARIANTS
    AckIsCovered
PROPERTIES
    PromiseKept
    AckedIsRecorded
CHECK_DEADLOCK FALSE
