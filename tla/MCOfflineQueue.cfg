CONSTANTS
    e1 = e1
    e2 = e2
    t1 = t1
    t2 = t2
    p1 = p1
    p2 = p2
    r1 = r1
    r2 = r2
    Nil = Nil
    Scans = {1, 2, 3}
    Tabs = {t1, t2}
    EventOf <- TwoEvents
    Targets = {p1, p2}
    Rows = {p1}
    TargetOf <- TwoPairs
    AcceptedFor <- Verdicts
    Requests = {r1, r2}
    MaxBatch = 2
    MaxDrops = 1
    MaxFails = 1
SPECIFICATION FairSpec
INVARIANT TypeOK
PROPERTIES PromiseReachesTheGate QueueSettles
