CONSTANTS
    d1 = d1
    d2 = d2
    Nil = Nil
    Days = {d1, d2}
    FirstDay = d1
    MaxCheckIns = 2
    MaxPicks = 2
    MaxDrops = 1
SPECIFICATION FairSpec
INVARIANTS TypeOK CardOfDayShown CardShowsLastCast
PROPERTY KeepsListening
CHECK_DEADLOCK FALSE
