CONSTANTS
    t1 = t1  t2 = t2
    b1 = b1  b2 = b2
    e1 = e1  e2 = e2
    s1 = s1  s2 = s2
    Nil = Nil
    Tabs = {t1, t2}
    Browsers = {b1, b2}
    Placements <- AnyBrowser
    Emails = {e1, e2}
    Subdomains = {s1, s2}
    Areas = {"eventos"}
    MaxAccounts = 3
    MaxLoads = 2
    MaxCalls = 3
    MaxEdits = 2
    MaxLosses = 1
SPECIFICATION Spec
SYMMETRY Interchangeable
INVARIANTS TypeOK TokensAreTrue EveryTenantHasOneOwner ShownIsHeld
PROPERTIES AdmittedIsEntitled
CHECK_DEADLOCK FALSE
