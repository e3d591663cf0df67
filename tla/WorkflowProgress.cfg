CONSTANTS
    w1 = w1
    w2 = w2
    r1 = r1
    r2 = r2
    r3 = r3
    p1 = p1
    p2 = p2
    o1 = o1
    d1 = d1
    d2 = d2
    k1 = k1
    k2 = k2
    Workers = {w1}
    Runs = {r1, r2}
    Projects = {p1, p2}
    Orgs = {o1}
    ProjectOf <- MCProjectOf
    OrgOf <- MCOrgOf
    LastPhase = 2
    MaxAttempts = 2
    ActiveTaskQuota = 1
    LeaseTerm = 1
    Digests = {d1}
    AppKeys = {k1}
    None = None
SPECIFICATION FairSpec
PROPERTIES
    RunsSettle
CHECK_DEADLOCK FALSE
