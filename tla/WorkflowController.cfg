CONSTANTS
    w1 = w1
    w2 = w2
    r1 = r1
    p1 = p1
    o1 = o1
    d1 = d1
    k1 = k1
    e1 = e1
    e2 = e2
    Workers = {w1, w2}
    Runs = {r1}
    Projects = {p1}
    Orgs = {o1}
    ProjectOf <- MCProjectOf
    OrgOf <- MCOrgOf
    LastPhase = 2
    MaxAttempts = 3
    ActiveTaskQuota = 1
    LeaseTerm = 1
    Digests = {d1}
    AppKeys = {k1}
    References = {e1, e2}
    None = None
    MaxFaults = 3
SYMMETRY Interchangeable
SPECIFICATION ControllerSpec
INVARIANTS
    ControllerTypeOK
    NoUnknownEffectRecorded
    NothingIsDoneTwice
CHECK_DEADLOCK FALSE
