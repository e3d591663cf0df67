CONSTANTS
    w1 = w1
    w2 = w2
    r1 = r1
    p1 = p1
    o1 = o1
    h1 = h1
    Workers = {w1, w2}
    Runs = {r1}
    Projects = {p1}
    Orgs = {o1}
    WebsiteRuns = {r1}
    ProjectOf <- MCProjectOf
    OrgOf <- MCOrgOf
    MaxAttempts = 3
    ActiveTaskQuota = 1
    LeaseTerm = 1
    Results = {h1}
    None = None
    MaxFaults = 1
SYMMETRY Interchangeable
SPECIFICATION SessionSpec
INVARIANTS
    SessionTypeOK
    OneDriver
    BrowsersAreLeased
    ClosedBeforeSuccess
    ResumedWasSignedIn
CHECK_DEADLOCK FALSE
