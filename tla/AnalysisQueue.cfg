CONSTANTS
    w1 = w1
    w2 = w2
    r1 = r1
    r2 = r2
    p1 = p1
    p2 = p2
    o1 = o1
    h1 = h1
    h2 = h2
    Workers = {w1, w2}
    Runs = {r1, r2}
    Projects = {p1, p2}
    Orgs = {o1}
    WebsiteRuns <- MCWebsiteRuns
    ProjectOf <- MCProjectOf
    OrgOf <- MCOrgOf
    MaxAttempts = 3
    ActiveTaskQuota = 1
    LeaseTerm = 2
    Results = {h1, h2}
    None = None
SYMMETRY Interchangeable
SPECIFICATION Spec
INVARIANTS
    TypeOK
    RowsAgree
    ReceiptTellsTheStory
    ResultIsReceipted
    CleanupOwed
    ProjectStatusEarned
PROPERTIES
    HistoryIsNeverRewritten
    EndedRunsFrozen
    LeaseLossIsFinal
CHECK_DEADLOCK FALSE
