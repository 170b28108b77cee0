SPECIFICATION Spec
CONSTANTS
    r1 = r1
    r2 = r2
    r3 = r3
    c1 = c1
    c2 = c2
    f1 = f1
    NoRow = NoRow
    Repo = {r1, r2}
    File = {f1}
    Decl <- MCDecl
    FileOf <- MCFileOf
    Caller = {c1, c2}
    Limit = 1
    DbSize = 0
    MayFail = {}
    OnePerRepo = TRUE
    MaxCalls = 3
    MaxFailures = 0
PROPERTY
    NeverReusesHalfClone
CHECK_DEADLOCK FALSE
