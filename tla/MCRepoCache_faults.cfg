SPECIFICATION FairSpec
CONSTANTS
    r1 = r1
    r2 = r2
    r3 = r3
    c1 = c1
    c2 = c2
    f1 = f1
    NoRow = NoRow
    Repo = {r1, r2}
    File = {f1}
    Decl <- MCDecl
    FileOf <- MCFileOf
    Caller = {c1, c2}
    Limit = 1
    DbSize = 2
    MayFail = {"disk", "db", "net", "crash"}
    OnePerRepo = FALSE
    MaxCalls = 2
    MaxFailures = 2
INVARIANT
    TypeOK
PROPERTIES
    CallsReturn
CHECK_DEADLOCK FALSE
