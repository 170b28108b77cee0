SPECIFICATION FairSpec
CONSTANTS
    p1 = p1
    p2 = p2
    p3 = p3
    f1 = f1
    f2 = f2
    d1 = d1
    d2 = d2
    c1 = c1
    c2 = c2
    NoRow = NoRow
    NoPkg = NoPkg
    NoSource = NoSource
    Repo = {p1, p2, p3}
    Rust = {p1, p3}
    File = {f1, f2}
    Decl = {d1, d2}
    FileOf <- MCFileOf
    Source <- MCSource
    Manifests <- MCManifests
    Caller = {c1, c2}
    MayFail = {"check", "parse", "insert", "edges", "mark", "crash"}
    MaxSkipped = 1
    MaxCalls = 3
    MaxFailures = 1
INVARIANTS
    TypeOK
    MarkedIsStored
    StoredOnceWhenOrderly
PROPERTY
    CallsReturn
CHECK_DEADLOCK FALSE
