SPECIFICATION FairSpec
CONSTANTS
    r1 = r1
    f1 = f1
    f2 = f2
    a1 = a1
    a2 = a2
    d1 = d1
    d2 = d2
    d3 = d3
    w1 = w1
    w2 = w2
    c1 = c1
    c2 = c2
    NoRow = NoRow
    NoFile = NoFile
    NoWatcher = NoWatcher
    Repo = {r1}
    File = {f1, f2, a1, a2}
    Rel = {f1}
    Decl = {d1, d2}
    FileOf <- MCOneFileOf
    Abs <- MCOneAbs
    Versions <- MCOneFile
    Watcher = {w1, w2}
    Caller = {c1, c2}
    MaxEdits = 2
    MaxFailures = 1
INVARIANTS
    TypeOK
    NoChangeForgotten
    NoStrayWatcher
PROPERTIES
    ChangesReachIndex
    StoppedWatcherEnds
CHECK_DEADLOCK FALSE
