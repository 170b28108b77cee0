SPECIFICATION Spec
CONSTANTS
    r1 = r1
    r2 = r2
    c1 = c1
    c2 = c2
    f1 = f1
    d1 = d1
    d2 = d2
    NoRow = NoRow
    NoDir = NoDir
    AllRepos = AllRepos
    NoText = NoText
    Repo = {r1, r2}
    File = {f1}
    Decl = {d1, d2}
    FileOf <- MCFileOf
    Tree <- MCTree
    Callees <- MCCallees
    Caller = {c1, c2}
    TopK = 1
    Limit = 1
    MayFail = {"net"}
    MaxJobs = 3
    MaxFailures = 1
    MaxNetFailures = 2
    MaxSkipped = 1
SYMMETRY Symmetry
INVARIANTS
    TypeOK
    SemanticHitsAreOfTheirText
    UndisturbedAnalysisAnswers
    IndexesBelongToClones
    ClonesAreListed
PROPERTY
    NeverReusesUnfinishedClone
CHECK_DEADLOCK FALSE
