SPECIFICATION Spec
CONSTANTS
    r1 = r1
    r2 = r2
    c1 = c1
    c2 = c2
    f1 = f1
    f2 = f2
    d1 = d1
    d2 = d2
    d3 = d3
    rust = rust
    python = python
    NoRow = NoRow
    NoDir = NoDir
    Repo = {r1, r2}
    File = {f1, f2}
    Decl = {d1, d2, d3}
    Lang = {rust}
    FileOf <- MCFileOf
    LangOf <- MCOneLang
    Trees <- MCTwoTrees
    Caller = {c1, c2}
    Tools = {"index_repo", "update_file_index", "remove_file_index"}
    ChunkSize = 1
    MaxSkipped = 1
    MaxCalls = 2
    OnePerRepo = TRUE
SYMMETRY Symmetry
INVARIANTS
    NoOrphanVectors
    NoDuplicates
PROPERTIES
    OtherReposUntouched
    RefinesAtomicIndex
CHECK_DEADLOCK FALSE
