SPECIFICATION Spec
CONSTANTS
    r1 = r1
    r2 = r2
    c1 = c1
    c2 = c2
    f1 = f1
    f2 = f2
    d1 = d1
    d2 = d2
    d3 = d3
    rust = rust
    python = python
    NoRow = NoRow
    NoDir = NoDir
    Repo = {r1}
    File = {f1, f2}
    Decl = {d1, d2, d3}
    Lang = {rust, python}
    FileOf <- MCFileOf
    LangOf <- MCLangOf
    Trees <- MCTrees
    Caller = {c1, c2}
    Tools = {"index_repo", "remove_file_index"}
    ChunkSize = 1
    MaxSkipped = 0
    MaxCalls = 2
    OnePerRepo = FALSE
INVARIANT
    NoOrphanVectors
CHECK_DEADLOCK FALSE
