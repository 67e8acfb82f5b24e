CONSTANTS
    Paths = {a, n, nc, nc2, u, uc, uc2}
    Dirs = {d}
    DirOf <- UInDirectory
    Top = Top
    Commits = {c1, c2}
    SessionCommit = c1
    Tip = c2
    TreeOf <- TwoCommits
    Quote <- NothingQuoted
    Ignored = {n}
    CopyName <- CopiesOf
    Copyable = {u, n}
    MaxCopies = 2
    Contents = {base, old, mine, theirs, theirs2, Torn}
    Absent = Absent
    Incoming <- AddedFiles
    LocalContents = {mine}
    EditPaths = {u, n}
    Torn = Torn
    ConcurrentEdits = FALSE
    WriteFaults = FALSE
    MaxRuns = 1
    a = a
    n = n
    ac = ac
    ac2 = ac2
    nc = nc
    nc2 = nc2
    d = d
    u = u
    uc = uc
    uc2 = uc2
    base = base
    old = old
    mine = mine
    theirs = theirs
    theirs2 = theirs2
SPECIFICATION Spec
PROPERTIES
    LocalWorkKept
CHECK_DEADLOCK FALSE
