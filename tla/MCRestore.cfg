CONSTANTS
    Paths = {a, n, ac, ac2, nc, nc2}
    Dirs = {d}
    DirOf <- InRoot
    Top = Top
    Commits = {c1, c2}
    SessionCommit = c1
    Tip = c2
    TreeOf <- TwoCommits
    Quote <- NothingQuoted
    Ignored = {}
    CopyName <- CopiesOf
    Copyable = {a, n}
    MaxCopies = 2
    Contents = {base, old, mine, theirs, theirs2, Torn}
    Absent = Absent
    Incoming <- ChangedAndNew
    LocalContents = {mine}
    EditPaths = {a, n, ac}
    Torn = Torn
    ConcurrentEdits = FALSE
    WriteFaults = TRUE
    MaxRuns = 2
    a = a
    n = n
    ac = ac
    ac2 = ac2
    nc = nc
    nc2 = nc2
    d = d
    u = u
    uc = uc
    uc2 = uc2
    base = base
    old = old
    mine = mine
    theirs = theirs
    theirs2 = theirs2
SPECIFICATION FairSpec
INVARIANTS
    RestoreInv
    RejectReproduces
    IncomingPreserved
    WritesAreChecked
PROPERTIES
    LocalWorkKept
    RestoreEnds
CHECK_DEADLOCK FALSE
