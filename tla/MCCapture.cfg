CONSTANTS
    Paths = {a, n, u}
    Dirs = {d}
    DirOf <- OneDirectory
    Top = Top
    Commits = {c1, c2}
    TreeOf <- TwoCommits
    Ignored = {}
    Quote <- OneQuote
    Contents = {base, mine, big}
    Absent = Absent
    Branches = {main}
    Detached = Detached
    Large = {big}
    Binary = {big}
    None = None
    Torn = Torn
    MaxEdits = 2
    MaxRuns = 1
    a = a
    n = n
    u = u
    d = d
    uq = uq
    base = base
    mine = mine
    big = big
    c1 = c1
    c2 = c2
SPECIFICATION Spec
INVARIANTS
    CaptureInv
    EveryFileAccountedFor
    LossesShow
CHECK_DEADLOCK FALSE
