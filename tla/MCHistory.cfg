CONSTANTS
    Handlers = {h1, h2, h3, h4}
    Id <- MCId
    Base = 2
    Places = 2
    Weight <- MCWeight
    MaxTime = 5
    Default = 20
    Limits <- MCLimits
    None = None
    h1 = h1
    h2 = h2
    h3 = h3
    h4 = h4
SYMMETRY Swap
SPECIFICATION Spec
INVARIANTS
    NewestFirst
    CutIsOlder
CHECK_DEADLOCK FALSE
