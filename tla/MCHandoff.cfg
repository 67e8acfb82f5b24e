CONSTANTS
    Items = {f, g, h, dir, gone, url}
    Files = {f, h}
    Lists <- SmallLists
    Openable = {f, g, dir, url}
    NoFile = NoFile
    Contents = {one, two}
    Absent = Absent
    Torn = Torn
    Missing = Missing
    Unsigned = Unsigned
    Keys = {own, other}
    Own = own
    MaxWrites = 1
    f = f
    g = g
    h = h
    dir = dir
    gone = gone
    url = url
    own = own
    other = other
    one = one
    two = two
SYMMETRY Swap
SPECIFICATION Spec
INVARIANTS
    HandoffInv
    ArrivesAsCaptured
    SoundIsAccepted
    NoStateLost
    StatesReplaced
    OpenedAsCaptured
    RefusalExplained
