CONSTANTS
    Devices = {d1, d2}
    Commands = {c1, c2, c3, c4}
    Listeners = {l1, l2}
    Faults = TRUE
    Absent = Absent
    Unreadable = Unreadable
    None = None
SPECIFICATION Spec
INVARIANTS
    SettledStays
    ListenersFollow
    TrustInv
SYMMETRY Symmetry
CHECK_DEADLOCK FALSE
