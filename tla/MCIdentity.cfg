CONSTANTS
    Makers = {m1, m2, m3}
    Users = {u1, u2}
    Faults = TRUE
    Absent = Absent
    Cut = Cut
    None = None
SPECIFICATION Spec
INVARIANTS
    OneIdentity
PROPERTIES
    WriteOnceSpec
CHECK_DEADLOCK FALSE
