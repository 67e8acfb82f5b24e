CONSTANTS
    Runs = {r1, r2}
    Sessions = {s1, s2}
    Oversized = {}
    BaseOf <- OneStem
    Listeners = {l1, l2}
    Inboxes = {i1, i2}
    InboxOf <- OwnInbox
    MaxAttempts = 2
    Recording = TRUE
    IOFaults = FALSE
    Absent = Absent
    Partial = Partial
    Refused = Refused
    None = None
    s1 = s1
    s2 = s2
    s3 = s3
    l1 = l1
    l2 = l2
    i1 = i1
    i2 = i2
SPECIFICATION Spec
PROPERTIES
    HistoryDurable
