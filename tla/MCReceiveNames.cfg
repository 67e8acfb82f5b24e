CONSTANTS
    Runs = {r1, r2, r3}
    Sessions = {s1, s2}
    Oversized = {s2}
    BaseOf <- OneStem
    Listeners = {l1}
    Inboxes = {i1}
    InboxOf <- OneInbox
    MaxAttempts = 2
    Recording = TRUE
    IOFaults = FALSE
    Absent = Absent
    Partial = Partial
    Refused = Refused
    None = None
    s1 = s1
    s2 = s2
    s3 = s3
    l1 = l1
    l2 = l2
    i1 = i1
    i2 = i2
SPECIFICATION FairSpec
INVARIANTS
    NoSpuriousRefusal
PROPERTIES
    EverySendAnswered
