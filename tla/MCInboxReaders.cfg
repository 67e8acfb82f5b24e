CONSTANTS
    Runs = {r1, r2}
    Sessions = {s1, s2}
    Oversized = {}
    BaseOf <- OneStem
    CapturedAt <- Clock
    Readers = {p1}
    Listeners = {l1, l2}
    Inboxes = {i1, i2}
    InboxOf <- OwnInbox
    MaxAttempts = 2
    Recording = TRUE
    IOFaults = TRUE
    Absent = Absent
    Partial = Partial
    Refused = Refused
    None = None
    s1 = s1
    s2 = s2
    l1 = l1
    l2 = l2
    i1 = i1
    i2 = i2
SPECIFICATION ReadersSpec
INVARIANTS
    ReadersInv
    ListIsComplete
    LatestIsNotOlder
    OpenedIsWhatWasListed
    ChosenIsReadable
