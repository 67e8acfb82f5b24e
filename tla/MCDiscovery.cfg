CONSTANTS
    Entries <- MCEntries
    Instance <- MCInstance
    TxtName <- MCTxtName
    Fingerprint <- MCFingerprint
    Address <- MCAddress
    Capacity = 4
SPECIFICATION Spec
INVARIANTS
    DiscoveryInv
    HeardIsListed
PROPERTY
    LookupEnds
CHECK_DEADLOCK FALSE
