SPECIFICATION FairSpec
CONSTANTS
    a1 = a1
    a2 = a2
    Address <- MCAddress
    Node <- MCNode
    Publishable <- MCPublishable
    MaxRevision = 4
    MaxDomain = 2
    MaxLog = 6
CHECK_DEADLOCK FALSE
INVARIANTS
    TypeOK
    MirrorNeverStale
    SubtreesNeverStale
    CaughtUpIsExact
PROPERTIES
    CatchesUp
