SPECIFICATION Spec
CONSTANTS
    Address <- MCAddress
    Node <- MCNode
    Line <- MCLine
    Blank <- MCBlank
    Sources <- MCSources
    CharsOf <- MCCharsOf
    Ink <- MCInk
    MaxId = 4
    MaxRevision = 3
CHECK_DEADLOCK FALSE
INVARIANTS
    TypeOK
    RetiredStaysRetired
    RecordsAreTheTree
    BoxesFollowTheTree
    CaretFindsItsLine
    OffsetsConvertOrAreRefused
PROPERTIES
    AdaptingAgainIsNoOp
