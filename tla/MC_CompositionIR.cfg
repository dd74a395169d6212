SPECIFICATION Spec
CONSTANTS
    a1 = a1
    a2 = a2
    a3 = a3
    f1 = f1
    b1 = b1
    b2 = b2
    r1 = r1
    m1 = m1
    Address <- MCAddress
    Foreign <- MCForeign
    Precedes <- MCPrecedes
    Node <- MCNode
    Opening <- MCOpening
    Builder <- MCBuilder
    Rect <- MCRect
    Move <- MCMove
    Home = Home
    MaxRevision = 3
    MaxEdits = 2
    MaxCommits = 2
CHECK_DEADLOCK FALSE
SYMMETRY Interchangeable
INVARIANTS
    TypeOK
    MembershipLaw
    SubtreeEqIsTheWalk
    DeltasCompose
    RevisionMeansDifference
    AppliesToItsBaseAlone
    ForeignChildrenAreNamed
    OverflowNeedsPublishedLoop
PROPERTIES
    RetainedUnchanged
    NoOpLosesNothing
