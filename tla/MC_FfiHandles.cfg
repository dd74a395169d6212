SPECIFICATION Spec
CONSTANTS
    Address <- MCAddress
    Node <- MCNode
    Writes <- MCWrites
    Record = {r1, r2, r3, r4, r5}
    Cell = {c1, c2}
    Handle = {h1, h2, h3}
    DeltaHandle = {d1}
    Field = {"text", "children"}
    MaxRevision = 4
    None = None
SYMMETRY Symmetry
CHECK_DEADLOCK FALSE
INVARIANTS
    TypeOK
    CountIsHandles
    ViewReadsItsRecord
    EntriesNameTheDifference
PROPERTIES
    HandlesAreATable
