SPECIFICATION Spec
CONSTANTS
    a1 = a1
    a2 = a2
    k1 = k1
    Address <- MCAddress
    Node <- MCNode
    Publishable <- MCPublishable
    Key <- MCKey
    Recipe <- MCRecipe
    Observations <- MCObservations
    Value <- MCValue
    MaxLog = 4
CHECK_DEADLOCK FALSE
INVARIANTS
    TypeOK
    NoFalseNegatives
PROPERTIES
    DropsOnlyTheDisturbed
