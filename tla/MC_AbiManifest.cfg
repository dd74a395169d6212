SPECIFICATION Spec
CONSTANTS
    None = None
    Abi <- MCAbi
    Declarations <- MCDeclarations
    GateAbi <- Common
    Enums <- MCEnums
INVARIANTS
    TypeOK
    ShippedReadsAreExact
PROPERTIES
    OffsetsStayTheAbis
