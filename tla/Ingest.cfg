SPECIFICATION Spec
CONSTANTS
    p = p
    q = q
    r = r
    NoProgram = NoProgram
    ProgramIds <- MCProgramIds
    Programs <- MCPrograms
    Shapes <- MCShapes
    Capacity = 1
    MaxBackoff = 3
    MaxTxs = 2
    MaxTroubles = 2
    MaxEdits = 1
INVARIANTS
    Accounted
    ComesThroughSubscriptions
PROPERTIES
    DeliversInOrder
    WaitsOnlyForTheNode
CHECK_DEADLOCK FALSE
