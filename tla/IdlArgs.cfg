SPECIFICATION Spec
CONSTANTS
    Null = Null
    Junk = Junk
    Derived <- MCDerived
    Published <- MCPublished
    MaxCut = 9
    MaxNest = 5
    MaxItems = 2
INVARIANTS
    DecodesWhatWasEncoded
    WorkerAndTabAgree
    ColoursMatchTheLabel
CHECK_DEADLOCK FALSE
