\* Timestamps may step back by one second.
SPECIFICATION Spec
CONSTANTS
    Signers = {s1}
    Programs = {p1, p2}
    NoSigner = NoSigner
    MinPrograms = 2
    Window = 1
    MaxSkew = 1
    Shapes <- ProbeOrTransfer
    MaxTime = 3
SYMMETRY Symmetry
INVARIANTS
    NoTouchLost
    NoMissedCorrelation
    PendingIsExact
    FiresSpaced
CHECK_DEADLOCK FALSE
