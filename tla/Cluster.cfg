\* Timestamps may step back by up to two seconds.
SPECIFICATION Spec
CONSTANTS
    Signers = {s1, s2}
    NoSigner = NoSigner
    FailureThreshold = 2
    Window = 2
    MaxSkew = 2
    MaxTime = 4
    MaxFailures = 3
INVARIANTS
    AlertIffCluster
    NoFailureLost
CHECK_DEADLOCK FALSE
