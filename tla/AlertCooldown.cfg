\* Clients edit the rules while the engine runs; the clock may step back.
SPECIFICATION Spec
CONSTANTS
    MaxAge = 1
    Programs = {"p1"}
    Rules <- ThreeRules
    Txs <- OneTx
    Cooldown = 2
    MaxStepBack = 1
    MaxTime = 2
    MaxRules = 2
    MaxTxs = 1
INVARIANTS
    EventsCooledDown
    TickIsComplete
CHECK_DEADLOCK FALSE
