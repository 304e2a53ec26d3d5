\* A ring of one event, a buffer of two alerts, and three events in all.
SPECIFICATION FairSpec
CONSTANTS
    Programs = {p1, p2}
    Ring = 1
    Capacity = 2
    MaxSent = 3
    MaxCommands = 2
INVARIANTS
    RecentIsTheTail
    WantedAreDelivered
PROPERTY RecorderCatchesUp
CHECK_DEADLOCK FALSE
