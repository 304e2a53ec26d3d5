\* Two clients beside the worker; either may hang up.
SPECIFICATION FairSpec
CONSTANTS
    Programs = {p1}
    Boot = {p1}
    Clients = {c1, c2}
    Capacity = 1
    MaxTxs = 3
INVARIANTS
    WindowsFollowPrograms
    Accounted
    StoredBeforePublished
    AlertsMatchFeed
PROPERTY EverythingEnds
CHECK_DEADLOCK FALSE
