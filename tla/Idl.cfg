\* Every request may be an upload, a rejected upload or a delete.
SPECIFICATION FairSpec
CONSTANTS
    Monitored = {p1, p2}
    Bundled = {p2}
    Requests = {r1, r2}
    NoIdl = NoIdl
    NoProgram = NoProgram
INVARIANTS
    LoadedAfterInsert
    SerialAgreement
PROPERTY DiscoverySettles
CHECK_DEADLOCK FALSE
