\* Block times in any order, up to two seconds behind the clock.
SPECIFICATION WindowsSpec
CONSTANTS
    MaxAge = 1
    Scan = 2
    Programs = {p1, p2}
    Shapes <- TwoShapes
    MaxLate = 2
    BucketSizes <- AnyInterval
    Limits = {1, 2}
    MaxTime = 3
    MaxArrivals = 4
INVARIANTS
    WindowIsTheLive
    TimeseriesSplitsSummary
    QueriesMissOnlyTheOld
SYMMETRY Symmetry
CHECK_DEADLOCK FALSE
