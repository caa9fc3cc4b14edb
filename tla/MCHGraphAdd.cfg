CONSTANTS
    t1 = t1
    t2 = t2
    l1 = l1
    l2 = l2
    v1 = v1
    NoVector = NoVector
    NoThread = NoThread
    Threads <- MCThreads
    Labels <- MCLabels
    Vectors = {v1}
    Blank = Blank
    MaxId = 3
    MaxDegree = 4
    RouteDegree = 2
    MaxLevel = 1
    ResizeStep = 3
    UseReverseEdges = TRUE
    RemoveModes = {"MARK_REMOVE"}
SYMMETRY MCSymmetry
SPECIFICATION AddSpec
INVARIANT EntryOnEveryLevel
INVARIANT VisiblePointsAreComplete
INVARIANT QuietPointsAreReachable
INVARIANT SomeAddCanGoOn
