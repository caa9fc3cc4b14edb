CONSTANTS
    v1 = v1
    v2 = v2
    NoVector = NoVector
    Vectors = {v1, v2}
    Labels = {0, 1, 2}
    Blank = 0
    MaxId = 3
    MaxDegree = 4
    RouteDegree = 2
    MaxLevel = 0
    ResizeStep = 3
    UseReverseEdges = TRUE
    RemoveModes = {"MARK_REMOVE", "FORCE_REMOVE"}
SPECIFICATION ApartSpec
CONSTRAINT EntryNeverLost
SYMMETRY VectorSymmetry
INVARIANT AllPointsReachable
INVARIANT CountIsExact
INVARIANT SearchReturnsEachLabelOnce
PROPERTY ImplementsStore
