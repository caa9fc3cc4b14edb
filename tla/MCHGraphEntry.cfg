CONSTANTS
    v1 = v1
    NoVector = NoVector
    Vectors = {v1}
    Labels = {0, 1, 2}
    Blank = 0
    MaxId = 3
    MaxDegree = 4
    RouteDegree = 2
    MaxLevel = 1
    ResizeStep = 1
    UseReverseEdges = TRUE
    RemoveModes = {"FORCE_REMOVE"}
SPECIFICATION Spec
INVARIANT EntryIsAPoint
