CONSTANTS
    v1 = v1
    NoVector = NoVector
    Vectors = {v1}
    Labels = {0, 1}
    Blank = 0
    MaxId = 3
    MaxDegree = 2
    RouteDegree = 1
    MaxLevel = 1
    ResizeStep = 1
    UseReverseEdges = TRUE
    RemoveModes = {"MARK_REMOVE", "FORCE_REMOVE"}
SPECIFICATION Spec
CONSTRAINT EntryDefined
INVARIANT TypeOK
INVARIANT LabelsPointBack
INVARIANT ReverseEdgesMirror
INVARIANT EdgesStayInside
INVARIANT EntryOnEveryLevel
INVARIANT ListsStayShort
