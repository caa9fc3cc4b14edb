CONSTANTS
    t1 = t1
    t2 = t2
    v1 = v1
    v2 = v2
    NoVector = NoVector
    NoLabel = NoLabel
    Threads <- MCThreads
    Vectors <- MCVectors
    Labels = {0, 1}
    Blank = 0
    MaxId = 3
    RemoveModes = {"FORCE_REMOVE"}
SPECIFICATION Spec
PROPERTY ForceRemoveKeepsOthers
