CONSTANTS
    t1 = t1
    t2 = t2
    o1 = o1
    o2 = o2
    o3 = o3
    o4 = o4
    NoThread = NoThread
    NoObject = NoObject
    Threads <- MCThreads
    Objects <- MCObjects
    Ids = {0, 1}
    K = 2
    TagMax = 2
SYMMETRY MCSymmetry
SPECIFICATION Spec
INVARIANT TypeOK
INVARIANT ExclusiveLists
INVARIANT VisitedIsFresh
INVARIANT BoundedLists
