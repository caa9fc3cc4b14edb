CONSTANTS
    MaxId = 4
    Levels = 4
    TopOf <- MCTopOf
    MaxDegree = 2
    RouteDegree = 1
    UseReverseEdges = TRUE
SPECIFICATION Spec
INVARIANT TypeOK
INVARIANT NoStaleCopy
INVARIANT NoDoubleEdge
INVARIANT DegreesBounded
INVARIANT NoWaitCycle
PROPERTY EveryAddReturns
