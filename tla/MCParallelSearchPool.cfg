CONSTANTS
    s1 = s1
    s2 = s2
    Searches = {s1, s2}
    Points <- MCPoints
    Neighbors <- MCLists
    QueriesOf <- MCQueries
    Ep = 0
    TopK = 2
    Radius = 3
    NumThreads = 2
    PoolSize = 2
    QueueSize = 8
    MaxLine = 4
SPECIFICATION Spec
CHECK_DEADLOCK FALSE
PROPERTY EverySearchReturns
