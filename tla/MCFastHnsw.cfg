SPECIFICATION Spec
CONSTANTS
    MarkLimit = 3
    CosNum = 1527
    CosDen = 10000
    Draw <- MCDraw
    Level <- MCLevel
    Configs <- MCConfigs
    DataSets <- MCDataSets
INVARIANT WorkersChangeNothing
INVARIANT RebuildGivesTheSameGraph
INVARIANT CandidatesAreSound
INVARIANT BuiltIndexPersists
INVARIANT WideSearchIsExact
PROPERTY BuildsEnd
