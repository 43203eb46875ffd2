CONSTANTS
    Workers = {w1, w2}
    NoOne = NoOne
    Foreign = Foreign
    Lba <- Three
    Root = 0
    Names = {"a", "b"}
    Volumes <- MCVolumes
    MaxCalls = 2
    MaxFaults = 1
    MaxPanics = 1
SPECIFICATION Spec
INVARIANTS
    TypeOK
    ReadsWhatItSought
    CacheIsTrue
    NothingFabricated
PROPERTIES
    Promises
    CallsBounded
    EveryCallReturns
CHECK_DEADLOCK FALSE
