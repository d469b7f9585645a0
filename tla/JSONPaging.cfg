SPECIFICATION Spec
CONSTANTS
    Docs = {d1, d2, d3, d4}
    ShardCount = 2
    EnginePageSize = 4
    PageSize = 2
    MayFail = {}
INVARIANTS
    WalkIsComplete
CHECK_DEADLOCK FALSE
