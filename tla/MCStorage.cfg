SPECIFICATION StorageSpec
CONSTANTS
    Clients = {c1, c2, c3}
    Shards <- MCShards
    getShard <- MCgetShard
    BulkLen = 3
    BatchSize = 2
    MaxTime = 1
    MaxCrashes = 1
    NoRow = NoRow
    Calls = {c1, c2, c3}
    Keys = {k1, k2}
    MaxSize = 1
    DefaultTTL = 1
    TTLs = {0, 1}
    MaxNow = 2
    Nil = Nil
INVARIANTS
    TypeOK
    CreatedIsUsable
    CreatedOnce
    InsertedIsDurable
    DeletedStaysDeleted
    CountExact
    SizeBound
    FreshOrNothing
PROPERTIES
    SomeUpdateSurvives
    Stores
SYMMETRY Symmetry
CHECK_DEADLOCK FALSE
