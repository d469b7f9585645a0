SPECIFICATION FairServingSpec
CONSTANTS
    r1 = r1
    r2 = r2
    b1 = b1
    Conns = {k1}
    Requests = {r1, r2}
    Broadcasts = {b1}
    MaxConns = 1
    SendCap = 1
    DrainMax = 1
    Welcome = Welcome
    None = None
    Looping = {r1, r2}
    MinSize = 0
    MaxSize = 1
    UsageCap = 1
    NoVM = NoVM
CONSTRAINT TwoAtOnce
INVARIANTS
    RepliesAreResults
PROPERTIES
    Manages
    TornDown
    RequestsSettle
    QueuedIsWritten
