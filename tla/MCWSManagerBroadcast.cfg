SPECIFICATION Spec
CONSTANTS
    Conns = {k1, k2}
    Requests = {r1}
    Broadcasts = {b1}
    MaxConns = 2
    SendCap = 1
    DrainMax = 1
    Welcome = Welcome
    None = None
INVARIANTS
    BroadcastNeverPanics
CHECK_DEADLOCK FALSE
