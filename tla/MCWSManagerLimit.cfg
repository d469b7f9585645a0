SPECIFICATION Spec
CONSTANTS
    Conns = {k1, k2}
    Requests = {r1}
    Broadcasts = {b1}
    MaxConns = 1
    SendCap = 1
    DrainMax = 1
    Welcome = Welcome
    None = None
INVARIANTS
    ConnectionLimit
CHECK_DEADLOCK FALSE
