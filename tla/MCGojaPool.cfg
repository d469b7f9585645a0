SPECIFICATION FairSpec
CONSTANTS
    c1 = c1
    c2 = c2
    c3 = c3
    Calls = {c1, c2, c3}
    Looping = {c3}
    MinSize = 1
    MaxSize = 2
    UsageCap = 1
    NoVM = NoVM
INVARIANTS
    TypeOK
    ExclusiveVM
    Accounting
    WornOutLeaves
    OneTimeoutPerTimer
PROPERTIES
    Allocates
    EveryCallReturns
    IdleEvicted
CONSTRAINT InOrder
