CONSTANTS
    Ids = {a, b, c, d, e}
    Labels = {l}
    NoId = NoId
SPECIFICATION FreshSpec
CHECK_DEADLOCK FALSE
INVARIANTS
    SInv
    LineageReachesRoot
