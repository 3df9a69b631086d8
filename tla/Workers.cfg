CONSTANTS
    VP = {v1, v2, v3}
    Rq = {r1, r2, r3}
    NULL = NULL
    Names = {"f", "g"}
    Req = {r1, r2, r3}
    None = None
    Plans <- DavPlans
    Units = 2
    MaxFaults = 1
SPECIFICATION WorkersSpec
SYMMETRY Symmetry
CHECK_DEADLOCK FALSE
INVARIANTS
    RefsExact
    WaitersHaveStarter
    PooledOnHasChild
PROPERTY
    ChangesEntitled
