CONSTANTS
    VP = {v1, v2, v3, v4}
    Rq = {r1, r2, r3}
    NULL = NULL
SPECIFICATION Spec
CHECK_DEADLOCK FALSE
INVARIANT
    StartedOnce
