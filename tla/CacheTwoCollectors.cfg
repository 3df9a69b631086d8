SPECIFICATION Spec
CONSTANTS
  Obj = {o1}
  Rq = {r1}
  Collectors = {gc1, gc2}
  Killers = {k1}
  NULL = NULL
INVARIANT PickedUsable
CHECK_DEADLOCK FALSE
