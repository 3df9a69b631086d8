SPECIFICATION Spec
CONSTANTS
  Obj = {o1}
  Rq = {r1}
  Collectors = {gc1}
  Killers = {k1}
  NULL = NULL
PROPERTY DeadStaysDead
CHECK_DEADLOCK FALSE
