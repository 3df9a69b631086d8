SPECIFICATION CachingSpec
CONSTANTS
  Obj = {o1, o2}
  Rq = {r1, r2}
  Collectors = {gc1}
  Killers = {k1}
  NULL = NULL
  Pieces = 2
  InMemory = 1
  MaxFaults = 1
  Answers <- AnswersOfInterest
SYMMETRY Symmetry
INVARIANTS
  RefsExact
  ListsMatchChain
  PickedUsable
  ServedHasBody
  DroppedHasFile
  CountersCover
  
  SenderAwake
CHECK_DEADLOCK FALSE
