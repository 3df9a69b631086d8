SPECIFICATION ServingSpec
CONSTANTS
  Obj = {o1}
  Req = {r1, r2}
  Sources <- PathSources
  MaxWorker = 1
  Rooms = {0, 1}
  Rq = {r1}
  Configs <- NodeLists
  MaxErrors = 1
  MaxReloads = 1
  MaxFaults = 1
  Collectors = {gc1}
  Killers = {k1}
  NULL = NULL
  VP = {v1, v2}
  r1 = r1
  r2 = r2
INVARIANTS
  KidsOwned
  
  PlacesUsed
  
  NodesHeldWhileUsed
  
PROPERTIES
  EveryWaitEnds
CHECK_DEADLOCK FALSE
