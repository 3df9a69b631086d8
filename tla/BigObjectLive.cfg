SPECIFICATION Spec
CONSTANTS
  r1 = r1
  r2 = r2
  r3 = r3
  NULL = NULL
  Rq = {r1, r2}
  ContentLength = 2
  MaxChunk = 1
  Ranges <- Starts2
  MaxFaults = 1
PROPERTY EveryRequestEnds
