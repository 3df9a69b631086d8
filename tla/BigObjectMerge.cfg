SPECIFICATION Spec
CONSTANTS
  Rq = {r1, r2}
  NULL = NULL
  ContentLength = 3
  MaxChunk = 2
  Ranges <- RangesOf3
  MaxFaults = 0
INVARIANT WriterFindsBlock
