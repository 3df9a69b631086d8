SPECIFICATION Spec
CONSTANTS
  r1 = r1
  r2 = r2
  NULL = NULL
  Rq = {r1, r2}
  ContentLength = 4
  MaxChunk = 2
  Ranges <- Halves4
  MaxFaults = 1
INVARIANTS
  BlocksSeparated
  CachedBytesOnDisk
  WaitersHaveWriter
  RefsCountFibers
  PublishedComplete
  OkMeansAll
  ReadersBehindWriter
SYMMETRY Symmetry
PROPERTY
  NothingForgotten
  SentBytesOnDisk
