SPECIFICATION FairPageSpec
CONSTANTS
  a = a  b = b  c = c  x = x
  File = {a, b, c}
  Chunks <- ChunksOne
  Threads = 2
  ChunkRetry = 2
  None = None
  MaxClicks = 0
  Existing = {x}
  Limit = 3
  MaxRemoves = 1
INVARIANTS CountAtMostListed
PROPERTIES ServedUnlessHeldUp
CHECK_DEADLOCK FALSE
