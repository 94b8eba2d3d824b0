SPECIFICATION FairSpec
CONSTANTS
  a = a  b = b
  File = {a, b}
  Chunks <- ChunksMixed
  Threads = 2
  ChunkRetry = 1
  None = None
  MaxClicks = 2
INVARIANTS TypeOK SlotLimit SlotsHeld CompleteMeansAnswered CutFresh RestIsDone
PROPERTIES OutcomesStay NoFileHangs
CHECK_DEADLOCK FALSE
