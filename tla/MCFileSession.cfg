SPECIFICATION FairSessionSpec
CONSTANTS
  Client = {c1, c2}
  Ranges <- MCRanges
  ChunkSize = 2
  TotalSize = 5
  BudgetBase = 1
  Capacity = 1
  MaxActor = 2
INVARIANTS
  SessionTypeOK
  AloneComplete
  NoByteTwice
PROPERTIES
  AloneStreams
  StreamsEnd
CHECK_DEADLOCK FALSE
