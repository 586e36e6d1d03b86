SPECIFICATION FairCachedSpec
CONSTANTS
  ChunkSize = 2
  TotalSize = 9
  Asked <- MCAsked
  Depth = 2
  Capacity = 2
  s1 = s1
  s2 = s2
  Sha = {s1, s2}
  ShaOf <- MCShaOf
INVARIANTS
  CachedTypeOK
  QueueInOrder
  ReadsBounded
PROPERTIES
  ImplementsRangeStream
  StreamEnds
CHECK_DEADLOCK FALSE
