SPECIFICATION SessionSpec
CONSTANTS
  Client = {c1, c2}
  Ranges <- MCRanges
  ChunkSize = 2
  TotalSize = 5
  BudgetBase = 1
  Capacity = 1
  MaxActor = 2
INVARIANT InOrder
CHECK_DEADLOCK FALSE
