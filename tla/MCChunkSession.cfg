SPECIFICATION FairChunkSpec
CONSTANTS
  d1 = d1
  p1 = p1
  d2 = d2
  m1 = m1
  m2 = m2
  Asker = {d1, p1, d2}
  Prefetcher = {p1}
  CacheMap = {m1, m2}
  MapOf <- MCMapOf
  ChunkOf <- MCChunkOf
  ChunkSize = 2
  TotalSize = 6
  MaxAttempts = 2
  MaxAsks = 3
  MaxDamage = 1
  Verify = TRUE
  Packed <- MCPacked
  FileSizes = {2, 3, 6}
  None = None
  Mismatch = Mismatch
INVARIANTS
  ChunkTypeOK
  OneDownload
  RefetchRecovers
  StoredIsWhole
PROPERTY CallerReleased
CHECK_DEADLOCK FALSE
