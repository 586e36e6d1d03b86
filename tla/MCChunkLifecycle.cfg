SPECIFICATION FairLifeSpec
CONSTANTS
  n1 = n1
  n2 = n2
  r1 = r1
  r2 = r2
  Name = {n1, n2}
  Repo = {r1, r2}
  RepoOf <- MCRepoOf
  Sha = {s1, s2}
  MaxFileId = 2
  MaxIndex = 0
  NoName = NoName
  NoSha = NoSha
  Writer = {w1}
  Worker = {c1}
  BatchSize = 1
  MaxSize = 1
  MaxEvents = 2
INVARIANTS
  LifeTypeOK
  BlobKept
  RefCountExact
  LinksResolve
  OrphanUnreferenced
PROPERTIES
  ImplementsCatalog
  LastLinkMarked
  LinkKeepsNewest
  EvictionEnds
