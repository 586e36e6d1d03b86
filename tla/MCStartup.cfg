SPECIFICATION StartSpec
CONSTANTS
  n1 = n1
  r1 = r1
  d1 = d1
  d2 = d2
  t1 = t1
  t2 = t2
  t3 = t3
  Name = {n1}
  Repo = {r1}
  RepoOf <- MCRepoOf
  Sha = {s1}
  MaxFileId = 1
  MaxIndex = 1
  NoName = NoName
  NoSha = NoSha
  Daemon = {d1, d2}
  Setups <- MCSetups
  MaxStarts = 3
  Token = {t1, t2, t3}
  TokenFile = {"admin.token", "other.token"}
SYMMETRY MCSymmetry
INVARIANTS
  StartTypeOK
  SettingsLayered
  ControlFindsToken
  OldBlobsServed
  RefCountNeverLow
  RepairedIsExact
CHECK_DEADLOCK FALSE
