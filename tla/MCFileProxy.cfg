SPECIFICATION FairProxySpec
CONSTANTS
  file = file
  a = a
  b = b
  Request = {h1, h2, g1}
  Head = {h1, h2}
  Key = {file}
  KeyOf <- MCKeyOf
  MaxVersion = 3
  EtagOf <- MCEtagOf
  NoEtag = NoEtag
  Normal <- MCNormal
  NoRow = NoRow
  Untyped = {1}
INVARIANTS
  ProxyTypeOK
  HitIsVouchedFor
PROPERTY EveryRequestAnswered
