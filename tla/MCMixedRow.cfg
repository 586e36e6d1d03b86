SPECIFICATION ProxySpec
CONSTANTS
  file = file
  a = a
  b = b
  Request = {h1, g1, g2}
  Head = {h1}
  Key = {file}
  KeyOf <- MCKeyOf
  MaxVersion = 3
  EtagOf <- MCEtagOf
  NoEtag = NoEtag
  Normal <- MCNormal
  NoRow = NoRow
  Untyped = {1}
INVARIANT RowOfOneVersion
