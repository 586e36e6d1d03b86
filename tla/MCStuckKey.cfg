SPECIFICATION Spec
CONSTANTS
  r1 = r1
  r2 = r2
  r3 = r3
  file = file
  a = a
  weakA = weakA
  b = b
  Request = {r1, r2, r3}
  Head = {r1, r2, r3}
  Key = {file}
  KeyOf <- MCKeyOf
  MaxVersion = 4
  EtagOf <- MCEtagOf
  NoEtag = NoEtag
  Normal <- MCNormal
  NoRow = NoRow
INVARIANT NoStuckKey
