SPECIFICATION FairSpec
CONSTANTS
  g1 = g1
  g2 = g2
  k1 = k1
  k2 = k2
  a = a
  b = b
  empty = empty
  nobody = nobody
  Client = {g1, g2}
  Key = {k1, k2}
  Value = {a, empty}
  Absent = empty
  Nobody = nobody
INVARIANT TypeOK
PROPERTIES RefinesRegister EveryCallReturns
