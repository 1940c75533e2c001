SPECIFICATION FairSpec
CONSTANTS
  c1 = c1
  c2 = c2
  k1 = k1
  k2 = k2
  a = a
  b = b
  empty = empty
  Client = {c1, c2}
  Key = {k1, k2}
  Value = {a, empty}
  Absent = empty
  KeysOf <- OwnKeys
  Expiring = {k2}
  PoolSize = 2
  MaxFault = 2
INVARIANT TypeOK
PROPERTIES RefinesRegister EveryCallReturns
