SPECIFICATION Spec
CONSTANTS
  c1 = c1
  c2 = c2
  k1 = k1
  k2 = k2
  a = a
  b = b
  empty = empty
  Client = {c1, c2}
  Key = {k1}
  Value = {a, b, empty}
  Absent = empty
  KeysOf <- SharedKey
  Expiring = {}
  PoolSize = 2
  MaxFault = 0
PROPERTY UpdatesOnlySrc
