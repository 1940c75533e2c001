SPECIFICATION FairSpec
CONSTANTS
  m1 = m1
  m2 = m2
  m3 = m3
  Message = {m1, m2, m3}
  Capacity = 1
  Environment <- ConfEnvironment
  Word = 8192
  MaxInt = 16383
  Number <- ConfNumber
CHECK_DEADLOCK FALSE
INVARIANTS TypeOK SettingsAgree
PROPERTIES OutcomesFlow
