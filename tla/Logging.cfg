SPECIFICATION FairSpec
CONSTANTS
  g1 = g1
  g2 = g2
  b1 = b1
  b2 = b2
  nobody = nobody
  Caller = {g1, g2}
  Buffer = {b1, b2}
  Capacity = 2
  MaxLine = 3
  Asked <- FiveCalls
  Nobody = nobody
INVARIANTS TypeOK LinesWhole FatalEndsIt
PROPERTY EveryCallReturns
CHECK_DEADLOCK FALSE
