SPECIFICATION FairSpec
CONSTANTS
  own = own
  longer = longer
  Key = {own, longer}
  Own = {own}
  MaxRev = 3
  MaxBreak = 1
  MaxErr = 1
CHECK_DEADLOCK FALSE
INVARIANTS TypeOK StaleOnlyAfterError
PROPERTIES StoppedReturnsNoList Converges StopUnblocks
