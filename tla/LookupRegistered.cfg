SPECIFICATION Spec
CONSTANTS
  own = own
  longer = longer
  Key = {own, longer}
  Own = {own}
  MaxRev = 1
  MaxBreak = 0
  MaxErr = 0
CHECK_DEADLOCK FALSE
INVARIANT FindsRegistered
