SPECIFICATION Spec
CONSTANTS
  c1 = c1
  Call = {c1}
  Size = {0, 1, 5, 20}
  Skew <- ClockSkews
  NewCode <- OneCode
  Status = {200, 0}
  Range <- Ranges
  Tolerance = 4
  MaxNow = 11
CHECK_DEADLOCK FALSE
INVARIANT WithinLimit
