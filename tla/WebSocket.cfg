SPECIFICATION FairSpec
CONSTANTS
  MaxMsg = 3
  MaxReadErr = 3
INVARIANTS TypeOK AtMostOneLateReply WoundUp
PROPERTIES Ends
CHECK_DEADLOCK FALSE
