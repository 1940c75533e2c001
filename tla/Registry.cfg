SPECIFICATION FairSpec
CONSTANTS
  s1 = s1
  k1 = k1
  Service = {s1}
  Key = {k1}
  KeyOf <- OneKey
  MaxRetry = 2
  MaxHeartbeat = 2
  MaxLease = 3
  MaxFault = 1
  MaxStop = 1
  OneRegistration = TRUE
CHECK_DEADLOCK FALSE
INVARIANTS TypeOK HeartbeatStoppable ContentIsListed ReturnsOnlyToExpire
PROPERTIES RefinesPresence Recovers GhostsDrain
