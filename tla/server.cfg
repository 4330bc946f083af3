SPECIFICATION FairSpec
CONSTANTS
  HEARTBEAT_INTERVAL = 1
  RECV_TIMEOUT = 2
  PRINT_INTERVAL = 1
  LOOKUP_TIME = 1
  SuspectAfter = 2
  DeadAfter = 8
INVARIANTS
  TypeOK
  HeartbeatInTime
  StopInTime
  DetectedInTime
PROPERTIES
  StopIsObeyed
CHECK_DEADLOCK FALSE
