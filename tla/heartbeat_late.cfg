SPECIFICATION Spec
CONSTANTS
  HEARTBEAT_INTERVAL = 1
  RECV_TIMEOUT = 2
  PRINT_INTERVAL = 1
  LOOKUP_TIME = 1
  SuspectAfter = 2
  DeadAfter = 8
INVARIANTS
  HeartbeatEverySecond
CHECK_DEADLOCK FALSE
