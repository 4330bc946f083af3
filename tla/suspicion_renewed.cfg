SPECIFICATION FormedSpec
CONSTANTS
  a1 = a1
  a2 = a2
  a3 = a3
  Node = {1, 2, 3}
  Addr = {a1, a2, a3}
  NoAddr = NoAddr
  AddrOf <- OwnAddress
  Seeds <- AnySeed
  Mortal = {3}
  Leavers = {}
  SuspectAfter = 1
  DeadAfter = 3
  MAX_GOSSIP_SIZE = 3
  HEARTBEAT_INTERVAL = 0
  MAXPINGREQ = 2
  MAXLEAVE = 1
  MaxIncarnation = 1
  MaxLifetime = 3
  MaxDatagrams = 2
PROPERTIES SuspicionKeepsItsTime
