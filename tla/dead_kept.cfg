SPECIFICATION FairSpec
CONSTANTS
  a1 = a1
  a2 = a2
  a3 = a3
  Node = {1, 2}
  Addr = {a1, a2}
  NoAddr = NoAddr
  AddrOf <- PairAddress
  Seeds <- AnySeed
  Mortal = {2}
  Leavers = {1}
  SuspectAfter = 1
  DeadAfter = 2
  MAX_GOSSIP_SIZE = 1
  HEARTBEAT_INTERVAL = 0
  MAXPINGREQ = 2
  MAXLEAVE = 1
  MaxIncarnation = 1
  MaxLifetime = 2
  MaxDatagrams = 2
PROPERTIES DeadIsCleanedUp
