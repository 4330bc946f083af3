SPECIFICATION StrangersSpec
CONSTANTS
  a1 = a1
  a2 = a2
  a3 = a3
  Node = {1, 2, 3, 4}
  Addr = {11, 12, 13, 14}
  NoAddr = 0
  AddrOf <- FourAddress
  Seeds <- SecondSeed
  Mortal = {}
  Leavers = {}
  SuspectAfter = 1
  DeadAfter = 2
  MAX_GOSSIP_SIZE = 1
  HEARTBEAT_INTERVAL = 0
  MAXPINGREQ = 2
  MAXLEAVE = 1
  MaxIncarnation = 0
  MaxLifetime = 0
  MaxDatagrams = 6
INVARIANTS
  AddressIsTrue
