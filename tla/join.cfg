SPECIFICATION Spec
CONSTANTS
  a1 = a1
  a2 = a2
  a3 = a3
  Node = {1, 2, 3}
  Addr = {a1, a2, a3}
  NoAddr = NoAddr
  AddrOf <- OwnAddress
  Seeds <- ChainSeed
  Mortal = {}
  Leavers = {}
  SuspectAfter = 1
  DeadAfter = 1
  MAX_GOSSIP_SIZE = 2
  HEARTBEAT_INTERVAL = 0
  MAXPINGREQ = 2
  MAXLEAVE = 1
  MaxIncarnation = 2
  MaxLifetime = 2
  MaxDatagrams = 4
INVARIANTS
  NeverInOwnView
  AddressIsTrue
PROPERTIES
  RefutationOutranks
