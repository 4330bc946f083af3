SPECIFICATION Spec
CONSTANTS
  LittleEndian = TRUE
  MAX_PACKET_SIZE = 2048
  SizeofSockAddr = 128
  SizeofNodeInfo = 168
  SizeofEvent = 200
  MAX_GOSSIP_SIZE = 10
  Events <- MCEvents
  Commands <- MCCommands
INVARIANTS
  LittleEndianFormat
