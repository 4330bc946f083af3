SPECIFICATION Spec
CONSTANTS
  Node = {1, 2, 3, 4}
  Self = 2
  Addr = {a}
  NoAddr = none
  SuspectAfter = 1
  DeadAfter = 1
  MAX_GOSSIP_SIZE = 1
  Cleared = 2
  Infos <- MCInfos
INVARIANTS
  WitnessAlwaysAsked
CHECK_DEADLOCK FALSE
