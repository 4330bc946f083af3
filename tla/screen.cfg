SPECIFICATION Spec
CONSTANTS
  LOG_RING_SIZE = 3
  Terminals = {5, 8, 15}
  PrintAfter = 2
  MaxGap = 1
  MaxMembers = 3
  MaxMessages = 5
INVARIANTS TypeOK NoBlankLine LogIsExact StatusCatchesUp
CHECK_DEADLOCK FALSE
