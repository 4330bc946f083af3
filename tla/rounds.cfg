SPECIFICATION Spec
CONSTANT MaxView = 3
INVARIANTS
  TypeOK
  ProbedInTime
  ShuffleIsFair
PROPERTIES
  RoundsOK
