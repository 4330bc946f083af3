SPECIFICATION GrowingSpec
CONSTANT MaxView = 4
INVARIANTS
  AlwaysProbedInTime
