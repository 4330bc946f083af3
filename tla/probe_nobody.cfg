SPECIFICATION Spec
CONSTANT MaxView = 2
PROPERTIES
  NobodyMeansNobody
