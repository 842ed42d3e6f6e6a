SPECIFICATION Spec
CONSTANTS
  Node = {n1, n2, n3}
  NoNode = NoNode
INVARIANTS
  CycleIsReal
  NoCycleMissed
PROPERTIES
  DetectionEnds
CHECK_DEADLOCK FALSE
