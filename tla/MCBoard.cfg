SPECIFICATION BoardSpec
CONSTANTS
  p1 = p1
  p2 = p2
  s1 = s1
  s2 = s2
  PinName <- MCPinName
  SourceName <- MCSourceName
  DeviceName <- MCDeviceName
  Node <- MCNode
SYMMETRY NameSymmetry
CONSTRAINT OneKind
CHECK_DEADLOCK TRUE
INVARIANTS
  BoardTypeOK
  BoardClosed
PROPERTIES
  RegistrationsStay
  RefusedLeavesGroupAtMost
