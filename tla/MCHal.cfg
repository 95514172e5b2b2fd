SPECIFICATION HalSpec
CONSTANTS
  Adapter <- MCAdapter
  PinName <- MCPinName
  SourceName <- MCSourceName
  DeviceName <- MCDeviceName
  Node <- MCNode
CHECK_DEADLOCK TRUE
INVARIANTS
  HalMuxesResolve
  HalPinsApart
