SPECIFICATION UartSpec
CONSTANTS
  fd1 = fd1
  fd2 = fd2
  fd3 = fd3
  Fd <- MCFd
  BspUartMux <- MCBspUartMux
  Adapter <- MCAdapter
  UartName <- MCUartName
  UartNumbers <- MCUartNumbers
  Pin <- MCPin
  Group <- MCGroup
  GroupPins <- MCGroupPins
  Source <- MCGroup
  SourceGroups <- MCSourceGroups
  MuxCallback <- MCPin
SYMMETRY FdSymmetry
VIEW NoReply
CHECK_DEADLOCK TRUE
INVARIANTS
  UartTypeOK
  UartHandlesMatchDrivers
  UartDriversOwnDescriptors
  UartNoPinLeaks
PROPERTIES
  UartBaudOnlyByHolder
