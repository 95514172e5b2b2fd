SPECIFICATION GpioSpec
CONSTANTS
  fd1 = fd1
  fd2 = fd2
  fd3 = fd3
  Fd <- MCFd
  GpioPin <- MCGpioPin
  GpioName <- MCGpioName
  GpioMux <- MCGpioMux
  Pin <- MCPin
  Group <- MCNothing
  GroupPins <- MCGroupPins
  Source <- MCNothing
  SourceGroups <- MCGroupPins
  MuxCallback <- MCNothing
SYMMETRY FdSymmetry
CHECK_DEADLOCK TRUE
INVARIANTS
  GpioTypeOK
  GpioHandlesMatchDrivers
  GpioDriversOwnDescriptors
  GpioReopenable
  GpioPinsHeld
PROPERTIES
  GpioLineOnlyByHolder
