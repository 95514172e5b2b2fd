SPECIFICATION SpiSpec
CONSTANTS
  fd1 = fd1
  fd2 = fd2
  Fd <- MCFd
  SpiBus <- MCSpiBus
  SpiName <- MCSpiName
  SpiMux <- MCSpiMux
  MaxHz <- MCMaxHz
  SpiNumbers <- MCSpiNumbers
  SpiLengths <- MCSpiLengths
  Pin <- MCPin
  Group <- MCGroup
  GroupPins <- MCGroupPins
  Source <- MCGroup
  SourceGroups <- MCSourceGroups
  MuxCallback <- MCCallback
SYMMETRY FdSymmetry
VIEW NoReply
CHECK_DEADLOCK TRUE
INVARIANTS
  SpiTypeOK
  SpiHandlesMatchDrivers
  SpiDriversOwnDescriptors
  SpiSpeedCapped
PROPERTIES
  SpiChipOnlyByHolder
  SpiFailureChangesNothing
