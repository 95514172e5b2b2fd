SPECIFICATION I2cSpec
CONSTANTS
  fd1 = fd1
  fd2 = fd2
  fd3 = fd3
  Fd <- MCFd
  I2cBus <- MCI2cBus
  I2cName <- MCI2cName
  I2cMux <- MCI2cMux
  Address <- MCAddress
  Slave <- MCSlave
  I2cNumbers <- MCI2cNumbers
  Pin <- MCPin
  Group <- MCGroup
  GroupPins <- MCGroupPins
  Source <- MCGroup
  SourceGroups <- MCSourceGroups
  MuxCallback <- MCPin
SYMMETRY FdSymmetry
VIEW NoReply
CHECK_DEADLOCK TRUE
INVARIANTS
  I2cTypeOK
  I2cHandlesMatchDrivers
  I2cDriversOwnDescriptors
  I2cNoDescriptorLeaks
  I2cNoPinLeaks
PROPERTIES
  I2cFailureChangesNothing
