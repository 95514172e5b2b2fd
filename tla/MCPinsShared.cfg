SPECIFICATION Spec
CONSTANTS
  fd1 = fd1
  fd2 = fd2
  Fd <- MCFd
  GpioPin <- MCGpioPin
  GpioName <- MCGpioPin
  GpioMux <- MCSharedPin
  SpiBus <- MCSpiBus
  SpiName <- MCSpiBus
  SpiMux <- MCSpiMux
  MaxHz <- MCMaxHz
  SpiNumbers <- MCSpiNumbers
  SpiLengths <- MCSpiLengths
  I2cBus <- MCI2cBus
  I2cName <- MCI2cBus
  I2cMux <- MCI2cMux
  Address <- MCAddress
  Slave <- MCAddress
  I2cNumbers <- MCI2cNumbers
  BspUartMux <- MCBspUartMux
  Adapter <- MCAdapter
  UartName <- MCUartName
  UartNumbers <- MCUartNumbers
  Pin <- MCPin
  Group <- MCGroup
  GroupPins <- MCGroupPins
  Source <- MCGroup
  SourceGroups <- MCSourceGroups
  MuxCallback <- MCNothing
CONSTRAINT OneMode
CHECK_DEADLOCK TRUE
INVARIANT
  PinsExclusive
