SPECIFICATION EventLoopSpec
CONSTANTS
  fd1 = fd1
  fd2 = fd2
  Fd <- MCFd
  BspUartMux <- MCBspUartMux
  Adapter <- MCAdapter
  UartName <- MCUartName
  UartNumbers <- MCUartNumbers
  GpioPin <- MCNothing
  GpioName <- MCGpioName
  GpioMux <- MCMap
  SpiBus <- MCSpiBus
  SpiName <- MCSpiName
  SpiMux <- MCMap
  MaxHz <- MCMaxHz
  SpiNumbers <- MCNumbers
  SpiLengths <- MCNumbers
  I2cBus <- MCI2cBus
  I2cName <- MCI2cBus
  I2cMux <- MCI2cMux
  Address <- MCAddress
  Slave <- MCAddress
  I2cNumbers <- MCNumbers
  Pin <- MCPin
  Group <- MCPin
  GroupPins <- MCMap
  Source <- MCPin
  SourceGroups <- MCMap
  MuxCallback <- MCPin
  Client <- MCClient
  Request <- MCRequest
CHECK_DEADLOCK TRUE
VIEW ViewOfLoop
PROPERTY
  RestartedAfterFailure
