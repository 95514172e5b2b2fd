---------------------------- MODULE MCEventLoop -----------------------------
(***************************************************************************)
(* Two clients, an adapter that can hold the loop in canonical mode and a  *)
(* slave of an I2C bus, which cannot; no GPIO and no SPI bus, whose calls  *)
(* are refused or end the process.  Two descriptors, for which the adapter *)
(* and the slave compete and of which every UART that is opened uses one   *)
(* up for good.                                                            *)
(***************************************************************************)
EXTENDS EventLoop, TLC

CONSTANTS fd1, fd2

MCMap == [x \in {} |-> x]

MCFd == {fd1, fd2}
MCBspUartMux == MCMap
MCAdapter == {"ttyUSB0"}
MCUartName == {"ttyUSB0"}
MCUartNumbers == {-1, 7}
MCGpioName == {"gpio4"}
MCSpiBus == {}
MCSpiName == {"SPI00"}
MCMaxHz == 1
MCNumbers == {0}
MCNothing == {}
MCI2cBus == {"I2C1"}
MCI2cMux == [I2C1 |-> NoMux]
MCAddress == {1}
MCPin == {}

Req(method, canonical, number) ==
  [method |-> method, name |-> "ttyUSB0", canonical |-> canonical,
   number |-> number]

MCClient == {"a", "b"}
MCRequest == {Req("list", FALSE, 7),
              Req("open", TRUE, 7),
              Req("close", FALSE, 7),
              Req("read", FALSE, 7),
              Req("read", FALSE, -1),
              Req("write", FALSE, 7),
              Req("setBaudrate", FALSE, 7),
              Req("getBaudrate", FALSE, 7),
              Req("getPollingFd", FALSE, 7),
              Req("gpio", FALSE, 7),
              Req("spi", FALSE, 7),
              Req("i2c", FALSE, 7)}

\* The last answer is read by nobody: states that differ in it are one.
ViewOfLoop == <<baseVars, gpioVars, spiVars, i2cVars, uartVars, loopVars>>
=============================================================================
