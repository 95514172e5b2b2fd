---------------------- MODULE PeripheralManagerProofs -----------------------
(***************************************************************************)
(* The four kinds of devices together, over one descriptor table and one   *)
(* registry of pins, for every board, any names and any number of          *)
(* descriptors: each kind's invariant survives the steps of the others,    *)
(* because a step changes only descriptors of its own kind of file.        *)
(***************************************************************************)
EXTENDS PeripheralManager, GpioProofs, SpiProofs, I2cProofs, UartProofs

PmInv == GpioInv /\ SpiInv /\ I2cInv /\ UartInv

\* Every open file but those of these kinds is left as it is.
FilesBut(kinds) ==
  \A fd \in DOMAIN fdTable :
    fdTable[fd][1] \notin kinds => /\ fd \in DOMAIN fdTable'
                                  /\ fdTable'[fd] = fdTable[fd]

\* A call that opens, closes or fails to open no device.
GpioQuiet == UNCHANGED <<fdTable, inUse, gpioDriver, gpios>>
SpiQuiet == UNCHANGED <<fdTable, inUse, spis>> /\ DOMAIN spiDriver' = DOMAIN spiDriver
              /\ \A bus \in DOMAIN spiDriver : spiDriver'[bus].fd = spiDriver[bus].fd
I2cQuiet == UNCHANGED <<fdTable, inUse, i2cDriver, i2cs>>
UartQuiet == UNCHANGED <<fdTable, inUse, uartDriver, uarts, uartMux>>
-----------------------------------------------------------------------------
(***************************************************************************)
(* What a call of each kind may do to what the kinds share.                *)
(***************************************************************************)
\* GPIO opens, fails to open, closes, or hands out a descriptor to poll.
LEMMA GpioEffects ==
  ASSUME GpioNext
  PROVE  /\ UNCHANGED loop
         /\ \/ GpioQuiet
            \/ \E pin \in GpioPin \ DOMAIN gpioDriver :
                 \/ /\ OpenGpioPin(pin) /\ gpios' = gpios \cup {pin}
                    /\ UNCHANGED line
                 \/ OpenGpioPinFails(pin) /\ UNCHANGED <<gpios, line>>
            \/ \E pin \in gpios : /\ CloseGpioPin(pin) /\ gpios' = gpios \ {pin}
                                  /\ UNCHANGED line
            \/ \E pin \in gpios : \E fd \in FreeFds :
                 /\ OpenFd(fd, GpioValueFile(LineOf(pin)))
                 /\ Reply("GetGpioPollingFd", <<pin>>, "ok", fd)
                 /\ UNCHANGED muxVars /\ gpioUnchanged
  <1>1. CASE \E request, pin : OpenGpio(request, pin)
    BY <1>1 DEF OpenGpio, ClientOpenGpio, GpioQuiet, muxVars, gpioUnchanged
  <1>2. CASE \E request, pin : ReleaseGpio(request, pin)
    BY <1>2 DEF ReleaseGpio, ClientReleaseGpio, GpioQuiet, muxVars, gpioUnchanged
  <1>3. CASE \E request, pin : GetGpioPollingFd(request, pin)
    BY <1>3
       DEF GetGpioPollingFd, ClientGetGpioPollingFd, GpioQuiet, muxVars, gpioUnchanged
  <1>4. CASE \/ \E request : ListGpio(request)
             \/ \E request, pin : GetGpioValue(request, pin) \/ GetDirection(request, pin)
    BY <1>4 DEF ListGpio, GetGpioValue, GetDirection, GpioQuiet, baseVars,
                gpioUnchanged
  <1>5. CASE \/ \E request, pin, direction : SetGpioDirection(request, pin, direction)
             \/ \E request, pin, value : SetGpioValue(request, pin, value)
    BY <1>5 DEF SetGpioDirection, SetGpioValue, GpioQuiet, baseVars
  <1> QED BY <1>1, <1>2, <1>3, <1>4, <1>5 DEF GpioNext

\* A setting of a driver's leaves its descriptor.
LEMMA SpiSettingKeepsFd ==
  ASSUME SpiInv, NEW b, NEW v,
         \/ spiDriver' = [spiDriver EXCEPT ![b].hz = v]
         \/ spiDriver' = [spiDriver EXCEPT ![b].bits = v]
         \/ spiDriver' = [spiDriver EXCEPT ![b].delay = v]
         \/ UNCHANGED spiDriver
  PROVE  /\ DOMAIN spiDriver' = DOMAIN spiDriver
         /\ \A bus \in DOMAIN spiDriver : spiDriver'[bus].fd = spiDriver[bus].fd
  <1>1. DOMAIN spiDriver' = DOMAIN spiDriver
    OBVIOUS
  <1> SUFFICES ASSUME NEW bus \in DOMAIN spiDriver
               PROVE  spiDriver'[bus].fd = spiDriver[bus].fd
    BY <1>1
  <1>2. spiDriver[bus] \in [fd : Fd, hz : Nat, delay : 0 .. Int16Max, bits : 0 .. 255]
    BY DEF SpiInv, SpiTypeOK
  <1> DEFINE driver == spiDriver[bus]
  <1>3. \/ spiDriver'[bus] = driver
        \/ spiDriver'[bus] = [driver EXCEPT !.hz = v]
        \/ spiDriver'[bus] = [driver EXCEPT !.bits = v]
        \/ spiDriver'[bus] = [driver EXCEPT !.delay = v]
    OBVIOUS
  <1> QED BY <1>2, <1>3

\* SPI opens or closes; its settings keep the descriptor.
LEMMA SpiEffects ==
  ASSUME SpiInv, SpiNext
  PROVE  /\ loop' \in {loop, "down"}
         /\ \/ SpiQuiet
            \/ /\ UNCHANGED spiChip /\ UNCHANGED loop
               /\ \/ \E bus \in SpiBus \ DOMAIN spiDriver :
                       OpenSpiBus(bus) /\ spis' = spis \cup {bus}
                  \/ \E bus \in spis : CloseSpiBus(bus) /\ spis' = spis \ {bus}
  <1>1. CASE \E request, bus : OpenSpiDevice(request, bus)
    BY <1>1
       DEF OpenSpiDevice, ClientOpenSpiDevice, SpiDriverInitFails, SpiQuiet, muxVars
  <1>2. CASE \E request, bus : ReleaseSpiDevice(request, bus)
    BY <1>2 DEF ReleaseSpiDevice, ClientReleaseSpiDevice, SpiQuiet, muxVars
  <1>3. CASE \/ \E request : ListSpiBuses(request)
             \/ \E request, bus : \/ SpiDeviceWriteByte(request, bus)
                                  \/ SpiDeviceWriteBuffer(request, bus)
             \/ \E request, bus, mode : SpiDeviceSetMode(request, bus, mode)
             \/ \E request, bus, lsb : SpiDeviceSetBitJustification(request, bus, lsb)
    BY <1>3
       DEF ListSpiBuses, SpiDeviceWriteByte, SpiDeviceWriteBuffer, SpiDeviceSetMode,
           SpiDeviceSetBitJustification, SpiQuiet, baseVars, spiUnchanged
  <1>4. ASSUME NEW b, NEW v, UNCHANGED baseVars, UNCHANGED spis,
               \/ spiDriver' = [spiDriver EXCEPT ![b].hz = v]
               \/ spiDriver' = [spiDriver EXCEPT ![b].bits = v]
               \/ spiDriver' = [spiDriver EXCEPT ![b].delay = v]
               \/ UNCHANGED spiDriver
        PROVE  SpiQuiet /\ UNCHANGED loop
    BY <1>4, SpiSettingKeepsFd DEF SpiQuiet, baseVars
  <1>5. ASSUME NEW request, NEW bus, NEW n,
               \/ SpiDeviceSetFrequency(request, bus, n)
               \/ SpiDeviceSetBitsPerWord(request, bus, n)
               \/ SpiDeviceSetDelay(request, bus, n)
        PROVE  SpiQuiet /\ UNCHANGED loop
    <2>1. UNCHANGED baseVars /\ UNCHANGED spis
      BY <1>5 DEF SpiDeviceSetFrequency, SpiDeviceSetBitsPerWord, SpiDeviceSetDelay
    <2>2. CASE SpiDeviceSetFrequency(request, bus, n)
      <3>1. \/ UNCHANGED spiDriver
            \/ spiDriver' = [spiDriver EXCEPT ![bus].hz = IF n > MaxHz THEN MaxHz ELSE n]
        BY <2>2 DEF SpiDeviceSetFrequency, ClientSetFrequency
      <3> QED BY <1>4, <2>1, <3>1
    <2>3. CASE SpiDeviceSetBitsPerWord(request, bus, n)
      <3>1. \/ UNCHANGED spiDriver
            \/ spiDriver' = [spiDriver EXCEPT ![bus].bits = n % 256]
        BY <2>3 DEF SpiDeviceSetBitsPerWord, ClientSetBitsPerWord
      <3> QED BY <1>4, <2>1, <3>1
    <2>4. CASE SpiDeviceSetDelay(request, bus, n)
      <3>1. \/ UNCHANGED spiDriver
            \/ spiDriver' = [spiDriver EXCEPT ![bus].delay = n]
        BY <2>4 DEF SpiDeviceSetDelay, ClientSetDelay
      <3> QED BY <1>4, <2>1, <3>1
    <2> QED BY <1>5, <2>2, <2>3, <2>4
  <1>6. CASE \E request, bus, sent, size : SpiDeviceTransfer(request, bus, sent, size)
    BY <1>6
       DEF SpiDeviceTransfer, ClientTransfer, SpiQuiet, muxVars, spiUnchanged
  <1> QED BY <1>1, <1>2, <1>3, <1>5, <1>6 DEF SpiNext

\* I2C opens or closes.
LEMMA I2cEffects ==
  ASSUME I2cNext
  PROVE  /\ UNCHANGED loop
         /\ \/ I2cQuiet
            \/ \E dev \in I2cBus \X Address :
                 /\ dev \notin DOMAIN i2cDriver
                 /\ OpenI2cSlave(dev) /\ i2cs' = i2cs \cup {dev}
            \/ \E dev \in i2cs : CloseI2cSlave(dev) /\ i2cs' = i2cs \ {dev}
  <1>1. ASSUME NEW request, NEW dev \in I2cName \X Address, OpenI2cDevice(request, dev)
        PROVE  /\ UNCHANGED loop
               /\ \/ I2cQuiet
                  \/ /\ dev \in I2cBus \X Address /\ dev \notin DOMAIN i2cDriver
                     /\ OpenI2cSlave(dev) /\ i2cs' = i2cs \cup {dev}
    BY <1>1 DEF OpenI2cDevice, ClientOpenI2cDevice, I2cDriverInitFails, i2cUnchanged,
                I2cQuiet, muxVars
  <1>2. ASSUME NEW request, NEW dev, ReleaseI2cDevice(request, dev)
        PROVE  /\ UNCHANGED loop
               /\ \/ I2cQuiet
                  \/ dev \in i2cs /\ CloseI2cSlave(dev) /\ i2cs' = i2cs \ {dev}
    BY <1>2 DEF ReleaseI2cDevice, ClientReleaseI2cDevice, i2cUnchanged, I2cQuiet,
                muxVars
  <1>3. ASSUME NEW request, NEW dev, Geti2cPollingFd(request, dev)
        PROVE  UNCHANGED loop /\ I2cQuiet
    BY <1>3 DEF Geti2cPollingFd, ClientGeti2cPollingFd, i2cUnchanged, I2cQuiet, muxVars
  <1>4. ASSUME NEW request, NEW dev, NEW n, I2cTransfer(request, dev, n)
        PROVE  UNCHANGED loop /\ I2cQuiet
    BY <1>4, I2cTransferChangesNothing DEF baseVars, i2cVars, I2cQuiet
  <1> QED BY <1>1, <1>2, <1>3, <1>4, I2cSteps

\* UART opens, also at the end of a wait, closes, lists, or loses an adapter.
UartOpens(name) ==
  /\ alive /\ alive'
  /\ name \in DOMAIN uartMux \ DOMAIN uartDriver
  /\ \E canonical : OpenUart(name, canonical)
  /\ uarts' = uarts \cup {name}
  /\ UNCHANGED uartMux

\* And it does nothing else to what the kinds share.
LEMMA UartEffects ==
  ASSUME UartNext
  PROVE  /\ alive \/ UNCHANGED loop
         /\ \/ UartQuiet
            \/ \E name : UartOpens(name)
            \/ \E name \in uarts : /\ alive /\ CloseUart(name) /\ uarts' = uarts \ {name}
                                   /\ Reply("ReleaseUartDevice", <<name>>, "ok", "none")
                                   /\ UNCHANGED <<fdTable, loop, uartMux, baud>>
            \/ /\ GetDevicesList
               /\ UNCHANGED <<fdTable, inUse, loop, uartDriver, uarts, baud>>
            \/ \E name \in plugged : Unplug(name)
  <1>1. ASSUME NEW name, NEW canonical, ClientOpenUartDevice(name, canonical),
               UNCHANGED uartMux, alive, alive'
        PROVE  UartQuiet \/ UartOpens(name)
    BY <1>1 DEF ClientOpenUartDevice, OpenUartFails, UartQuiet, UartOpens, muxVars
  <1>2. ASSUME NEW request, NEW name, NEW canonical, running,
               OpenUartDevice(request, name, canonical)
        PROVE  alive /\ (UartQuiet \/ UartOpens(name))
    <2>1. CASE OpenUartFails /\ UNCHANGED <<uarts, uartMux>>
      BY <1>2, <2>1 DEF OpenUartFails, UartQuiet, muxVars, running, alive
    <2> QED BY <1>1, <1>2, <2>1 DEF OpenUartDevice, running, alive
  <1>3. CASE UartResume
    <2>1. alive /\ alive' /\ UNCHANGED uartMux
      BY <1>3 DEF UartResume, alive
    <2>2. CASE UNCHANGED muxVars /\ UNCHANGED <<fdTable, uartDriver, uarts, baud>>
      BY <2>1, <2>2 DEF UartQuiet, muxVars
    <2> QED BY <1>1, <1>3, <2>1, <2>2 DEF UartResume
  <1>4. CASE running /\ \E request, name : ReleaseUartDevice(request, name)
    BY <1>4 DEF ReleaseUartDevice, ClientReleaseUartDevice, UartQuiet, muxVars, running,
                alive
  <1>5. CASE running /\ \E request : ListUartDevices(request)
    BY <1>5 DEF ListUartDevices, UartQuiet, baseVars, running, alive
  <1>6. CASE running /\ \E request, name, size : UartOtherCall(request, name, size)
    BY <1>6
       DEF UartOtherCall, UartDeviceWrite, UartDeviceRead, GetBaudrate,
           GetuartPollingFd, UartQuiet, uartUnchanged, uartVars, baseVars, muxVars,
           running, alive
  <1>7. CASE \E request, name, rate : SetUartDeviceBaudrate(request, name, rate)
    BY <1>7 DEF SetUartDeviceBaudrate, UartQuiet, baseVars
  <1>8. CASE \/ \E name : Plug(name)
             \/ \E name \in plugged : Unplug(name)
    BY <1>8 DEF Plug, Unplug, UartQuiet, baseVars
  <1> QED
    BY <1>2, <1>3, <1>4, <1>5, <1>6, <1>7, <1>8, UartSteps
       DEF UartNext, UartOtherCall
-----------------------------------------------------------------------------
(***************************************************************************)
(* So a step changes only files of its own kind ...                        *)
(***************************************************************************)
\* A descriptor that is opened was free, one that is closed takes its file away.
LEMMA FdFiles ==
  ASSUME NEW fd, NEW file, NEW kinds,
         \/ OpenFd(fd, file)
         \/ CloseFd(fd) /\ fd \in DOMAIN fdTable /\ fdTable[fd][1] \in kinds
         \/ UNCHANGED fdTable
  PROVE  FilesBut(kinds)
  BY DEF OpenFd, CloseFd, FreeFds, Bind, Unbind, Restrict, FilesBut

\* GPIO's are the pins' directories.
LEMMA GpioFiles ==
  ASSUME GpioInv, GpioNext
  PROVE  FilesBut({"gpio"})
  <1>1. CASE UNCHANGED fdTable
    BY <1>1, FdFiles
  <1>2. ASSUME NEW pin, OpenGpioPin(pin) PROVE FilesBut({"gpio"})
    BY <1>2, FdFiles DEF OpenGpioPin
  <1>3. ASSUME NEW pin \in gpios, CloseGpioPin(pin) PROVE FilesBut({"gpio"})
    <2>1. /\ gpioDriver[pin] \in DOMAIN fdTable
          /\ fdTable[gpioDriver[pin]][1] \in {"gpio"}
      BY DEF GpioInv, GpioHandlesMatchDrivers, GpioDriversOwnDescriptors, GpioDir
    <2> QED BY <1>3, <2>1, FdFiles DEF CloseGpioPin
  <1> QED
    BY <1>1, <1>2, <1>3, GpioEffects, FdFiles DEF GpioQuiet, OpenGpioPinFails

\* SPI's are the buses' devices.
LEMMA SpiFiles ==
  ASSUME SpiInv, SpiNext
  PROVE  FilesBut({"spi"})
  <1>1. CASE UNCHANGED fdTable
    BY <1>1, FdFiles
  <1>2. ASSUME NEW bus, OpenSpiBus(bus) PROVE FilesBut({"spi"})
    BY <1>2, FdFiles DEF OpenSpiBus, SpiDriverInit
  <1>3. ASSUME NEW bus \in spis, CloseSpiBus(bus) PROVE FilesBut({"spi"})
    <2>1. /\ spiDriver[bus].fd \in DOMAIN fdTable
          /\ fdTable[spiDriver[bus].fd][1] \in {"spi"}
      BY DEF SpiInv, SpiHandlesMatchDrivers, SpiDriversOwnDescriptors, SpiDev
    <2> QED BY <1>3, <2>1, FdFiles DEF CloseSpiBus
  <1> QED BY <1>1, <1>2, <1>3, SpiEffects DEF SpiQuiet

\* I2C's are the buses' devices with a slave.
LEMMA I2cFiles ==
  ASSUME I2cInv, I2cNext
  PROVE  FilesBut({"i2c"})
  <1>1. CASE UNCHANGED fdTable
    BY <1>1, FdFiles
  <1>2. ASSUME NEW dev, OpenI2cSlave(dev) PROVE FilesBut({"i2c"})
    BY <1>2, FdFiles DEF OpenI2cSlave, I2cDriverInit
  <1>3. ASSUME NEW dev \in i2cs, CloseI2cSlave(dev) PROVE FilesBut({"i2c"})
    <2>1. /\ i2cDriver[dev] \in DOMAIN fdTable
          /\ fdTable[i2cDriver[dev]][1] \in {"i2c"}
      BY DEF I2cInv, I2cHandlesMatchDrivers, I2cDriversOwnDescriptors, I2cDev
    <2> QED BY <1>3, <2>1, FdFiles DEF CloseI2cSlave
  <1> QED BY <1>1, <1>2, <1>3, I2cEffects DEF I2cQuiet

\* UART's are the ttys, of which an adapter that goes makes dead ones.
LEMMA UartFiles ==
  ASSUME UartInv, UartNext
  PROVE  FilesBut({"tty", "gone"})
  <1>1. CASE UNCHANGED fdTable
    BY <1>1, FdFiles
  <1>2. ASSUME NEW name, NEW canonical, OpenUart(name, canonical)
        PROVE  FilesBut({"tty", "gone"})
    BY <1>2, FdFiles DEF OpenUart
  <1>3. ASSUME NEW name, Unplug(name) PROVE FilesBut({"tty", "gone"})
    BY <1>3 DEF Unplug, FilesBut, Tty
  <1> QED BY <1>1, <1>2, <1>3, UartEffects DEF UartQuiet, UartOpens
-----------------------------------------------------------------------------
(***************************************************************************)
(* ... and the invariants of the other kinds survive it.                   *)
(***************************************************************************)
\* GPIO's.
LEMMA GpioFrame ==
  ASSUME GpioInv, ServiceTypeOK', UNCHANGED gpioVars, NEW kinds, "gpio" \notin kinds,
         FilesBut(kinds)
  PROVE  GpioInv'
  <1>1. GpioTypeOK' /\ GpioHandlesMatchDrivers'
    BY DEF GpioInv, GpioTypeOK, GpioHandlesMatchDrivers, gpioVars
  <1>2. GpioDriversOwnDescriptors'
    BY DEF GpioInv, GpioDriversOwnDescriptors, FilesBut, GpioDir, gpioVars
  <1> QED BY <1>1, <1>2 DEF GpioInv

\* SPI's.
LEMMA SpiFrame ==
  ASSUME SpiInv, ServiceTypeOK', UNCHANGED spiVars, NEW kinds, "spi" \notin kinds,
         FilesBut(kinds)
  PROVE  SpiInv'
  <1>1. SpiTypeOK' /\ SpiHandlesMatchDrivers' /\ SpiSpeedCapped'
    BY DEF SpiInv, SpiTypeOK, SpiHandlesMatchDrivers, SpiSpeedCapped, spiVars
  <1>2. SpiDriversOwnDescriptors'
    BY DEF SpiInv, SpiDriversOwnDescriptors, FilesBut, SpiDev, spiVars
  <1> QED BY <1>1, <1>2 DEF SpiInv

\* I2C's.
LEMMA I2cFrame ==
  ASSUME I2cInv, ServiceTypeOK', UNCHANGED i2cVars, NEW kinds, "i2c" \notin kinds,
         FilesBut(kinds)
  PROVE  I2cInv'
  <1>1. I2cTypeOK' /\ I2cHandlesMatchDrivers'
    BY DEF I2cInv, I2cTypeOK, I2cHandlesMatchDrivers, i2cVars
  <1>2. I2cDriversOwnDescriptors'
    BY DEF I2cInv, I2cDriversOwnDescriptors, FilesBut, I2cDev, i2cVars
  <1> QED BY <1>1, <1>2 DEF I2cInv

\* UART's: no other kind leaves the loop waiting.
LEMMA UartFrame ==
  ASSUME UartInv, ServiceTypeOK', UNCHANGED uartVars, loop' # "blocked" \/ UNCHANGED loop,
         NEW kinds, "tty" \notin kinds, "gone" \notin kinds, FilesBut(kinds)
  PROVE  UartInv'
  <1>1. UartTypeOK' /\ UartHandlesMatchDrivers' /\ UartWaitOK'
    BY DEF UartInv, UartTypeOK, UartHandlesMatchDrivers, UartWaitOK, uartVars
  <1>2. UartDriversOwnDescriptors'
    BY DEF UartInv, UartDriversOwnDescriptors, FilesBut, Tty, Gone, uartVars
  <1> QED BY <1>1, <1>2 DEF UartInv

\* The invariant holds when the process starts for the first time.
LEMMA PmInitInv == Init => PmInv
  BY GpioInitInv, SpiInitInv, I2cInitInv, UartInitInv
     DEF Init, PmInv, GpioSpecInit, SpiSpecInit, I2cSpecInit, UartSpecInit

\* The invariant is inductive.
LEMMA PmNextKeepsInv ==
  ASSUME PmInv, [Next]_vars
  PROVE  PmInv'
  <1> USE DEF PmInv
  <1>1. CASE GpioStep
    <2>1. GpioNext /\ UNCHANGED spiVars /\ UNCHANGED i2cVars /\ UNCHANGED uartVars
      BY <1>1 DEF GpioStep
    <2>2. GpioInv' /\ FilesBut({"gpio"}) /\ UNCHANGED loop
      BY <2>1, GpioStepKeepsInv, GpioFiles, GpioEffects
    <2>3. ServiceTypeOK'
      BY <2>2 DEF GpioInv, GpioTypeOK
    <2> QED BY <2>1, <2>2, <2>3, SpiFrame, I2cFrame, UartFrame
  <1>2. CASE SpiStep
    <2>1. SpiNext /\ UNCHANGED gpioVars /\ UNCHANGED i2cVars /\ UNCHANGED uartVars
      BY <1>2 DEF SpiStep
    <2>2. SpiInv' /\ FilesBut({"spi"}) /\ loop' \in {loop, "down"}
      BY <2>1, SpiStepKeepsInv, SpiFiles, SpiEffects
    <2>3. ServiceTypeOK'
      BY <2>2 DEF SpiInv, SpiTypeOK
    <2> QED BY <2>1, <2>2, <2>3, GpioFrame, I2cFrame, UartFrame
  <1>3. CASE I2cStep
    <2>1. I2cNext /\ UNCHANGED gpioVars /\ UNCHANGED spiVars /\ UNCHANGED uartVars
      BY <1>3 DEF I2cStep
    <2>2. I2cInv' /\ FilesBut({"i2c"}) /\ UNCHANGED loop
      BY <2>1, I2cNextKeepsInv, I2cFiles, I2cEffects DEF I2cSpecNext
    <2>3. ServiceTypeOK'
      BY <2>2 DEF I2cInv, I2cTypeOK
    <2> QED BY <2>1, <2>2, <2>3, GpioFrame, SpiFrame, UartFrame
  <1>4. CASE UartStep
    <2>1. UartNext /\ UNCHANGED gpioVars /\ UNCHANGED spiVars /\ UNCHANGED i2cVars
      BY <1>4 DEF UartStep
    <2>2. UartInv' /\ FilesBut({"tty", "gone"})
      BY <2>1, UartNextKeepsInv, UartFiles DEF UartSpecNext
    <2>3. ServiceTypeOK'
      BY <2>2 DEF UartInv, UartTypeOK
    <2> QED BY <2>1, <2>2, <2>3, GpioFrame, SpiFrame, I2cFrame
  <1>5. CASE Crash
    BY <1>5, GpioRestartKeepsInv, SpiRestartKeepsInv, I2cRestartKeepsInv,
       UartRestartKeepsInv
       DEF Crash, GpioDie, SpiDie, I2cDie, UartDie, gpioUnchanged, spiUnchanged,
           i2cUnchanged, uartUnchanged, gpioVars, spiVars, i2cVars
  <1>6. CASE Restart
    BY <1>6, GpioRestartKeepsInv, SpiRestartKeepsInv, I2cRestartKeepsInv,
       UartRestartKeepsInv DEF Restart
  <1>7. CASE UNCHANGED vars
    BY <1>7, GpioNextKeepsInv, SpiNextKeepsInv, I2cNextKeepsInv, UartNextKeepsInv
       DEF vars, GpioSpecVars, SpiSpecVars, I2cSpecVars, UartSpecVars
  <1> QED BY <1>1, <1>2, <1>3, <1>4, <1>5, <1>6, <1>7 DEF Next

\* The invariants of the four kinds hold together throughout.
THEOREM PmInvariant == Spec => []PmInv
  <1>1. Init => PmInv
    BY PmInitInv
  <1>2. PmInv /\ [Next]_vars => PmInv'
    BY PmNextKeepsInv
  <1> QED BY <1>1, <1>2, PTL DEF Spec

\* All the variables keep their types.
THEOREM PmTypeCorrect == Spec => []TypeOK
  <1>1. PmInv => TypeOK
    BY DEF PmInv, TypeOK, GpioInv, SpiInv, I2cInv, UartInv
  <1> QED BY <1>1, PmInvariant, PTL

\* Each driver of each kind has a descriptor of its own that leads to its own
\* device, on every board and with however few descriptors.
THEOREM PmDescriptorsCorrect == Spec => []DriversOwnDescriptors
  <1>1. PmInv => DriversOwnDescriptors
    BY DEF PmInv, DriversOwnDescriptors, GpioInv, SpiInv, I2cInv, UartInv
  <1> QED BY <1>1, PmInvariant, PTL

\* The client has a handle for exactly the devices that have a driver, of whatever
\* kind: no call of one kind makes a handle of another dangle.
THEOREM PmHandlesCorrect ==
  Spec => [](/\ GpioHandlesMatchDrivers /\ SpiHandlesMatchDrivers
             /\ I2cHandlesMatchDrivers /\ UartHandlesMatchDrivers)
  <1>1. PmInv => /\ GpioHandlesMatchDrivers /\ SpiHandlesMatchDrivers
                 /\ I2cHandlesMatchDrivers /\ UartHandlesMatchDrivers
    BY DEF PmInv, GpioInv, SpiInv, I2cInv, UartInv
  <1> QED BY <1>1, PmInvariant, PTL

\* An SPI or I2C call that is answered with an error has changed nothing in the
\* whole service: no device of its own kind or of another, no pin, no descriptor.
THEOREM PmFailureCorrect ==
  Spec => [][(SpiStep \/ I2cStep) /\ running /\ running' /\ reply'.code # "ok"
               => UNCHANGED <<baseVars, gpioVars, spiVars, i2cVars, uartVars>>]_vars
  <1>1. ASSUME SpiStep, running, running', reply'.code # "ok"
        PROVE  UNCHANGED <<baseVars, gpioVars, spiVars, i2cVars, uartVars>>
    <2>1. SpiNext /\ UNCHANGED <<gpioVars, i2cVars, uartVars>>
      BY <1>1 DEF SpiStep
    <2>2. SpiFailureStep
      BY <2>1, SpiNextFailureStep DEF SpiSpecNext
    <2> QED BY <1>1, <2>1, <2>2 DEF SpiFailureStep
  <1>2. ASSUME I2cStep, running, running', reply'.code # "ok"
        PROVE  UNCHANGED <<baseVars, gpioVars, spiVars, i2cVars, uartVars>>
    <2>1. I2cNext /\ UNCHANGED <<gpioVars, spiVars, uartVars>>
      BY <1>2 DEF I2cStep
    <2>2. I2cFailureStep
      BY <2>1, I2cNextFailureStep
    <2> QED BY <1>2, <2>1, <2>2 DEF I2cFailureStep
  <1> QED BY <1>1, <1>2, PTL DEF Spec

\* What FailuresLeaveLittle says of one step.
FailureStep ==
  alive /\ running' /\ UNCHANGED plugged /\ reply'.code # "ok"
    => /\ UNCHANGED <<fdTable, gpioDriver, gpios, line, spiVars, i2cVars>>
       /\ UNCHANGED <<uartMux, uartDriver, uarts, baud>>
       /\ UNCHANGED <<muxVars, exported>> \/ FailedOpenLeaves

LEMMA NextFailureStep ==
  ASSUME [Next]_vars
  PROVE  FailureStep
  <1>1. CASE GpioStep
    <2>1. GpioNext /\ running /\ UNCHANGED <<spiVars, i2cVars, uartVars>>
      BY <1>1 DEF GpioStep, GpioNext
    <2>2. GpioFailureStep
      BY <2>1, GpioNextFailureStep DEF GpioSpecNext
    <2> QED BY <2>1, <2>2 DEF GpioFailureStep, FailureStep, uartVars
  <1>2. CASE SpiStep
    <2>1. SpiNext /\ running /\ UNCHANGED <<gpioVars, i2cVars, uartVars>>
      BY <1>2 DEF SpiStep, SpiNext
    <2>2. SpiFailureStep
      BY <2>1, SpiNextFailureStep DEF SpiSpecNext
    <2> QED
      BY <2>1, <2>2 DEF SpiFailureStep, FailureStep, baseVars, muxVars, gpioVars,
                        uartVars
  <1>3. CASE I2cStep
    <2>1. I2cNext /\ running /\ UNCHANGED <<gpioVars, spiVars, uartVars>>
      BY <1>3 DEF I2cStep, I2cNext
    <2>2. I2cFailureStep
      BY <2>1, I2cNextFailureStep
    <2> QED
      BY <2>1, <2>2 DEF I2cFailureStep, FailureStep, baseVars, muxVars, gpioVars,
                        uartVars
  <1>4. CASE UartStep
    <2>1. UartNext /\ UNCHANGED <<gpioVars, spiVars, i2cVars>>
      BY <1>4 DEF UartStep
    <2>2. UartFailureStep
      BY <2>1, UartNextFailureStep DEF UartSpecNext
    <2> QED BY <2>1, <2>2 DEF UartFailureStep, FailureStep, gpioVars
  <1>5. CASE Crash \/ Restart
    BY <1>5 DEF Crash, Restart, Die, Reboot, FailureStep, running, alive
  <1>6. CASE UNCHANGED vars
    BY <1>6 DEF vars, baseVars, muxVars, gpioVars, uartVars, FailureStep
  <1> QED BY <1>1, <1>2, <1>3, <1>4, <1>5, <1>6 DEF Next

\* No call that is answered with an error has changed a device of any kind, in
\* the whole service: at most it was the open of a GPIO, which may leave that
\* GPIO's directory in the kernel and its mux claimed.
THEOREM PmFailuresLeaveLittle == Spec => FailuresLeaveLittle
  <1>1. [Next]_vars => [FailureStep]_vars
    BY NextFailureStep
  <1> QED BY <1>1, PTL DEF Spec, FailuresLeaveLittle, FailureStep
-----------------------------------------------------------------------------
(***************************************************************************)
(* Leaks.  Every open file is of a kind the drivers open, and one that is  *)
(* not a value file or a tty is some driver's.                             *)
(***************************************************************************)
KnownFiles ==
  \A fd \in DOMAIN fdTable :
    fdTable[fd][1] \in {"gpio", "gpiovalue", "spi", "i2c", "tty", "gone"}

GpioHeld ==
  \A fd \in DOMAIN fdTable :
    fdTable[fd][1] = "gpio" => \E pin \in DOMAIN gpioDriver : gpioDriver[pin] = fd

SpiHeld ==
  \A fd \in DOMAIN fdTable :
    fdTable[fd][1] = "spi" => \E bus \in DOMAIN spiDriver : spiDriver[bus].fd = fd

I2cHeld ==
  \A fd \in DOMAIN fdTable :
    fdTable[fd][1] = "i2c" => \E dev \in DOMAIN i2cDriver : i2cDriver[dev] = fd

FilesHeld == KnownFiles /\ GpioHeld /\ SpiHeld /\ I2cHeld

\* Every file open after the step was there before, but those of these kinds.
FilesFrom(kinds) ==
  \A fd \in DOMAIN fdTable' :
    fdTable'[fd][1] \notin kinds => /\ fd \in DOMAIN fdTable
                                    /\ fdTable'[fd] = fdTable[fd]

\* Nothing but the file that is opened is new.
LEMMA FdNewFiles ==
  ASSUME NEW fd, NEW file, NEW kinds,
         \/ OpenFd(fd, file) /\ file[1] \in kinds
         \/ CloseFd(fd)
         \/ UNCHANGED fdTable
  PROVE  FilesFrom(kinds)
  BY DEF OpenFd, CloseFd, Bind, Unbind, Restrict, FilesFrom

\* GPIO opens directories, which it holds, and value files.
LEMMA GpioHolds ==
  ASSUME GpioInv, GpioHeld, GpioNext
  PROVE  FilesFrom({"gpio", "gpiovalue"}) /\ GpioHeld'
  <1>1. CASE UNCHANGED <<fdTable, gpioDriver>>
    BY <1>1, FdNewFiles DEF GpioHeld
  <1>2. ASSUME NEW pin, pin \notin DOMAIN gpioDriver, OpenGpioPin(pin)
        PROVE  FilesFrom({"gpio", "gpiovalue"}) /\ GpioHeld'
    <2>1. PICK fd \in FreeFds : /\ OpenFd(fd, GpioDir(pin))
                                /\ gpioDriver' = Bind(gpioDriver, pin, fd)
      BY <1>2 DEF OpenGpioPin
    <2>2. FilesFrom({"gpio", "gpiovalue"})
      BY <2>1, FdNewFiles DEF GpioDir
    <2> QED BY <1>2, <2>1, <2>2 DEF GpioHeld, OpenFd, Bind
  <1>3. ASSUME NEW pin \in gpios, CloseGpioPin(pin)
        PROVE  FilesFrom({"gpio", "gpiovalue"}) /\ GpioHeld'
    <2>1. CloseFd(gpioDriver[pin]) /\ gpioDriver' = Unbind(gpioDriver, pin)
      BY <1>3 DEF CloseGpioPin
    <2>2. FilesFrom({"gpio", "gpiovalue"})
      BY <2>1, FdNewFiles
    <2> QED BY <2>1, <2>2 DEF GpioHeld, CloseFd, Unbind, Restrict
  <1>4. ASSUME NEW pin, NEW fd \in FreeFds, OpenFd(fd, GpioValueFile(LineOf(pin))),
               UNCHANGED gpioDriver
        PROVE  FilesFrom({"gpio", "gpiovalue"}) /\ GpioHeld'
    <2>1. FilesFrom({"gpio", "gpiovalue"})
      BY <1>4, FdNewFiles DEF GpioValueFile
    <2> QED BY <1>4, <2>1 DEF GpioHeld, OpenFd, Bind, GpioValueFile
  <1> QED
    BY <1>1, <1>2, <1>3, <1>4, GpioEffects
       DEF GpioQuiet, OpenGpioPinFails, gpioUnchanged

\* SPI opens devices, which it holds.
LEMMA SpiHolds ==
  ASSUME SpiInv, SpiHeld, SpiNext
  PROVE  FilesFrom({"spi"}) /\ SpiHeld'
  <1>1. CASE SpiQuiet
    BY <1>1, FdNewFiles DEF SpiHeld, SpiQuiet
  <1>2. ASSUME NEW bus, bus \notin DOMAIN spiDriver, OpenSpiBus(bus)
        PROVE  FilesFrom({"spi"}) /\ SpiHeld'
    <2>1. PICK fd \in FreeFds : SpiDriverInit(bus, fd)
      BY <1>2 DEF OpenSpiBus
    <2>2. /\ OpenFd(fd, SpiDev(bus))
          /\ spiDriver' = Bind(spiDriver, bus, FreshDriver(fd))
          /\ FreshDriver(fd).fd = fd
      BY <2>1 DEF SpiDriverInit, FreshDriver
    <2>3. FilesFrom({"spi"})
      BY <2>2, FdNewFiles DEF SpiDev
    <2> QED BY <1>2, <2>2, <2>3 DEF SpiHeld, OpenFd, Bind
  <1>3. ASSUME NEW bus \in spis, CloseSpiBus(bus)
        PROVE  FilesFrom({"spi"}) /\ SpiHeld'
    <2>1. CloseFd(spiDriver[bus].fd) /\ spiDriver' = Unbind(spiDriver, bus)
      BY <1>3 DEF CloseSpiBus
    <2>2. FilesFrom({"spi"})
      BY <2>1, FdNewFiles
    <2> QED BY <2>1, <2>2 DEF SpiHeld, CloseFd, Unbind, Restrict
  <1> QED BY <1>1, <1>2, <1>3, SpiEffects

\* I2C opens slaves, which it holds.
LEMMA I2cHolds ==
  ASSUME I2cInv, I2cHeld, I2cNext
  PROVE  FilesFrom({"i2c"}) /\ I2cHeld'
  <1>1. CASE I2cQuiet
    BY <1>1, FdNewFiles DEF I2cHeld, I2cQuiet
  <1>2. ASSUME NEW dev, dev \notin DOMAIN i2cDriver, OpenI2cSlave(dev)
        PROVE  FilesFrom({"i2c"}) /\ I2cHeld'
    <2>1. PICK fd \in FreeFds : /\ OpenFd(fd, I2cDev(dev))
                                /\ i2cDriver' = Bind(i2cDriver, dev, fd)
      BY <1>2 DEF OpenI2cSlave, I2cDriverInit
    <2>2. FilesFrom({"i2c"})
      BY <2>1, FdNewFiles DEF I2cDev
    <2> QED BY <1>2, <2>1, <2>2 DEF I2cHeld, OpenFd, Bind
  <1>3. ASSUME NEW dev \in i2cs, CloseI2cSlave(dev)
        PROVE  FilesFrom({"i2c"}) /\ I2cHeld'
    <2>1. CloseFd(i2cDriver[dev]) /\ i2cDriver' = Unbind(i2cDriver, dev)
      BY <1>3 DEF CloseI2cSlave
    <2>2. FilesFrom({"i2c"})
      BY <2>1, FdNewFiles
    <2> QED BY <2>1, <2>2 DEF I2cHeld, CloseFd, Unbind, Restrict
  <1> QED BY <1>1, <1>2, <1>3, I2cEffects

\* UART opens ttys, and a pulled adapter's become dead.
LEMMA UartFilesNew ==
  ASSUME UartNext
  PROVE  FilesFrom({"tty", "gone"})
  <1>1. CASE UNCHANGED fdTable
    BY <1>1, FdNewFiles
  <1>2. ASSUME NEW name, NEW canonical, OpenUart(name, canonical)
        PROVE  FilesFrom({"tty", "gone"})
    BY <1>2, FdNewFiles DEF OpenUart, Tty
  <1>3. ASSUME NEW name, Unplug(name) PROVE FilesFrom({"tty", "gone"})
    BY <1>3 DEF Unplug, FilesFrom, Gone
  <1> QED BY <1>1, <1>2, <1>3, UartEffects DEF UartQuiet, UartOpens

\* Each kind's step leaves the files the others hold, and leaves no other.
LEMMA PmNextKeepsFilesHeld ==
  ASSUME PmInv, FilesHeld, [Next]_vars
  PROVE  FilesHeld'
  <1> USE DEF PmInv, FilesHeld
  <1>1. ASSUME NEW kinds, FilesFrom(kinds),
               kinds \subseteq {"gpio", "gpiovalue", "spi", "i2c", "tty", "gone"}
        PROVE  /\ KnownFiles'
               /\ "gpio" \notin kinds /\ UNCHANGED gpioDriver => GpioHeld'
               /\ "spi" \notin kinds /\ UNCHANGED spiDriver => SpiHeld'
               /\ "i2c" \notin kinds /\ UNCHANGED i2cDriver => I2cHeld'
    <2>1. KnownFiles'
      BY <1>1 DEF KnownFiles, FilesFrom
    <2>2. "gpio" \notin kinds /\ UNCHANGED gpioDriver => GpioHeld'
      BY <1>1 DEF GpioHeld, FilesFrom
    <2>3. "spi" \notin kinds /\ UNCHANGED spiDriver => SpiHeld'
      BY <1>1 DEF SpiHeld, FilesFrom
    <2>4. "i2c" \notin kinds /\ UNCHANGED i2cDriver => I2cHeld'
      BY <1>1 DEF I2cHeld, FilesFrom
    <2> QED BY <2>1, <2>2, <2>3, <2>4
  <1>2. CASE GpioStep
    BY <1>1, <1>2, GpioHolds DEF GpioStep, spiVars, i2cVars
  <1>3. CASE SpiStep
    BY <1>1, <1>3, SpiHolds DEF SpiStep, gpioVars, i2cVars
  <1>4. CASE I2cStep
    BY <1>1, <1>4, I2cHolds DEF I2cStep, gpioVars, spiVars
  <1>5. CASE UartStep
    BY <1>1, <1>5, UartFilesNew DEF UartStep, gpioVars, spiVars, i2cVars
  <1>6. CASE Crash \/ UNCHANGED vars
    <2>1. UNCHANGED <<fdTable, gpioDriver, spiDriver, i2cDriver>>
      BY <1>6 DEF Crash, vars, baseVars, gpioVars, spiVars, i2cVars
    <2> QED BY <2>1 DEF KnownFiles, GpioHeld, SpiHeld, I2cHeld
  <1>7. CASE Restart
    BY <1>7 DEF Restart, Reboot, EmptyMap, KnownFiles, GpioHeld, SpiHeld, I2cHeld
  <1> QED BY <1>2, <1>3, <1>4, <1>5, <1>6, <1>7 DEF Next

\* No descriptor outlives its device but one handed out to poll a GPIO and one
\* of a uart, on every board and whatever fails.
THEOREM PmOnlyKnownLeaks == Spec => []OnlyKnownLeaks
  <1>1. Init => FilesHeld
    BY DEF Init, ServiceInit, EmptyMap, FilesHeld, KnownFiles, GpioHeld, SpiHeld, I2cHeld
  <1>2. PmInv /\ FilesHeld /\ [Next]_vars => FilesHeld'
    BY PmNextKeepsFilesHeld
  <1>3. FilesHeld => OnlyKnownLeaks
    BY DEF FilesHeld, KnownFiles, GpioHeld, SpiHeld, I2cHeld, OnlyKnownLeaks, DriverFds
  <1> QED BY <1>1, <1>2, <1>3, PmInvariant, PTL DEF Spec

\* What LeaksAreAnswered says of one descriptor that is lost in a step.
LeakAnswered(fd) ==
  /\ reply'.code = "ok"
  /\ \/ \E pin \in gpios :
          /\ fdTable'[fd] = GpioValueFile(pin)
          /\ reply'.call = "GetGpioPollingFd" /\ reply'.dev = <<pin>>
          /\ reply'.payload = fd
     \/ \E name \in uarts \ uarts' :
          /\ uartDriver[name].fd = fd
          /\ reply'.call = "ReleaseUartDevice" /\ reply'.dev = <<name>>

LossesAnswered == \A fd \in LostFds' \ LostFds : LeakAnswered(fd)

\* GPIO: a polling descriptor is the caller's, to whom it is answered.
LEMMA GpioLosses ==
  ASSUME PmInv, GpioStep
  PROVE  LossesAnswered
  <1>1. GpioNext /\ UNCHANGED <<spiDriver, i2cDriver, uartDriver>>
    BY DEF GpioStep, spiVars, i2cVars, uartVars
  <1>2. CASE UNCHANGED <<fdTable, gpioDriver>>
    <2>1. DriverFds' = DriverFds
      BY <1>1, <1>2 DEF DriverFds
    <2> QED BY <1>2, <2>1 DEF LossesAnswered, LostFds
  <1>3. ASSUME NEW pin \in GpioPin \ DOMAIN gpioDriver, OpenGpioPin(pin)
        PROVE  LossesAnswered
    <2>1. PICK fd \in FreeFds : /\ OpenFd(fd, GpioDir(pin))
                                /\ gpioDriver' = Bind(gpioDriver, pin, fd)
      BY <1>3 DEF OpenGpioPin
    <2>2. \A other \in DriverFds \cup {fd} : other \in DriverFds'
      BY <1>1, <1>3, <2>1 DEF DriverFds, Bind
    <2> QED BY <2>1, <2>2 DEF LossesAnswered, LostFds, OpenFd, Bind
  <1>4. ASSUME NEW pin \in gpios, CloseGpioPin(pin)
        PROVE  LossesAnswered
    <2>1. CloseFd(gpioDriver[pin]) /\ gpioDriver' = Unbind(gpioDriver, pin)
      BY <1>4 DEF CloseGpioPin
    <2>2. \A fd \in DriverFds : fd = gpioDriver[pin] \/ fd \in DriverFds'
      BY <1>1, <2>1 DEF DriverFds, Unbind, Restrict
    <2> QED BY <2>1, <2>2 DEF LossesAnswered, LostFds, CloseFd, Unbind, Restrict
  <1>5. ASSUME NEW pin \in gpios, NEW fd \in FreeFds,
               OpenFd(fd, GpioValueFile(LineOf(pin))), UNCHANGED gpioDriver,
               Reply("GetGpioPollingFd", <<pin>>, "ok", fd)
        PROVE  LossesAnswered
    <2>1. DriverFds' = DriverFds
      BY <1>1, <1>5 DEF DriverFds
    <2>2. LostFds' \ LostFds \subseteq {fd} /\ fdTable'[fd] = GpioValueFile(LineOf(pin))
      BY <1>5, <2>1 DEF LostFds, OpenFd, Bind
    <2>3. LineOf(pin) = pin
      BY LineOfOwn DEF PmInv
    <2>4. LeakAnswered(fd)
      BY <1>5, <2>2, <2>3 DEF LeakAnswered, Reply
    <2> QED BY <2>2, <2>4 DEF LossesAnswered
  <1> QED
    BY <1>1, <1>2, <1>3, <1>4, <1>5, GpioEffects
       DEF GpioQuiet, OpenGpioPinFails, gpioUnchanged

\* SPI and I2C close what they drop.
LEMMA SpiLosses ==
  ASSUME PmInv, SpiStep
  PROVE  LossesAnswered
  <1>1. SpiNext /\ UNCHANGED <<gpioDriver, i2cDriver, uartDriver>>
    BY DEF SpiStep, gpioVars, i2cVars, uartVars
  <1>2. CASE SpiQuiet
    <2>1. DriverFds' = DriverFds
      BY <1>1, <1>2 DEF DriverFds, SpiQuiet
    <2> QED BY <1>2, <2>1 DEF LossesAnswered, LostFds, SpiQuiet
  <1>3. ASSUME NEW bus \in SpiBus \ DOMAIN spiDriver, OpenSpiBus(bus)
        PROVE  LossesAnswered
    <2>1. PICK fd \in FreeFds : SpiDriverInit(bus, fd)
      BY <1>3 DEF OpenSpiBus
    <2>2. /\ OpenFd(fd, SpiDev(bus))
          /\ spiDriver' = Bind(spiDriver, bus, FreshDriver(fd))
          /\ FreshDriver(fd).fd = fd
      BY <2>1 DEF SpiDriverInit, FreshDriver
    <2>3. \A other \in DriverFds \cup {fd} : other \in DriverFds'
      BY <1>1, <1>3, <2>2 DEF DriverFds, Bind
    <2> QED BY <2>2, <2>3 DEF LossesAnswered, LostFds, OpenFd, Bind
  <1>4. ASSUME NEW bus \in spis, CloseSpiBus(bus)
        PROVE  LossesAnswered
    <2>1. CloseFd(spiDriver[bus].fd) /\ spiDriver' = Unbind(spiDriver, bus)
      BY <1>4 DEF CloseSpiBus
    <2>2. \A fd \in DriverFds : fd = spiDriver[bus].fd \/ fd \in DriverFds'
      BY <1>1, <2>1 DEF DriverFds, Unbind, Restrict
    <2> QED BY <2>1, <2>2 DEF LossesAnswered, LostFds, CloseFd, Unbind, Restrict
  <1> QED BY <1>1, <1>2, <1>3, <1>4, SpiEffects DEF PmInv

LEMMA I2cLosses ==
  ASSUME PmInv, I2cStep
  PROVE  LossesAnswered
  <1>1. I2cNext /\ UNCHANGED <<gpioDriver, spiDriver, uartDriver>>
    BY DEF I2cStep, gpioVars, spiVars, uartVars
  <1>2. CASE I2cQuiet
    <2>1. DriverFds' = DriverFds
      BY <1>1, <1>2 DEF DriverFds, I2cQuiet
    <2> QED BY <1>2, <2>1 DEF LossesAnswered, LostFds, I2cQuiet
  <1>3. ASSUME NEW dev, dev \notin DOMAIN i2cDriver, OpenI2cSlave(dev)
        PROVE  LossesAnswered
    <2>1. PICK fd \in FreeFds : /\ OpenFd(fd, I2cDev(dev))
                                /\ i2cDriver' = Bind(i2cDriver, dev, fd)
      BY <1>3 DEF OpenI2cSlave, I2cDriverInit
    <2>2. \A other \in DriverFds \cup {fd} : other \in DriverFds'
      BY <1>1, <1>3, <2>1 DEF DriverFds, Bind
    <2> QED BY <2>1, <2>2 DEF LossesAnswered, LostFds, OpenFd, Bind
  <1>4. ASSUME NEW dev \in i2cs, CloseI2cSlave(dev)
        PROVE  LossesAnswered
    <2>1. CloseFd(i2cDriver[dev]) /\ i2cDriver' = Unbind(i2cDriver, dev)
      BY <1>4 DEF CloseI2cSlave
    <2>2. \A fd \in DriverFds : fd = i2cDriver[dev] \/ fd \in DriverFds'
      BY <1>1, <2>1 DEF DriverFds, Unbind, Restrict
    <2> QED BY <2>1, <2>2 DEF LossesAnswered, LostFds, CloseFd, Unbind, Restrict
  <1> QED BY <1>1, <1>2, <1>3, <1>4, I2cEffects

\* UART does not: a release is what loses a descriptor, and a pull only kills it.
LEMMA UartLosses ==
  ASSUME PmInv, UartStep
  PROVE  LossesAnswered
  <1>1. UartNext /\ UNCHANGED <<gpioDriver, spiDriver, i2cDriver>>
    BY DEF UartStep, gpioVars, spiVars, i2cVars
  <1>2. CASE DOMAIN fdTable' = DOMAIN fdTable /\ UNCHANGED uartDriver
    <2>1. DriverFds' = DriverFds
      BY <1>1, <1>2 DEF DriverFds
    <2> QED BY <1>2, <2>1 DEF LossesAnswered, LostFds
  <1>3. ASSUME NEW name, UartOpens(name)
        PROVE  LossesAnswered
    <2> PICK canonical : OpenUart(name, canonical)
      BY <1>3 DEF UartOpens
    <2>1. PICK fd \in FreeFds :
            /\ OpenFd(fd, Tty(name))
            /\ uartDriver' = Bind(uartDriver, name, [fd |-> fd, canonical |-> canonical])
      BY DEF OpenUart
    <2>2. name \notin DOMAIN uartDriver
      BY <1>3 DEF UartOpens
    <2>3. \A other \in DriverFds \cup {fd} : other \in DriverFds'
      BY <1>1, <2>1, <2>2 DEF DriverFds, Bind
    <2> QED BY <2>1, <2>3 DEF LossesAnswered, LostFds, OpenFd, Bind
  <1>4. ASSUME NEW name \in uarts, CloseUart(name), uarts' = uarts \ {name},
               Reply("ReleaseUartDevice", <<name>>, "ok", "none"), UNCHANGED fdTable
        PROVE  LossesAnswered
    <2>1. uartDriver' = Unbind(uartDriver, name)
      BY <1>4 DEF CloseUart
    <2>2. \A fd \in DriverFds : fd = uartDriver[name].fd \/ fd \in DriverFds'
      BY <1>1, <2>1 DEF DriverFds, Unbind, Restrict
    <2>3. LostFds' \ LostFds \subseteq {uartDriver[name].fd}
      BY <1>4, <2>2 DEF LostFds
    <2>4. LeakAnswered(uartDriver[name].fd)
      BY <1>4 DEF LeakAnswered, Reply
    <2> QED BY <2>3, <2>4 DEF LossesAnswered
  <1>5. ASSUME NEW name, Unplug(name)
        PROVE  DOMAIN fdTable' = DOMAIN fdTable /\ UNCHANGED uartDriver
    BY <1>5 DEF Unplug
  <1> QED
    BY <1>1, <1>2, <1>3, <1>4, <1>5, UartEffects DEF UartQuiet

\* A step of the whole service.
LEMMA PmLosses ==
  ASSUME PmInv, [Next]_vars
  PROVE  LossesAnswered
  <1>1. CASE Crash \/ UNCHANGED vars
    <2>1. UNCHANGED <<fdTable, gpioDriver, spiDriver, i2cDriver, uartDriver>>
      BY <1>1 DEF Crash, vars, baseVars, gpioVars, spiVars, i2cVars, uartVars
    <2> QED BY <2>1 DEF LossesAnswered, LostFds, DriverFds
  <1>2. CASE Restart
    BY <1>2, EmptyMapLemma DEF Restart, Reboot, LossesAnswered, LostFds
  <1> QED BY <1>1, <1>2, GpioLosses, SpiLosses, I2cLosses, UartLosses DEF Next

\* A descriptor is lost one at a time, by a call that was answered "ok": one that
\* asked for it, to poll a GPIO that is open, or the release of the uart that had it.
THEOREM PmLeaksAreAnswered == Spec => LeaksAreAnswered
  <1>1. PmInv /\ [Next]_vars => [LossesAnswered]_vars
    BY PmLosses
  <1> QED
    BY <1>1, PmInvariant, PTL
       DEF Spec, LeaksAreAnswered, LossesAnswered, LeakAnswered
-----------------------------------------------------------------------------
(***************************************************************************)
(* Isolation.  The hardware of a device is a line, a chip or a rate, and a *)
(* device's name in the kernel says which.                                 *)
(***************************************************************************)
\* Which, in a state and in the next.
LEMMA HardwareParts ==
  /\ \A pin \in GpioPin : /\ GpioDir(pin) \in Device
                          /\ Hardware[GpioDir(pin)] = line[pin]
                          /\ Hardware'[GpioDir(pin)] = line'[pin]
  /\ \A bus \in SpiBus : /\ SpiDev(bus) \in Device
                         /\ Hardware[SpiDev(bus)] = spiChip[bus]
                         /\ Hardware'[SpiDev(bus)] = spiChip'[bus]
  /\ \A dev \in I2cBus \X Address : /\ I2cDev(dev) \in Device
                                    /\ Hardware[I2cDev(dev)] = 0
                                    /\ Hardware'[I2cDev(dev)] = 0
  /\ \A name \in UartDevice : /\ Tty(name) \in Device
                              /\ Hardware[Tty(name)] = baud[name]
                              /\ Hardware'[Tty(name)] = baud'[name]
  <1> USE DEF Device, GpioDevices, SpiDevices, I2cDevices, UartDevices
  <1>1. ASSUME NEW pin \in GpioPin
        PROVE  /\ GpioDir(pin) \in Device
               /\ Hardware[GpioDir(pin)] = line[pin]
               /\ Hardware'[GpioDir(pin)] = line'[pin]
    <2>1. GpioDir(pin) \in GpioDevices /\ GpioDir(pin)[2] = pin
      BY DEF GpioDir
    <2> QED BY <2>1 DEF Hardware, SpiDev, I2cDev, Tty, GpioDir
  <1>2. ASSUME NEW bus \in SpiBus
        PROVE  /\ SpiDev(bus) \in Device
               /\ Hardware[SpiDev(bus)] = spiChip[bus]
               /\ Hardware'[SpiDev(bus)] = spiChip'[bus]
    <2>1. SpiDev(bus) \in SpiDevices /\ SpiDev(bus)[2] = bus
      BY DEF SpiDev
    <2>2. SpiDev(bus) \notin GpioDevices
      BY DEF SpiDev, GpioDir
    <2> QED BY <2>1, <2>2 DEF Hardware, SpiDev, I2cDev, Tty, GpioDir
  <1>3. ASSUME NEW dev \in I2cBus \X Address
        PROVE  /\ I2cDev(dev) \in Device
               /\ Hardware[I2cDev(dev)] = 0
               /\ Hardware'[I2cDev(dev)] = 0
    <2>1. I2cDev(dev) \in I2cDevices
      OBVIOUS
    <2>2. I2cDev(dev) \notin GpioDevices \cup SpiDevices \cup UartDevices
      BY DEF SpiDev, GpioDir, I2cDev, Tty
    <2> QED BY <2>1, <2>2 DEF Hardware
  <1>4. ASSUME NEW name \in UartDevice
        PROVE  /\ Tty(name) \in Device
               /\ Hardware[Tty(name)] = baud[name]
               /\ Hardware'[Tty(name)] = baud'[name]
    <2>1. Tty(name) \in UartDevices /\ Tty(name)[2] = name
      BY DEF Tty
    <2>2. Tty(name) \notin GpioDevices \cup SpiDevices
      BY DEF SpiDev, GpioDir, Tty
    <2> QED BY <2>1, <2>2 DEF Hardware
  <1> QED BY <1>1, <1>2, <1>3, <1>4

\* What changes in no line, chip or rate but those of some devices changes in
\* no other device's hardware.
LEMMA HardwareChanges ==
  ASSUME NEW some,
         \A pin \in GpioPin : line'[pin] # line[pin] => GpioDir(pin) \in some,
         \A bus \in SpiBus : spiChip'[bus] # spiChip[bus] => SpiDev(bus) \in some,
         \A name \in UartDevice : baud'[name] # baud[name] => Tty(name) \in some
  PROVE  /\ \A d \in Device \ some : Hardware'[d] = Hardware[d]
         /\ some = {} => UNCHANGED Hardware
         /\ \A d : some = {d} => Devices!OnlyHardwareOf(d)
  <1>1. ASSUME NEW d \in Device \ some
        PROVE  Hardware'[d] = Hardware[d]
    <2>1. CASE d \in GpioDevices
      BY <2>1, HardwareParts DEF GpioDevices
    <2>2. CASE d \in SpiDevices
      BY <2>2, HardwareParts DEF SpiDevices
    <2>3. CASE d \in I2cDevices
      BY <2>3, HardwareParts DEF I2cDevices
    <2>4. CASE d \in UartDevices
      BY <2>4, HardwareParts DEF UartDevices
    <2> QED BY <2>1, <2>2, <2>3, <2>4 DEF Device
  <1>2. /\ Hardware = [d \in Device |-> Hardware[d]]
        /\ Hardware' = [d \in Device |-> Hardware'[d]]
    BY DEF Hardware
  <1>3. some = {} => UNCHANGED Hardware
    BY <1>1, <1>2
  <1>4. ASSUME NEW d, some = {d}
        PROVE  Devices!OnlyHardwareOf(d)
    BY <1>1, <1>2, <1>4, Zenon DEF Devices!OnlyHardwareOf
  <1> QED BY <1>1, <1>3, <1>4

\* A step that is none of those Isolation knows is one it does not see.
IsolatedStep == Devices!Next \/ UNCHANGED Devices!vars

\* GPIO's steps: an open and a close of a pin, a use of its line, or nothing.
LEMMA GpioIsolated ==
  ASSUME PmInv, GpioStep
  PROVE  IsolatedStep
  <1>1. /\ GpioNext /\ alive /\ alive' /\ UNCHANGED <<spiVars, i2cVars, uartVars>>
        /\ gpios \subseteq GpioPin /\ gpios = DOMAIN gpioDriver
    BY GpioEffects
       DEF GpioStep, GpioNext, running, alive, PmInv, GpioInv, GpioTypeOK,
           GpioHandlesMatchDrivers
  <1>2. UNCHANGED <<spiChip, baud, spis, i2cs, uarts>>
    BY <1>1 DEF spiVars, i2cVars, uartVars
  <1>3. \A pin : GpioDir(pin) \in OpenDevices <=> pin \in gpios
    BY DEF OpenDevices, OpenSourceDevices, GpioDir, SpiDev, I2cDev, Tty
  <1>4. ASSUME UNCHANGED gpios, \A pin \in GpioPin : line'[pin] = line[pin]
        PROVE  IsolatedStep
    <2>1. UNCHANGED OpenDevices
      BY <1>2, <1>4 DEF OpenDevices, OpenSourceDevices
    <2>2. UNCHANGED Hardware
      BY <1>2, <1>4, HardwareChanges
    <2> QED BY <1>1, <2>1, <2>2 DEF IsolatedStep, Devices!vars
  <1>5. ASSUME NEW pin \in GpioPin, pin \notin gpios, gpios' = gpios \cup {pin},
               UNCHANGED line
        PROVE  IsolatedStep
    <2>1. OpenDevices' = OpenDevices \cup {GpioDir(pin)}
      BY <1>2, <1>5 DEF OpenDevices, OpenSourceDevices
    <2>2. Devices!OnlyHardwareOf(GpioDir(pin))
      BY <1>2, <1>5, HardwareChanges
    <2>3. Devices!Open(GpioDir(pin))
      BY <1>1, <1>3, <1>5, <2>1, <2>2 DEF Devices!Open
    <2> QED BY <2>3, HardwareParts DEF IsolatedStep, Devices!Next
  <1>6. ASSUME NEW pin \in gpios, gpios' = gpios \ {pin}, UNCHANGED line
        PROVE  IsolatedStep
    <2>1. OpenDevices' = OpenDevices \ {GpioDir(pin)}
      BY <1>2, <1>6 DEF OpenDevices, OpenSourceDevices, GpioDir, SpiDev, I2cDev, Tty
    <2>2. UNCHANGED Hardware
      BY <1>2, <1>6, HardwareChanges
    <2>3. Devices!Close(GpioDir(pin))
      BY <1>1, <1>3, <1>6, <2>1, <2>2 DEF Devices!Close
    <2> QED BY <1>1, <1>6, <2>3, HardwareParts DEF IsolatedStep, Devices!Next
  <1>7. ASSUME UNCHANGED gpios
        PROVE  IsolatedStep
    <2>1. LineStep
      BY <1>1, GpioNextLineStep DEF PmInv, GpioSpecNext
    <2>2. CASE \A pin \in GpioPin : line'[pin] = line[pin]
      BY <1>4, <1>7, <2>2
    <2>3. CASE \E pin \in GpioPin : line'[pin] # line[pin]
      <3>1. PICK pin \in GpioPin : line'[pin] # line[pin]
        BY <2>3
      <3>2. /\ pin \in gpios
            /\ \A other \in GpioPin : line'[other] # line[other] => other = pin
        BY <2>1, <3>1 DEF LineStep
      <3>3. Devices!OnlyHardwareOf(GpioDir(pin))
        BY <1>2, <3>2, HardwareChanges
      <3>4. UNCHANGED OpenDevices
        BY <1>2, <1>7 DEF OpenDevices, OpenSourceDevices
      <3>5. Devices!Use(GpioDir(pin))
        BY <1>1, <1>3, <3>2, <3>3, <3>4 DEF Devices!Use
      <3> QED BY <3>5, HardwareParts DEF IsolatedStep, Devices!Next
    <2> QED BY <2>2, <2>3
  <1> QED BY <1>1, <1>5, <1>6, <1>7, GpioEffects DEF GpioQuiet, gpioUnchanged, gpioVars

\* A handler that ends the process has set no chip.
LEMMA SpiChipsOrLoop == SpiNext => UNCHANGED loop \/ UNCHANGED spiChip
  BY DEF SpiNext, ListSpiBuses, OpenSpiDevice, ReleaseSpiDevice, SpiDeviceSetMode,
         SpiDeviceSetFrequency, SpiDeviceSetBitJustification, SpiDeviceSetBitsPerWord,
         SpiDeviceSetDelay, SpiDeviceTransfer, SpiDeviceWriteByte, SpiDeviceWriteBuffer,
         baseVars, spiUnchanged, spiVars

\* SPI's: as GPIO's, or the end of the process in a handler.
LEMMA SpiIsolated ==
  ASSUME PmInv, SpiStep
  PROVE  IsolatedStep
  <1>1. /\ SpiNext /\ alive /\ UNCHANGED <<gpioVars, i2cVars, uartVars>>
        /\ spis \subseteq SpiBus /\ spis = DOMAIN spiDriver
    BY DEF SpiStep, SpiNext, running, alive, PmInv, SpiInv, SpiTypeOK,
           SpiHandlesMatchDrivers
  <1>2. UNCHANGED <<line, baud, gpios, i2cs, uarts>>
    BY <1>1 DEF gpioVars, i2cVars, uartVars
  <1>3. \A bus : SpiDev(bus) \in OpenDevices <=> bus \in spis
    BY DEF OpenDevices, OpenSourceDevices, GpioDir, SpiDev, I2cDev, Tty
  <1>4. loop' \in {loop, "down"} /\ (loop' # loop => UNCHANGED spiChip)
    BY <1>1, SpiEffects, SpiChipsOrLoop DEF PmInv
  <1>5. ASSUME NEW bus \in SpiBus, bus \notin spis, spis' = spis \cup {bus},
               UNCHANGED spiChip, UNCHANGED loop
        PROVE  IsolatedStep
    <2>1. OpenDevices' = OpenDevices \cup {SpiDev(bus)}
      BY <1>2, <1>5 DEF OpenDevices, OpenSourceDevices
    <2>2. Devices!OnlyHardwareOf(SpiDev(bus))
      BY <1>2, <1>5, HardwareChanges
    <2>3. Devices!Open(SpiDev(bus))
      BY <1>1, <1>3, <1>5, <2>1, <2>2 DEF Devices!Open, alive
    <2> QED BY <2>3, HardwareParts DEF IsolatedStep, Devices!Next
  <1>6. ASSUME NEW bus \in spis, spis' = spis \ {bus}, UNCHANGED spiChip,
               UNCHANGED loop
        PROVE  IsolatedStep
    <2>1. OpenDevices' = OpenDevices \ {SpiDev(bus)}
      BY <1>2, <1>6 DEF OpenDevices, OpenSourceDevices, GpioDir, SpiDev, I2cDev, Tty
    <2>2. UNCHANGED Hardware
      BY <1>2, <1>6, HardwareChanges
    <2>3. Devices!Close(SpiDev(bus))
      BY <1>1, <1>3, <1>6, <2>1, <2>2 DEF Devices!Close, alive
    <2> QED BY <1>1, <1>6, <2>3, HardwareParts DEF IsolatedStep, Devices!Next
  <1>7. ASSUME UNCHANGED spis, UNCHANGED loop
        PROVE  IsolatedStep
    <2>1. ChipStep
      BY <1>1, SpiNextChipStep DEF PmInv, SpiSpecNext
    <2>2. UNCHANGED OpenDevices
      BY <1>2, <1>7 DEF OpenDevices, OpenSourceDevices
    <2>3. CASE \A bus \in SpiBus : spiChip'[bus] = spiChip[bus]
      <3>1. UNCHANGED Hardware
        BY <1>2, <2>3, HardwareChanges
      <3> QED BY <1>7, <2>2, <3>1 DEF IsolatedStep, Devices!vars, alive
    <2>4. CASE \E bus \in SpiBus : spiChip'[bus] # spiChip[bus]
      <3>1. PICK bus \in SpiBus : spiChip'[bus] # spiChip[bus]
        BY <2>4
      <3>2. /\ bus \in spis
            /\ \A other \in SpiBus : spiChip'[other] # spiChip[other] => other = bus
        BY <2>1, <3>1 DEF ChipStep
      <3>3. Devices!OnlyHardwareOf(SpiDev(bus))
        BY <1>2, <3>2, HardwareChanges
      <3>4. Devices!Use(SpiDev(bus))
        BY <1>1, <1>3, <1>7, <2>2, <3>2, <3>3 DEF Devices!Use, alive
      <3> QED BY <3>4, HardwareParts DEF IsolatedStep, Devices!Next
    <2> QED BY <2>3, <2>4
  <1>8. CASE loop' # loop
    <2>1. UNCHANGED Hardware
      BY <1>2, <1>4, <1>8, HardwareChanges
    <2>2. Devices!Crash
      BY <1>4, <1>8, <2>1 DEF Devices!Crash, alive
    <2> QED BY <2>2 DEF IsolatedStep, Devices!Next
  <1> QED BY <1>1, <1>5, <1>6, <1>7, <1>8, SpiEffects DEF PmInv, SpiQuiet

\* I2C's: an open or a close of a slave.
LEMMA I2cIsolated ==
  ASSUME PmInv, I2cStep
  PROVE  IsolatedStep
  <1>1. /\ I2cNext /\ alive /\ alive' /\ UNCHANGED <<gpioVars, spiVars, uartVars>>
        /\ i2cs \subseteq I2cBus \X Address /\ i2cs = DOMAIN i2cDriver
    BY I2cEffects
       DEF I2cStep, I2cNext, running, alive, PmInv, I2cInv, I2cTypeOK,
           I2cHandlesMatchDrivers
  <1>2. UNCHANGED <<line, spiChip, baud, gpios, spis, uarts>>
    BY <1>1 DEF gpioVars, spiVars, uartVars
  <1>3. \A dev \in I2cBus \X Address : I2cDev(dev) \in OpenDevices <=> dev \in i2cs
    BY <1>1 DEF OpenDevices, OpenSourceDevices, GpioDir, SpiDev, I2cDev, Tty
  <1>4. UNCHANGED Hardware /\ \A d : Devices!OnlyHardwareOf(d)
    BY <1>2, HardwareChanges
  <1>5. ASSUME NEW dev \in I2cBus \X Address, dev \notin i2cs, i2cs' = i2cs \cup {dev}
        PROVE  IsolatedStep
    <2>1. OpenDevices' = OpenDevices \cup {I2cDev(dev)}
      BY <1>2, <1>5 DEF OpenDevices, OpenSourceDevices
    <2>2. Devices!Open(I2cDev(dev))
      BY <1>1, <1>3, <1>4, <1>5, <2>1 DEF Devices!Open
    <2> QED BY <2>2, HardwareParts DEF IsolatedStep, Devices!Next
  <1>6. ASSUME NEW dev \in i2cs, i2cs' = i2cs \ {dev}
        PROVE  IsolatedStep
    <2>1. OpenDevices' = OpenDevices \ {I2cDev(dev)}
      BY <1>1, <1>2, <1>6 DEF OpenDevices, OpenSourceDevices, GpioDir, SpiDev, I2cDev, Tty
    <2>2. Devices!Close(I2cDev(dev))
      BY <1>1, <1>3, <1>4, <1>6, <2>1 DEF Devices!Close
    <2> QED BY <1>1, <1>6, <2>2, HardwareParts DEF IsolatedStep, Devices!Next
  <1>7. ASSUME UNCHANGED i2cs
        PROVE  IsolatedStep
    <2>1. UNCHANGED OpenDevices
      BY <1>2, <1>7 DEF OpenDevices, OpenSourceDevices
    <2> QED BY <1>1, <1>4, <2>1 DEF IsolatedStep, Devices!vars
  <1> QED BY <1>1, <1>5, <1>6, <1>7, I2cEffects DEF I2cQuiet

\* A rate is set by a process that goes on, or goes with its adapter.
LEMMA UartRatesOrLoop ==
  ASSUME UartNext
  PROVE  /\ (alive /\ alive') \/ UNCHANGED baud \/ \E name \in plugged : Unplug(name)
         /\ plugged \subseteq plugged' \/ \E name \in plugged : Unplug(name)
  <1>1. CASE \E request, name, canonical : OpenUartDevice(request, name, canonical) /\ running
    BY <1>1 DEF OpenUartDevice, OpenUartFails, running, alive, ClientOpenUartDevice
  <1>2. CASE UartResume
    BY <1>2 DEF UartResume, alive
  <1>3. CASE \/ \E request, name : ReleaseUartDevice(request, name)
             \/ \E request : ListUartDevices(request)
    BY <1>3 DEF ReleaseUartDevice, ListUartDevices
  <1>4. CASE \E request, name, size : UartOtherCall(request, name, size)
    BY <1>4
       DEF UartOtherCall, UartDeviceWrite, UartDeviceRead, GetBaudrate,
           GetuartPollingFd, uartUnchanged, uartVars
  <1>5. CASE running /\ \E request, name, rate : SetUartDeviceBaudrate(request, name, rate)
    BY <1>5 DEF SetUartDeviceBaudrate, baseVars, running, alive
  <1>6. CASE \/ \E name : Plug(name)
             \/ \E name \in plugged : Unplug(name)
    BY <1>6 DEF Plug, Unplug, baseVars
  <1> QED BY <1>1, <1>2, <1>3, <1>4, <1>5, <1>6, UartSteps DEF UartNext, UartOtherCall

\* UART's: as the others', and a list, a wait, or a pull of an adapter.
LEMMA UartIsolated ==
  ASSUME PmInv, UartStep
  PROVE  IsolatedStep
  <1>1. /\ UartNext /\ UNCHANGED <<gpioVars, spiVars, i2cVars>>
        /\ uarts \subseteq UartDevice /\ uarts = DOMAIN uartDriver
        /\ DOMAIN uartMux \subseteq UartDevice /\ plugged \subseteq Adapter
        /\ baud \in [UartDevice -> Baudrate]
    BY DEF UartStep, PmInv, UartInv, UartTypeOK, UartHandlesMatchDrivers
  <1>2. UNCHANGED <<line, spiChip, gpios, spis, i2cs>>
    BY <1>1 DEF gpioVars, spiVars, i2cVars
  <1>3. \A name : Tty(name) \in OpenDevices <=> name \in uarts
    BY DEF OpenDevices, OpenSourceDevices, GpioDir, SpiDev, I2cDev, Tty
  <1>4. CASE \E name \in plugged : Unplug(name)
    <2>1. PICK name \in plugged : Unplug(name)
      BY <1>4
    <2>2. UNCHANGED <<OpenDevices, loop>> /\ name \in UartDevice
      BY <1>1, <1>2, <2>1 DEF OpenDevices, OpenSourceDevices, Unplug, UartDevice
    <2>3. baud' = [baud EXCEPT ![name] = DefaultBaud]
      BY <2>1 DEF Unplug
    <2>4. Hardware' = [Hardware EXCEPT ![Tty(name)] = DefaultBaud]
      <3>1. \A d \in Device \ {Tty(name)} : Hardware'[d] = Hardware[d]
        BY <1>1, <1>2, <2>3, HardwareChanges
      <3>2. Hardware'[Tty(name)] = DefaultBaud
        BY <1>1, <2>2, <2>3, HardwareParts
      <3>3. /\ Hardware = [d \in Device |-> Hardware[d]]
            /\ Hardware' = [d \in Device |-> Hardware'[d]]
        BY DEF Hardware
      <3> QED BY <3>1, <3>2, <3>3
    <2>5. Devices!Pull(Tty(name))
      BY <1>1, <2>2, <2>4 DEF Devices!Pull, alive
    <2> QED BY <2>2, <2>5, HardwareParts DEF IsolatedStep, Devices!Next
  <1>5. ASSUME NEW name, UartOpens(name)
        PROVE  IsolatedStep
    <2>1. /\ alive /\ alive' /\ name \in UartDevice \ uarts /\ uarts' = uarts \cup {name}
          /\ \A other \in UartDevice : baud'[other] # baud[other] => other = name
      BY <1>1, <1>5 DEF UartOpens, OpenUart
    <2>2. OpenDevices' = OpenDevices \cup {Tty(name)}
      BY <1>2, <2>1 DEF OpenDevices, OpenSourceDevices
    <2>3. Devices!OnlyHardwareOf(Tty(name))
      BY <1>2, <2>1, HardwareChanges
    <2>4. Devices!Open(Tty(name))
      BY <1>3, <2>1, <2>2, <2>3 DEF Devices!Open
    <2> QED BY <2>1, <2>4, HardwareParts DEF IsolatedStep, Devices!Next
  <1>6. ASSUME NEW name \in uarts, alive, CloseUart(name), uarts' = uarts \ {name},
               UNCHANGED <<loop, baud>>
        PROVE  IsolatedStep
    <2>1. OpenDevices' = OpenDevices \ {Tty(name)}
      BY <1>2, <1>6 DEF OpenDevices, OpenSourceDevices, GpioDir, SpiDev, I2cDev, Tty
    <2>2. UNCHANGED Hardware
      BY <1>2, <1>6, HardwareChanges
    <2>3. Devices!Close(Tty(name))
      BY <1>3, <1>6, <2>1, <2>2 DEF Devices!Close, alive
    <2> QED BY <1>1, <1>6, <2>3, HardwareParts DEF IsolatedStep, Devices!Next
  <1>7. ASSUME UNCHANGED uarts, \A name \in UartDevice : baud'[name] = baud[name]
        PROVE  IsolatedStep
    <2>1. UNCHANGED OpenDevices
      BY <1>2, <1>7 DEF OpenDevices, OpenSourceDevices
    <2>2. UNCHANGED Hardware
      BY <1>2, <1>7, HardwareChanges
    <2>3. CASE alive /\ ~ alive'
      BY <2>2, <2>3 DEF IsolatedStep, Devices!Next, Devices!Crash
    <2>4. CASE alive' <=> alive
      BY <2>1, <2>2, <2>4 DEF IsolatedStep, Devices!vars
    <2> QED BY <1>1, <2>3, <2>4, UartEffects DEF alive
  <1>8. ASSUME UNCHANGED uarts, plugged \subseteq plugged'
        PROVE  IsolatedStep
    <2>1. BaudStep
      BY <1>1, UartNextBaudStep DEF PmInv, UartSpecNext
    <2>2. CASE \E name \in UartDevice : baud'[name] # baud[name]
      <3>1. PICK name \in UartDevice : baud'[name] # baud[name]
        BY <2>2
      <3>2. /\ name \in uarts
            /\ \A other \in UartDevice : baud'[other] # baud[other] => other = name
        BY <1>8, <2>1, <3>1 DEF BaudStep
      <3>3. (alive /\ alive') \/ \E other \in plugged : Unplug(other)
        BY <1>1, <3>1, UartRatesOrLoop
      <3>4. Devices!OnlyHardwareOf(Tty(name))
        BY <1>2, <3>2, HardwareChanges
      <3>5. UNCHANGED OpenDevices
        BY <1>2, <1>8 DEF OpenDevices, OpenSourceDevices
      <3>6. alive /\ alive' => Devices!Use(Tty(name))
        BY <1>3, <3>2, <3>4, <3>5 DEF Devices!Use
      <3> QED BY <1>4, <3>3, <3>6, HardwareParts DEF IsolatedStep, Devices!Next
    <2> QED BY <1>7, <1>8, <2>2
  <1> QED
    BY <1>1, <1>4, <1>5, <1>6, <1>7, <1>8, UartEffects, UartRatesOrLoop DEF UartQuiet

\* A step of the service is one that Isolation allows, or one it does not see.
LEMMA PmNextIsolated ==
  ASSUME PmInv, [Next]_vars
  PROVE  IsolatedStep
  <1>1. CASE Crash
    <2>1. UNCHANGED <<line, spiChip, baud>> /\ ~ alive'
      BY <1>1 DEF Crash, Die, alive, gpioVars, spiVars, uartVars
    <2>2. UNCHANGED Hardware
      BY <2>1, HardwareChanges
    <2> QED BY <2>1, <2>2 DEF IsolatedStep, Devices!Next, Devices!Crash
  <1>2. CASE Restart
    <2>1. /\ UNCHANGED <<line, spiChip, baud>>
          /\ ~ alive /\ OpenDevices' = {}
      BY <1>2 DEF Restart, Reboot, GpioReboot, SpiReboot, I2cReboot, UartReboot,
                  OpenDevices, OpenSourceDevices
    <2>2. UNCHANGED Hardware
      BY <2>1, HardwareChanges
    <2> QED BY <2>1, <2>2 DEF IsolatedStep, Devices!vars
  <1>3. CASE UNCHANGED vars
    <2>1. UNCHANGED <<line, spiChip, baud, gpios, spis, i2cs, uarts, loop>>
      BY <1>3 DEF vars, baseVars, gpioVars, spiVars, i2cVars, uartVars
    <2>2. UNCHANGED Hardware
      BY <2>1, HardwareChanges
    <2> QED
      BY <2>1, <2>2
         DEF IsolatedStep, Devices!vars, OpenDevices, OpenSourceDevices, alive
  <1> QED
    BY <1>1, <1>2, <1>3, GpioIsolated, SpiIsolated, I2cIsolated, UartIsolated DEF Next

\* At the start no device is open, and the hardware is as it is.
LEMMA PmInitIsolated == Init => Devices!Init
  BY DEF Init, GpioInit, SpiInit, I2cInit, UartInit, Devices!Init, OpenDevices,
         OpenSourceDevices, Hardware

\* The service implements Isolation, on every board: although the devices share
\* descriptors, pins, the main loop and the process, a step concerns one device,
\* and hardware changes only for whoever has the device open, by an open of it,
\* or because it was pulled.
THEOREM PmIsolated == Spec => DevicesIsolated
  <1>1. PmInv /\ [Next]_vars => [Devices!Next]_(Devices!vars)
    BY PmNextIsolated DEF IsolatedStep
  <1> QED BY <1>1, PmInitIsolated, PmInvariant, PTL
       DEF Spec, DevicesIsolated, Devices!Spec
-----------------------------------------------------------------------------
(***************************************************************************)
(* Pins, on every board.  The inductive part is that a pin in use is one   *)
(* of an open device or of a GPIO, so that an open finds pins of its own   *)
(* idle and claims them all, and that a uart keeps the mux it was          *)
(* registered with, so that a release drops what an open took.             *)
(***************************************************************************)
UartMuxesKept == /\ uarts \subseteq DOMAIN uartMux
                 /\ \A name \in DOMAIN uartMux : uartMux[name] = UartMuxOf(name)

\* Shared pins are claimed together and dropped together.
PinsTogether ==
  \A d \in SourceDevices :
    SharedPins(d) => PinsOf(d) \subseteq inUse \/ PinsOf(d) \cap inUse = {}

PinsInv ==
  /\ UartMuxesKept
  /\ inUse \subseteq (UNION {PinsOf(d) : d \in OpenSourceDevices})
                       \cup {GpioMux[pin] : pin \in GpioPin}
  /\ PinsHeld
  /\ PinsTogether

\* A device's name in the kernel says its mux.
LEMMA SourceDeviceMux ==
  /\ \A bus \in SpiBus : SpiDev(bus) \in SourceDevices /\ MuxOf(SpiDev(bus)) = SpiMux[bus]
  /\ \A dev \in I2cBus \X Address :
       I2cDev(dev) \in SourceDevices /\ MuxOf(I2cDev(dev)) = I2cMux[dev[1]]
  /\ \A name \in UartDevice :
       Tty(name) \in SourceDevices /\ MuxOf(Tty(name)) = UartMuxOf(name)
  <1> USE DEF SourceDevices
  <1>1. ASSUME NEW bus \in SpiBus
        PROVE  SpiDev(bus) \in SourceDevices /\ MuxOf(SpiDev(bus)) = SpiMux[bus]
    <2>1. SpiDev(bus) \in SpiDevices /\ SpiDev(bus)[2] = bus
      BY DEF SpiDevices, SpiDev
    <2>2. SpiDev(bus) \notin I2cDevices \cup UartDevices
      BY DEF I2cDevices, UartDevices, SpiDev, I2cDev, Tty
    <2> QED BY <2>1, <2>2 DEF MuxOf
  <1>2. ASSUME NEW dev \in I2cBus \X Address
        PROVE  I2cDev(dev) \in SourceDevices /\ MuxOf(I2cDev(dev)) = I2cMux[dev[1]]
    <2>1. I2cDev(dev) \in I2cDevices /\ I2cDev(dev)[2] = dev[1]
      BY DEF I2cDevices, I2cDev
    <2>2. I2cDev(dev) \notin SpiDevices \cup UartDevices
      BY DEF SpiDevices, UartDevices, SpiDev, I2cDev, Tty
    <2> QED BY <2>1, <2>2 DEF MuxOf
  <1>3. ASSUME NEW name \in UartDevice
        PROVE  Tty(name) \in SourceDevices /\ MuxOf(Tty(name)) = UartMuxOf(name)
    <2>1. Tty(name) \in UartDevices /\ Tty(name)[2] = name
      BY DEF UartDevices, Tty
    <2>2. Tty(name) \notin SpiDevices \cup I2cDevices
      BY DEF SpiDevices, I2cDevices, SpiDev, I2cDev, Tty
    <2> QED BY <2>1, <2>2 DEF MuxOf
  <1> QED BY <1>1, <1>2, <1>3

\* The open devices are devices of the board.
LEMMA OpenDevicesKnown ==
  ASSUME PmInv
  PROVE  OpenSourceDevices \subseteq SourceDevices /\ gpios \subseteq GpioPin
  <1>1. /\ gpios \subseteq GpioPin /\ spis \subseteq SpiBus
        /\ i2cs \subseteq I2cBus \X Address /\ uarts \subseteq UartDevice
    BY DEF PmInv, GpioInv, GpioTypeOK, SpiInv, SpiTypeOK, I2cInv, I2cTypeOK, UartInv,
           UartTypeOK
  <1> QED
    BY <1>1 DEF OpenSourceDevices, SourceDevices, SpiDevices, I2cDevices, UartDevices

\* An open of a device with a source claims all its pins or none, and all if they
\* are its own.
LEMMA SourceOpenPins ==
  ASSUME NamesApart, PmInv, PinsInv, NEW d \in SourceDevices, d \notin OpenSourceDevices,
         ClaimMux(MuxOf(d)), OpenSourceDevices' = OpenSourceDevices \cup {d},
         UNCHANGED gpios, UartMuxesKept'
  PROVE  PinsInv'
  <1>1. MuxOf(d) = NoMux => PinsOf(d) = {}
    BY DEF NamesApart, PinsOf, SourcePins, Registered
  <1>2. /\ inUse' \in {inUse, inUse \cup PinsOf(d)}
        /\ PinsOf(d) \cap inUse = {} => inUse' = inUse \cup PinsOf(d)
    BY <1>1 DEF ClaimMux, SetSource, PinsOf, SourcePins, muxVars
  <1>3. OwnPins(d) => PinsOf(d) \cap inUse = {}
    BY OpenDevicesKnown DEF PinsInv, OwnPins
  <1>4. PinsTogether'
    BY <1>2 DEF PinsInv, PinsTogether, SharedPins
  <1> QED BY <1>2, <1>3, <1>4 DEF PinsInv, PinsHeld

\* A release gives up the device's pins, and those of no other that has its own.
LEMMA SourceClosePins ==
  ASSUME NamesApart, PmInv, PinsInv, NEW d \in OpenSourceDevices,
         DropMux(MuxOf(d)), OpenSourceDevices' = OpenSourceDevices \ {d},
         UNCHANGED gpios, UartMuxesKept'
  PROVE  PinsInv'
  <1>1. inUse' = inUse \ PinsOf(d)
    <2>1. MuxOf(d) = NoMux => PinsOf(d) = {}
      BY DEF NamesApart, PinsOf, SourcePins, Registered
    <2> QED BY <2>1 DEF DropMux, ReleaseSource, PinsOf, SourcePins, muxVars
  <1>2. d \in SourceDevices
    BY OpenDevicesKnown
  <1>3. /\ \A e \in OpenSourceDevices \ {d} :
             OwnPins(e) => PinsOf(e) \cap PinsOf(d) = {}
        /\ \A pin \in gpios : OwnPin(pin) => GpioMux[pin] \notin PinsOf(d)
    BY <1>2 DEF OwnPins, OwnPin
  <1>4. PinsTogether'
    BY <1>1, <1>2 DEF PinsInv, PinsTogether, SharedPins
  <1> QED BY <1>1, <1>3, <1>4 DEF PinsInv, PinsHeld

\* A GPIO claims its own pin, whether or not the open succeeds.
LEMMA GpioOpenPins ==
  ASSUME NamesApart, PinsInv, NEW pin \in GpioPin, ClaimGpioMux(GpioMux[pin]),
         gpios' \subseteq gpios \cup {pin}, UNCHANGED OpenSourceDevices, UartMuxesKept'
  PROVE  PinsInv'
  <1> DEFINE mux == GpioMux[pin]
  <1>1. /\ inUse \subseteq inUse' /\ inUse' \subseteq inUse \cup {mux}
        /\ mux \in Pin /\ OwnPin(pin) => mux \in inUse'
    BY DEF ClaimGpioMux, SetGpio, NamesApart, OwnPin, muxVars
  <1>2. PinsTogether'
    BY <1>1 DEF PinsInv, PinsTogether, SharedPins
  <1> QED BY <1>1, <1>2 DEF PinsInv, PinsHeld

\* And gives it up, which is no other's that has its own.
LEMMA GpioClosePins ==
  ASSUME PmInv, PinsInv, NEW pin \in GpioPin, DropGpioMux(GpioMux[pin]),
         gpios' = gpios \ {pin}, UNCHANGED OpenSourceDevices, UartMuxesKept'
  PROVE  PinsInv'
  <1> DEFINE mux == GpioMux[pin]
  <1>1. inUse \ {mux} \subseteq inUse' /\ inUse' \subseteq inUse
    BY DEF DropGpioMux, ReleaseGpioMux, muxVars
  <1>2. /\ \A d \in OpenSourceDevices : OwnPins(d) => mux \notin PinsOf(d)
        /\ \A other \in gpios \ {pin} : OwnPin(other) => GpioMux[other] # mux
    BY DEF OwnPins, OwnPin
  <1>3. PinsTogether'
    BY <1>1 DEF PinsInv, PinsTogether, SharedPins
  <1> QED BY <1>1, <1>2, <1>3 DEF PinsInv, PinsHeld

\* A step that opens and releases nothing claims and drops nothing.
LEMMA IdlePins ==
  ASSUME PinsInv, UNCHANGED inUse, UNCHANGED gpios, UNCHANGED OpenSourceDevices,
         UartMuxesKept'
  PROVE  PinsInv'
  BY DEF PinsInv, PinsHeld, PinsTogether

\* A uart keeps its mux: a list registers an adapter under its own name.
LEMMA UartNextMuxesKept ==
  ASSUME NamesApart, UartInv, UartMuxesKept, UartNext
  PROVE  UartMuxesKept'
  <1>1. CASE UNCHANGED uartMux /\ uarts' \subseteq DOMAIN uartMux
    BY <1>1 DEF UartMuxesKept, UartMuxOf, BspUart
  <1>2. CASE GetDevicesList /\ UNCHANGED uarts
    <2>1. plugged \cap BspUart = {}
      BY DEF NamesApart, UartInv, UartTypeOK
    <2>2. CASE uartMux' = [name \in DOMAIN uartMux \cup plugged |->
                             IF name \in plugged THEN name ELSE uartMux[name]]
      BY <1>2, <2>1, <2>2 DEF UartMuxesKept, UartMuxOf, BspUart
    <2> QED BY <1>1, <1>2, <2>2 DEF GetDevicesList, UartMuxesKept
  <1> QED
    BY <1>1, <1>2, UartEffects DEF UartMuxesKept, UartQuiet, UartOpens, Unplug

\* What a step of each kind opens or releases it claims or drops.
LEMMA PmNextKeepsPins ==
  ASSUME NamesApart, PmInv, PinsInv, [Next]_vars
  PROVE  PinsInv'
  <1>1. /\ gpios \subseteq GpioPin /\ spis = DOMAIN spiDriver /\ spis \subseteq SpiBus
        /\ i2cs = DOMAIN i2cDriver /\ i2cs \subseteq I2cBus \X Address
        /\ uarts = DOMAIN uartDriver /\ uarts \subseteq UartDevice
        /\ UartMuxesKept /\ DOMAIN uartMux \subseteq UartDevice
    BY DEF PmInv, GpioInv, GpioTypeOK, SpiInv, SpiTypeOK, SpiHandlesMatchDrivers, I2cInv,
           I2cTypeOK, I2cHandlesMatchDrivers, UartInv, UartTypeOK,
           UartHandlesMatchDrivers, PinsInv
  <1>2. UNCHANGED uartVars => UartMuxesKept'
    BY <1>1 DEF uartVars, UartMuxesKept, UartMuxOf, BspUart
  <1>3. CASE GpioStep
    <2>1. GpioNext /\ UNCHANGED OpenSourceDevices /\ UartMuxesKept'
      BY <1>2, <1>3 DEF GpioStep, OpenSourceDevices, spiVars, i2cVars, uartVars
    <2>2. CASE UNCHANGED inUse /\ UNCHANGED gpios
      BY <2>1, <2>2, IdlePins
    <2>3. ASSUME NEW pin \in GpioPin, ClaimGpioMux(GpioMux[pin]),
                 gpios' \subseteq gpios \cup {pin}
          PROVE  PinsInv'
      BY <2>1, <2>3, GpioOpenPins
    <2>4. ASSUME NEW pin \in gpios, CloseGpioPin(pin), gpios' = gpios \ {pin}
          PROVE  PinsInv'
      BY <1>1, <2>1, <2>4, GpioClosePins DEF CloseGpioPin
    <2> QED
      BY <2>1, <2>2, <2>3, <2>4, GpioEffects
         DEF GpioQuiet, OpenGpioPin, OpenGpioPinFails, muxVars, gpioUnchanged
  <1>4. CASE SpiStep
    <2>1. SpiNext /\ UNCHANGED <<gpios, i2cs, uarts>> /\ UartMuxesKept'
      BY <1>2, <1>4 DEF SpiStep, gpioVars, i2cVars, uartVars
    <2>2. CASE SpiQuiet
      BY <2>1, <2>2, IdlePins DEF SpiQuiet, OpenSourceDevices
    <2>3. ASSUME NEW bus \in SpiBus \ DOMAIN spiDriver, OpenSpiBus(bus),
                 spis' = spis \cup {bus}
          PROVE  PinsInv'
      <3>1. /\ OpenSourceDevices' = OpenSourceDevices \cup {SpiDev(bus)}
            /\ SpiDev(bus) \notin OpenSourceDevices
        BY <1>1, <2>1, <2>3 DEF OpenSourceDevices, SpiDev, I2cDev, Tty
      <3>2. ClaimMux(MuxOf(SpiDev(bus)))
        BY <2>3, SourceDeviceMux DEF OpenSpiBus
      <3> QED BY <2>1, <3>1, <3>2, SourceDeviceMux, SourceOpenPins
    <2>4. ASSUME NEW bus \in spis, CloseSpiBus(bus), spis' = spis \ {bus}
          PROVE  PinsInv'
      <3>1. /\ OpenSourceDevices' = OpenSourceDevices \ {SpiDev(bus)}
            /\ SpiDev(bus) \in OpenSourceDevices
        BY <2>1, <2>4 DEF OpenSourceDevices, SpiDev, I2cDev, Tty
      <3>2. DropMux(MuxOf(SpiDev(bus)))
        BY <1>1, <2>4, SourceDeviceMux DEF CloseSpiBus
      <3> QED BY <2>1, <3>1, <3>2, SourceClosePins
    <2> QED BY <2>1, <2>2, <2>3, <2>4, SpiEffects DEF PmInv
  <1>5. CASE I2cStep
    <2>1. I2cNext /\ UNCHANGED <<gpios, spis, uarts>> /\ UartMuxesKept'
      BY <1>2, <1>5 DEF I2cStep, gpioVars, spiVars, uartVars
    <2>2. CASE I2cQuiet
      BY <2>1, <2>2, IdlePins DEF I2cQuiet, OpenSourceDevices
    <2>3. ASSUME NEW dev \in I2cBus \X Address, dev \notin DOMAIN i2cDriver,
                 OpenI2cSlave(dev), i2cs' = i2cs \cup {dev}
          PROVE  PinsInv'
      <3>1. /\ OpenSourceDevices' = OpenSourceDevices \cup {I2cDev(dev)}
            /\ I2cDev(dev) \notin OpenSourceDevices
        BY <1>1, <2>1, <2>3 DEF OpenSourceDevices, SpiDev, I2cDev, Tty
      <3>2. ClaimMux(MuxOf(I2cDev(dev)))
        BY <2>3, SourceDeviceMux DEF OpenI2cSlave
      <3> QED BY <2>1, <3>1, <3>2, SourceDeviceMux, SourceOpenPins
    <2>4. ASSUME NEW dev \in i2cs, CloseI2cSlave(dev), i2cs' = i2cs \ {dev}
          PROVE  PinsInv'
      <3>1. /\ OpenSourceDevices' = OpenSourceDevices \ {I2cDev(dev)}
            /\ I2cDev(dev) \in OpenSourceDevices
        BY <1>1, <2>1, <2>4 DEF OpenSourceDevices, SpiDev, I2cDev, Tty
      <3>2. DropMux(MuxOf(I2cDev(dev)))
        BY <1>1, <2>4, SourceDeviceMux DEF CloseI2cSlave
      <3> QED BY <2>1, <3>1, <3>2, SourceClosePins
    <2> QED BY <2>1, <2>2, <2>3, <2>4, I2cEffects
  <1>6. CASE UartStep
    <2>1. UartNext /\ UNCHANGED <<gpios, spis, i2cs>> /\ UartMuxesKept'
      BY <1>1, <1>6, UartNextMuxesKept DEF UartStep, gpioVars, spiVars, i2cVars, PmInv
    <2>2. CASE UNCHANGED inUse /\ UNCHANGED uarts
      BY <2>1, <2>2, IdlePins DEF OpenSourceDevices
    <2>3. ASSUME NEW name, UartOpens(name)
          PROVE  PinsInv'
      <3>1. name \in UartDevice \ uarts /\ uarts' = uarts \cup {name}
        BY <1>1, <2>3 DEF UartOpens
      <3>2. /\ OpenSourceDevices' = OpenSourceDevices \cup {Tty(name)}
            /\ Tty(name) \notin OpenSourceDevices
        BY <2>1, <3>1 DEF OpenSourceDevices, SpiDev, I2cDev, Tty
      <3>3. ClaimMux(MuxOf(Tty(name)))
        BY <1>1, <2>3, <3>1, SourceDeviceMux DEF UartOpens, OpenUart, UartMuxesKept
      <3> QED BY <2>1, <3>1, <3>2, <3>3, SourceDeviceMux, SourceOpenPins
    <2>4. ASSUME NEW name \in uarts, CloseUart(name), uarts' = uarts \ {name}
          PROVE  PinsInv'
      <3>1. /\ OpenSourceDevices' = OpenSourceDevices \ {Tty(name)}
            /\ Tty(name) \in OpenSourceDevices
        BY <2>1, <2>4 DEF OpenSourceDevices, SpiDev, I2cDev, Tty
      <3>2. DropMux(MuxOf(Tty(name)))
        BY <1>1, <2>4, SourceDeviceMux DEF CloseUart, UartMuxesKept
      <3> QED BY <2>1, <3>1, <3>2, SourceClosePins
    <2> QED
      BY <2>1, <2>2, <2>3, <2>4, UartEffects DEF UartQuiet, Unplug, muxVars
  <1>7. CASE Crash \/ UNCHANGED vars
    <2>1. UNCHANGED <<inUse, gpios, spis, i2cs>> /\ UNCHANGED uartVars
      BY <1>7 DEF Crash, vars, baseVars, muxVars, gpioVars, spiVars, i2cVars, uartVars
    <2> QED BY <1>2, <2>1, IdlePins DEF OpenSourceDevices, uartVars
  <1>8. CASE Restart
    <2>1. /\ inUse' = {} /\ OpenSourceDevices' = {} /\ gpios' = {}
          /\ uarts' = {} /\ uartMux' = BspUartMux
      BY <1>8 DEF Restart, Reboot, GpioReboot, SpiReboot, I2cReboot, UartReboot,
                  OpenSourceDevices
    <2> QED
      BY <2>1 DEF PinsInv, PinsHeld, PinsTogether, UartMuxesKept, UartMuxOf, BspUart
  <1> QED BY <1>3, <1>4, <1>5, <1>6, <1>7, <1>8 DEF Next

\* PinsInv holds throughout.
LEMMA PmPinsInv ==
  ASSUME NamesApart
  PROVE  Spec => []PinsInv
  <1>1. Init => PinsInv
    BY DEF Init, ServiceInit, MuxInit, GpioInit, SpiInit, I2cInit, UartInit, PinsInv,
           PinsHeld, PinsTogether, OpenSourceDevices, UartMuxesKept, UartMuxOf, BspUart
  <1>2. PmInv /\ PinsInv /\ [Next]_vars => PinsInv'
    BY PmNextKeepsPins
  <1> QED BY <1>1, <1>2, PmInvariant, PTL DEF Spec

\* The open devices with a source, and their muxes.
LEMMA OpenMuxesAre ==
  ASSUME PmInv, UartMuxesKept
  PROVE  OpenMuxes = {MuxOf(d) : d \in OpenSourceDevices}
  <1>1. /\ spis \subseteq SpiBus /\ i2cs \subseteq I2cBus \X Address
        /\ uarts \subseteq UartDevice /\ uarts \subseteq DOMAIN uartMux
    BY DEF PmInv, SpiInv, SpiTypeOK, I2cInv, I2cTypeOK, UartInv, UartTypeOK, UartMuxesKept
  <1>2. /\ \A bus \in spis : MuxOf(SpiDev(bus)) = SpiMux[bus]
        /\ \A dev \in i2cs : MuxOf(I2cDev(dev)) = I2cMux[dev[1]]
        /\ \A name \in uarts : MuxOf(Tty(name)) = uartMux[name]
    BY <1>1, SourceDeviceMux DEF UartMuxesKept
  <1> QED BY <1>2 DEF OpenMuxes, OpenSourceDevices

\* On every board an open device with pins of its own has all of them, whatever the
\* others open, fail to open and release, in any order and across restarts, and
\* whichever of the others share theirs.
THEOREM PmPinsHeld ==
  ASSUME NamesApart
  PROVE  Spec => []PinsHeld
  <1>1. PinsInv => PinsHeld
    BY DEF PinsInv
  <1> QED BY <1>1, PmPinsInv, PTL

\* While a device with pins of its own is not open they are idle.
IdlePinsFree ==
  \A d \in SourceDevices \ OpenSourceDevices :
    OwnPins(d) => PinsOf(d) \cap inUse = {}

\* No failed open, no release, no end of the process and no other device leaves a
\* device with pins of its own some that its next open would be refused, which no
\* caller of SetSource would notice.
THEOREM PmIdlePinsFree ==
  ASSUME NamesApart
  PROVE  Spec => []IdlePinsFree
  <1>1. PmInv /\ PinsInv => IdlePinsFree
    BY OpenDevicesKnown DEF PinsInv, OwnPins, IdlePinsFree
  <1> QED BY <1>1, PmInvariant, PmPinsInv, PTL

\* Shared pins that are in use are all in use, for an open device with those pins.
SharedPinsClaimed ==
  \A d \in SourceDevices :
    SharedPins(d) /\ PinsOf(d) \cap inUse # {} =>
      /\ PinsOf(d) \subseteq inUse
      /\ \E e \in OpenSourceDevices : PinsOf(e) = PinsOf(d)

\* Devices with the same pins, as the addresses of an I2C bus are, take them from
\* each other but never a part of them: all are claimed or none is, and they are
\* idle at the latest when the last of those devices is released.
THEOREM PmSharedPinsClaimed ==
  ASSUME NamesApart
  PROVE  Spec => []SharedPinsClaimed
  <1>1. ASSUME PmInv, PinsInv, NEW d \in SourceDevices, SharedPins(d),
               PinsOf(d) \cap inUse # {}
        PROVE  /\ PinsOf(d) \subseteq inUse
               /\ \E e \in OpenSourceDevices : PinsOf(e) = PinsOf(d)
    <2>1. PICK p \in PinsOf(d) : p \in inUse
      BY <1>1
    <2>2. PICK e \in OpenSourceDevices : p \in PinsOf(e)
      BY <1>1, <2>1 DEF PinsInv, SharedPins
    <2>3. PinsOf(e) = PinsOf(d)
      BY <1>1, <2>1, <2>2, OpenDevicesKnown DEF SharedPins
    <2> QED BY <1>1, <2>3 DEF PinsInv, PinsTogether
  <1>2. PmInv /\ PinsInv => SharedPinsClaimed
    BY <1>1 DEF SharedPinsClaimed
  <1> QED BY <1>2, PmInvariant, PmPinsInv, PTL

\* The pins in use are those of the open devices, the addresses of a bus taken
\* together: their pins are in use or not, but no part of them.
PinsAccounted ==
  /\ inUse \subseteq UNION {PinsOf(d) : d \in OpenSourceDevices}
  /\ \A d \in SpiDevices \cup UartDevices :
       IF d \in OpenSourceDevices THEN PinsOf(d) \subseteq inUse
                                 ELSE PinsOf(d) \cap inUse = {}
  /\ \A d \in I2cDevices : PinsOf(d) \subseteq inUse \/ PinsOf(d) \cap inUse = {}

\* On a board like the one of HAL.cpp, which HalStartsSuitedService shows to be one:
\* SPI and UART devices have their pins exactly while they are open, nothing is left
\* claimed, and what remains unsure is whether a bus's pins are in use while some of
\* its addresses are open and others were released.
THEOREM PmPinsAccounted ==
  ASSUME PinsApart
  PROVE  Spec => []PinsAccounted
  <1>1. NamesApart
    BY DEF PinsApart
  <1>2. ASSUME PmInv, PinsInv
        PROVE  PinsAccounted
    <2>1. \A p \in inUse : \E d \in OpenSourceDevices : p \in PinsOf(d)
      <3> SUFFICES ASSUME NEW p \in inUse, \E pin \in GpioPin : GpioMux[pin] = p
                   PROVE  FALSE
        BY <1>2 DEF PinsInv
      <3>1. p = NoMux /\ p \in Pin
        BY <1>2 DEF PinsApart, PmInv, GpioInv, GpioTypeOK, ServiceTypeOK, MuxTypeOK
      <3> QED BY <3>1 DEF PinsApart, NamesApart
    <2>2. \A d \in SpiDevices \cup UartDevices : d \in SourceDevices /\ OwnPins(d)
      BY DEF PinsApart, SourceDevices
    <2>3. \A d \in SpiDevices \cup UartDevices :
            IF d \in OpenSourceDevices THEN PinsOf(d) \subseteq inUse
                                      ELSE PinsOf(d) \cap inUse = {}
      BY <1>2, <2>2, OpenDevicesKnown DEF PinsInv, PinsHeld, OwnPins
    <2>4. \A d \in I2cDevices : PinsOf(d) \subseteq inUse \/ PinsOf(d) \cap inUse = {}
      BY <1>2 DEF PinsApart, PinsInv, PinsTogether, SourceDevices
    <2> QED BY <2>1, <2>3, <2>4 DEF PinsAccounted
  <1>3. PmInv /\ PinsInv => PinsAccounted
    BY <1>2
  <1> QED BY <1>1, <1>3, PmInvariant, PmPinsInv, PTL

\* And no pin but a GPIO's outlives the device that claimed it, also where devices
\* share pins.
THEOREM PmOnlyGpioPinsLeak ==
  ASSUME NamesApart
  PROVE  Spec => []OnlyGpioPinsLeak
  <1>1. PmInv /\ PinsInv => OnlyGpioPinsLeak
    <2> SUFFICES ASSUME PmInv, PinsInv, NEW p \in inUse,
                        p \notin {GpioMux[pin] : pin \in GpioPin}
                 PROVE  \E mux \in OpenMuxes : p \in SourcePins(mux)
      BY DEF OnlyGpioPinsLeak
    <2>1. PICK d \in OpenSourceDevices : p \in PinsOf(d)
      BY DEF PinsInv
    <2> QED BY <2>1, OpenMuxesAre DEF PinsInv, PinsOf
  <1> QED BY <1>1, PmInvariant, PmPinsInv, PTL

\* ReleaseSource has nothing to warn of on a board whose I2C devices have pins of
\* their own, one address to a bus: what two addresses of a bus do to each other
\* is all that can make I2cReleaseFindsPinsInUse false besides a board that shares
\* the bus's pins with another device.
THEOREM PmI2cReleaseFindsPinsInUse ==
  ASSUME NamesApart, \A dev \in I2cBus \X Address : OwnPins(I2cDev(dev))
  PROVE  Spec => []I2cReleaseFindsPinsInUse
  <1>1. PmInv /\ PinsHeld => I2cReleaseFindsPinsInUse
    <2> SUFFICES ASSUME PmInv, PinsHeld, NEW dev \in DOMAIN i2cDriver
                 PROVE  SourcePins(I2cMux[dev[1]]) \subseteq inUse
      BY DEF I2cReleaseFindsPinsInUse
    <2>1. dev \in i2cs /\ dev \in I2cBus \X Address
      BY DEF PmInv, I2cInv, I2cTypeOK, I2cHandlesMatchDrivers
    <2>2. PinsOf(I2cDev(dev)) = SourcePins(I2cMux[dev[1]])
      BY <2>1, SourceDeviceMux DEF PinsOf
    <2>3. I2cDev(dev) \in OpenSourceDevices
      BY <2>1 DEF OpenSourceDevices
    <2> QED BY <2>1, <2>2, <2>3 DEF PinsHeld
  <1> QED BY <1>1, PmInvariant, PmPinsHeld, PTL
=============================================================================
