------------------------- MODULE PeripheralManager -------------------------
(***************************************************************************)
(* The whole service: the four kinds of devices behind one main loop, over *)
(* one descriptor table and one registry of pins.                          *)
(***************************************************************************)
EXTENDS Gpio, Spi, I2c, Uart

vars == <<baseVars, reply, gpioVars, spiVars, i2cVars, uartVars>>

Init == /\ ServiceInit
        /\ GpioInit
        /\ SpiInit
        /\ I2cInit
        /\ UartInit

GpioStep == GpioNext /\ UNCHANGED <<spiVars, i2cVars, uartVars>>
SpiStep == SpiNext /\ UNCHANGED <<gpioVars, i2cVars, uartVars>>
I2cStep == I2cNext /\ UNCHANGED <<gpioVars, spiVars, uartVars>>
UartStep == UartNext /\ UNCHANGED <<gpioVars, spiVars, i2cVars>>

\* The process ends at any moment, also while it is blocked.
Crash == /\ Die
         /\ UNCHANGED <<fdTable, inUse, route, reply>>
         /\ UNCHANGED <<gpioVars, spiVars, i2cVars, uartVars>>

\* systemd starts it again: every manager and the client are new.
Restart == Reboot /\ GpioReboot /\ SpiReboot /\ I2cReboot /\ UartReboot

Next == GpioStep \/ SpiStep \/ I2cStep \/ UartStep \/ Crash \/ Restart

Spec == Init /\ [][Next]_vars
-----------------------------------------------------------------------------
(***************************************************************************)
(* The devices of all kinds, as the kernel names them.                     *)
(***************************************************************************)
GpioDevices == {GpioDir(pin) : pin \in GpioPin}
SpiDevices == {SpiDev(bus) : bus \in SpiBus}
I2cDevices == {I2cDev(dev) : dev \in I2cBus \X Address}
UartDevices == {Tty(name) : name \in UartDevice}

Device == GpioDevices \cup SpiDevices \cup I2cDevices \cup UartDevices

OpenSourceDevices ==
  {SpiDev(bus) : bus \in spis} \cup {I2cDev(dev) : dev \in i2cs}
    \cup {Tty(name) : name \in uarts}

OpenDevices == {GpioDir(pin) : pin \in gpios} \cup OpenSourceDevices

\* The service says nothing of what an I2C slave does.
Hardware ==
  [d \in Device |-> CASE d \in GpioDevices -> line[d[2]]
                      [] d \in SpiDevices  -> spiChip[d[2]]
                      [] d \in UartDevices -> baud[d[2]]
                      [] OTHER             -> 0]

\* The muxes of the open devices of each kind.
OpenMuxes == {SpiMux[bus] : bus \in spis} \cup {I2cMux[dev[1]] : dev \in i2cs}
               \cup {uartMux[name] : name \in uarts}
-----------------------------------------------------------------------------
\* The variables hold what the code's types let them hold.
TypeOK == GpioTypeOK /\ SpiTypeOK /\ I2cTypeOK /\ UartTypeOK

\* One descriptor table serves all the drivers: each has a descriptor of its
\* own that leads to its own device, whatever order devices of different kinds
\* are opened, released, pulled and polled in.
DriversOwnDescriptors == /\ GpioDriversOwnDescriptors
                         /\ SpiDriversOwnDescriptors
                         /\ I2cDriversOwnDescriptors
                         /\ UartDriversOwnDescriptors

DriverFds == {gpioDriver[pin] : pin \in DOMAIN gpioDriver}
               \cup {spiDriver[bus].fd : bus \in DOMAIN spiDriver}
               \cup {i2cDriver[dev] : dev \in DOMAIN i2cDriver}
               \cup {uartDriver[name].fd : name \in DOMAIN uartDriver}

\* A descriptor that no driver has is one that was handed out to poll a GPIO, or
\* one of a uart: nothing else outlives its device.
OnlyKnownLeaks ==
  \A fd \in DOMAIN fdTable \ DriverFds :
    fdTable[fd][1] \in {"gpiovalue", "tty", "gone"}

LostFds == DOMAIN fdTable \ DriverFds

\* A descriptor is lost one at a time, by a call that was answered "ok": one that
\* asked for it, to poll a GPIO that is open, or the release of the uart that had it.
\* No other call, nor a failed one, a pull, a wait, a crash or a list, loses any: what
\* a client has opened and released is all that counts against the table.
LeaksAreAnswered ==
  [][\A fd \in LostFds' \ LostFds :
       /\ reply'.code = "ok"
       /\ \/ \E pin \in gpios :
               /\ fdTable'[fd] = GpioValueFile(pin)
               /\ reply'.call = "GetGpioPollingFd" /\ reply'.dev = <<pin>>
               /\ reply'.payload = fd
          \/ \E name \in uarts \ uarts' :
               /\ uartDriver[name].fd = fd
               /\ reply'.call = "ReleaseUartDevice" /\ reply'.dev = <<name>>
    ]_vars

\* A call of any kind that is answered with an error, at once or after a wait, has
\* changed no device of any kind: no handle, driver, setting, descriptor or hardware.
\* Its open alone may have left something behind, if it was one of a GPIO.
FailuresLeaveLittle ==
  [][alive /\ running' /\ UNCHANGED plugged /\ reply'.code # "ok"
       => /\ UNCHANGED <<fdTable, gpioDriver, gpios, line, spiVars, i2cVars>>
          /\ UNCHANGED <<uartMux, uartDriver, uarts, baud>>
          /\ UNCHANGED <<muxVars, exported>> \/ FailedOpenLeaves
    ]_vars

\* A device whose pins a source claims, that mux, and the pins.
SourceDevices == SpiDevices \cup I2cDevices \cup UartDevices

MuxOf(d) == CASE d \in SpiDevices -> SpiMux[d[2]]
              [] d \in I2cDevices -> I2cMux[d[2]]
              [] d \in UartDevices -> UartMuxOf(d[2])

PinsOf(d) == SourcePins(MuxOf(d))

\* A board that registers no pin and no source without a name, and names none of
\* its uarts ttyACM or ttyUSB (the list would replace its mux).
NamesApart == NoMux \notin Pin \cup Source /\ BspUart \cap Adapter = {}

\* A device, or a GPIO, that the board gives pins of its own, as HAL.cpp does.  (Two
\* addresses of an I2C bus with pins are two devices with the same pins.)
OwnPins(d) == /\ \A other \in SourceDevices \ {d} : PinsOf(other) \cap PinsOf(d) = {}
              /\ \A pin \in GpioPin : GpioMux[pin] \notin PinsOf(d)

OwnPin(pin) == /\ GpioMux[pin] \notin MuxCallback
               /\ \A other \in GpioPin \ {pin} : GpioMux[other] # GpioMux[pin]
               /\ \A d \in SourceDevices : GpioMux[pin] \notin PinsOf(d)

\* A device, such as an address of an I2C bus, that shares all of its pins or none
\* with any other, and none with a GPIO.
SharedPins(d) ==
  /\ \A other \in SourceDevices :
       PinsOf(other) = PinsOf(d) \/ PinsOf(other) \cap PinsOf(d) = {}
  /\ \A pin \in GpioPin : GpioMux[pin] \notin PinsOf(d)

\* A board whose GPIOs claim no pins, and whose devices share none but the addresses
\* of a bus all of theirs: the one of HAL.cpp is such a board (Startup.tla).
PinsApart == /\ NamesApart
             /\ \A pin \in GpioPin : GpioMux[pin] = NoMux
             /\ \A d \in SpiDevices \cup UartDevices : OwnPins(d)
             /\ \A d \in I2cDevices : SharedPins(d)

\* A device with pins of its own has them all while it is open, whatever the others
\* open, fail to open and release: devices that share pins take them from each
\* other, and from nobody else.
PinsHeld ==
  /\ \A pin \in gpios :
       GpioMux[pin] \in Pin /\ OwnPin(pin) => GpioMux[pin] \in inUse
  /\ \A d \in OpenSourceDevices : OwnPins(d) => PinsOf(d) \subseteq inUse

\* A pin in use is one of an open device, or of a GPIO: no release of an SPI,
\* I2C or UART device and no failed open of one leaves a pin behind.
OnlyGpioPinsLeak ==
  inUse \subseteq (UNION {SourcePins(mux) : mux \in OpenMuxes})
                    \cup {GpioMux[pin] : pin \in GpioPin}

\* "Check to make sure each pin is not in use", says SetSource before it claims
\* the pins of a group: two open devices never have a pin in common.
PinsExclusive ==
  \A pin \in gpios, mux \in OpenMuxes : GpioMux[pin] \notin SourcePins(mux)

\* The service implements Isolation: devices share descriptors, pins, the main
\* loop and the process, and yet no step made for one changes another.
Devices == INSTANCE Isolation
             WITH Device <- Device,
                  Removable <- {Tty(name) : name \in Adapter},
                  Fresh <- DefaultBaud,
                  opened <- IF alive THEN OpenDevices ELSE {},
                  hardware <- Hardware

DevicesIsolated == Devices!Spec
=============================================================================
