------------------------------ MODULE Startup -------------------------------
(***************************************************************************)
(* The start-up beside the service it starts.  What register_devices       *)
(* leaves in the registries of the managers is what the modules of the     *)
(* running service have as constants; here the two are brought together,   *)
(* so that what those modules suppose of a board can be proved of boards.  *)
(***************************************************************************)
EXTENDS Hal

CONSTANTS Fd,
          Pin, Group, GroupPins, Source, SourceGroups, MuxCallback,
          GpioPin, GpioName, GpioMux,
          SpiBus, SpiName, SpiMux, MaxHz, SpiNumbers, SpiLengths,
          I2cBus, I2cName, I2cMux, Address, Slave, I2cNumbers,
          BspUartMux, UartName, UartNumbers

VARIABLES fdTable, inUse, route, loop, reply,
          gpioDriver, gpios, exported, line,
          spiDriver, spis, spiChip,
          i2cDriver, i2cs,
          uartMux, uartDriver, uarts, baud, waiting

\* The adapters are the same ones.
Running == INSTANCE PeripheralManager

\* The registry of pins is the one the service runs with.
PinsRegistered ==
  /\ Pin = DOMAIN pins
  /\ MuxCallback = {pin \in DOMAIN pins : pins[pin]}
  /\ Group = DOMAIN groups /\ GroupPins = groups
  /\ Source = DOMAIN sources /\ SourceGroups = sources

\* And so are the devices of the managers.
MuxesOf(kind) == [name \in DOMAIN devices[kind] |-> devices[kind][name].mux]

DevicesRegistered ==
  /\ GpioPin = DOMAIN devices["gpio"] /\ GpioMux = MuxesOf("gpio")
  /\ SpiBus = DOMAIN devices["spi"] /\ SpiMux = MuxesOf("spi")
  /\ I2cBus = DOMAIN devices["i2c"] /\ I2cMux = MuxesOf("i2c")
  /\ BspUartMux = MuxesOf("uart")
-----------------------------------------------------------------------------
\* Whatever a board calls in whatever order, the registries satisfy what PinMux
\* assumes of them: SetSource and ReleaseSource find every name they look up.
BoardSuitsPinMux == PinsRegistered => Running!RegistriesClosed

\* This board is one that the theorems about pins are about: no GPIO has a mux, no
\* two devices have a pin in common but addresses of a bus, which have them all in
\* common, and no name is taken for the missing one or for an adapter's.  No pin has
\* a callback, whose result would be misread or ignored.
BoardSuitsService ==
  PinsRegistered /\ DevicesRegistered =>
    Running!RegistriesClosed /\ Running!PinsApart /\ MuxCallback = {}

LoopEntered == at # Serving /\ at' = Serving

\* It is by the time main enters its loop, whatever happened before.
StartupSuitsService == [][LoopEntered => BoardSuitsService']_halVars
=============================================================================
