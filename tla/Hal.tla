-------------------------------- MODULE Hal ---------------------------------
(***************************************************************************)
(* The board this repository supports, from main to the running service:   *)
(* RegisterDrivers, then the calls of register_devices one by one, whose   *)
(* results nobody looks at, then the bus methods and the main loop.  While *)
(* it runs, lists of the serial adapters register more uarts.  The process *)
(* may end at any point, and starts from nothing.                          *)
(***************************************************************************)
EXTENDS Board, Sequences

CONSTANT Adapter      \* the ttyACM and ttyUSB nodes that may be plugged in

\* No node is called like a source of this board.
ASSUME HalAssumption == Adapter \cap {"UART1", "I2C1", "I2C4", "SPI00"} = {}

VARIABLES at,         \* the step of the start-up that is next
          drivers,    \* driver_infos_: the kinds that have a driver
          refused,    \* the calls of register_devices that were refused so far
          plugged     \* the adapters that are plugged in

halVars == <<boardVars, at, drivers, refused, plugged>>

\* The names of the header pins.
GpioNames ==
  <<"gpio1", "gpio2", "gpio3", "gpio4", "gpio5", "gpio6", "gpio7", "gpio8",
    "gpio9", "gpio10", "gpio11", "gpio12", "gpio13", "gpio14", "gpio15", "gpio16",
    "gpio17", "gpio18", "gpio19", "gpio20", "gpio21", "gpio22", "gpio23", "gpio24",
    "gpio25">>

Gpio(number) == GpioNames[number]

\* A mistake for TLC to find: nothing is skipped.
NoSkippedGpios == {}

\* The header pins that are not offered as GPIOs: those of SPI00 and of UART1.
SkippedGpios == {7, 8, 9, 10, 11, 14, 15}

GpioStart == 4
GpioEnd == 25
GpioBase == 512

Call(callback, name, arg) == [callback |-> callback, name |-> name, arg |-> arg]

\* The loop over the GPIOs, where an iteration makes a call or goes on.
SysfsCalls ==
  [i \in 1 .. GpioEnd - GpioStart + 1 |->
     LET number == GpioStart + i - 1 IN
     IF number \in SkippedGpios THEN Call("none", Gpio(number), 0)
     ELSE Call("register_gpio_sysfs", Gpio(number), GpioBase + number)]

BusCalls == <<Call("register_i2c_dev_bus", "I2C1", 1),
              Call("register_i2c_dev_bus", "I2C4", 4),
              Call("register_spi_dev_bus", "SPI00", <<0, 0>>)>>

HeaderPins == <<1, 2, 3, 7, 8, 9, 10, 11, 14, 15>>

PinCalls ==
  [i \in 1 .. 10 |-> Call("register_pin", Gpio(HeaderPins[i]), FALSE)]

SourceCalls ==
  <<Call("register_simple_source", "UART1", {Gpio(14), Gpio(15)}),
    Call("register_simple_source", "I2C1", {Gpio(2), Gpio(3)}),
    Call("register_simple_source", "I2C4", {Gpio(6), Gpio(7)}),
    Call("register_simple_source", "SPI00", {Gpio(n) : n \in 7..11})>>

MuxCalls == <<Call("set_i2c_pin_mux", "I2C1", "I2C1"),
              Call("set_spi_pin_mux", "SPI00", "SPI00")>>

\* A mistake for TLC to find: the sources are registered before their pins.
HalCallsSourcesFirst == BusCalls \o SourceCalls \o PinCalls \o MuxCalls

\* register_devices: its calls, in its order.
HalCalls == SysfsCalls \o BusCalls \o PinCalls
              \o <<Call("set_gpio_pin_mux", Gpio(1), Gpio(1))>>
              \o SourceCalls \o MuxCalls

\* The callbacks InitHal fills in, as far as this board uses them.
Perform(call) ==
  CASE call.callback = "register_gpio_sysfs"    -> RegisterGpioSysfs(call.name, call.arg)
    [] call.callback = "register_i2c_dev_bus"   -> RegisterI2cDevBus(call.name, call.arg)
    [] call.callback = "register_spi_dev_bus"   -> RegisterSpiDevBus(call.name, call.arg)
    [] call.callback = "register_pin"           -> RegisterPin(call.name, call.arg)
    [] call.callback = "register_simple_source" -> RegisterSimpleSource(call.name, call.arg)
    [] call.callback = "set_gpio_pin_mux"       -> SetGpioPinMux(call.name, call.arg)
    [] call.callback = "set_i2c_pin_mux"        -> SetI2cPinMux(call.name, call.arg)
    [] call.callback = "set_spi_pin_mux"        -> SetSpiPinMux(call.name, call.arg)
-----------------------------------------------------------------------------
\* Where the start-up is: before RegisterDrivers, before a call of
\* register_devices, in the main loop, or there is no process.
Drivers == 0
Serving == Len(HalCalls) + 1
Down == -1

HalInit == /\ BoardInit
           /\ at = Drivers
           /\ drivers = {}
           /\ refused = {}
           /\ plugged \in SUBSET Adapter

RegisterDrivers ==
  /\ at = Drivers
  /\ drivers' = Kind
  /\ at' = 1
  /\ UNCHANGED boardVars /\ UNCHANGED <<refused, plugged>>

\* After the last call register_devices returns 0, main registers the methods
\* and runs the loop.
RegisterDevices ==
  /\ at \in 1 .. Len(HalCalls)
  /\ \/ /\ HalCalls[at].callback = "none"
        /\ UNCHANGED boardVars /\ UNCHANGED refused
     \/ /\ HalCalls[at].callback # "none"
        /\ Perform(HalCalls[at])
        /\ refused' = IF answer' = 0 THEN refused \cup {HalCalls[at]} ELSE refused
  /\ at' = at + 1
  /\ UNCHANGED <<drivers, plugged>>

\* RegisterUartDevice and SetPinMux of every adapter the list shows.
GetDevicesList ==
  /\ at = Serving
  /\ devices' = [devices EXCEPT !["uart"] =
                   [name \in DOMAIN @ \cup plugged |->
                      [node |-> IF name \in DOMAIN @ THEN @[name].node ELSE name,
                       mux  |-> IF name \in plugged THEN name ELSE @[name].mux]]]
  /\ UNCHANGED <<pins, groups, sources, answer, at, drivers, refused, plugged>>

Plug(name) ==
  /\ plugged' = IF name \in plugged THEN plugged \ {name} ELSE plugged \cup {name}
  /\ UNCHANGED boardVars /\ UNCHANGED <<at, drivers, refused>>

Die == /\ at # Down
       /\ at' = Down
       /\ UNCHANGED boardVars /\ UNCHANGED <<drivers, refused, plugged>>

Restart == /\ at = Down
           /\ at' = Drivers
           /\ pins' = EmptyMap /\ groups' = EmptyMap /\ sources' = EmptyMap
           /\ devices' = [kind \in Kind |-> EmptyMap]
           /\ answer' = 0
           /\ drivers' = {} /\ refused' = {}
           /\ UNCHANGED plugged

HalNext == \/ RegisterDrivers \/ RegisterDevices \/ GetDevicesList
           \/ \E name \in Adapter : Plug(name)
           \/ Die \/ Restart

HalSpec == HalInit /\ [][HalNext]_halVars
-----------------------------------------------------------------------------
Muxes(kind) == {devices[kind][name].mux : name \in DOMAIN devices[kind]} \ {NoMux}

\* Two calls of this board are refused, the mux of a GPIO it does not have and
\* a source with a pin that is not registered, and every mux its buses are given
\* names a source with a group of its name: SetSource claims something when the
\* device is opened.  Nothing else would tell, as register_devices drops what its
\* calls return and the managers what SetSource returns; it depends on pins,
\* sources and muxes being registered in that order.
HalMuxesResolve ==
  at = Serving =>
    /\ {<<call.callback, call.name>> : call \in refused} =
         {<<"set_gpio_pin_mux", Gpio(1)>>, <<"register_simple_source", "I2C4">>}
    /\ \A kind \in {"spi", "i2c"} : \A mux \in Muxes(kind) :
         mux \in DOMAIN sources /\ mux \in sources[mux] /\ mux \in DOMAIN groups

\* No pin is in two groups, and no pin of a group is offered as a GPIO: the
\* devices of this board have their pins to themselves, although the managers
\* ignore a claim that fails, and whichever adapters were listed.
HalPinsApart ==
  at = Serving =>
    /\ \A g, h \in DOMAIN groups : g # h => groups[g] \cap groups[h] = {}
    /\ \A g \in DOMAIN groups : groups[g] \cap DOMAIN devices["gpio"] = {}
    /\ Muxes("gpio") = {}
    /\ Muxes("uart") \cap DOMAIN sources = {}
=============================================================================
