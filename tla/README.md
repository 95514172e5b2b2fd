# The peripheral manager service, in TLA+

`com.webos.service.peripheralmanager` is the webOS OSE service through which
applications reach the GPIOs, SPI buses, I2C slaves and UARTs of a board. These
modules say what the service does with them, TLC checks them on small boards, and
TLAPS proves most of it for every board. References of the form `File.cpp:line` are to
`src/` and `include/` of the repository.

## The system

| Part | State it keeps | Operations |
|---|---|---|
| `PeripheralManagerService` (`PeripheralManagerAPI.cpp`) | a `GMainLoop`, a client | one handler for each of the 39 bus methods of `/gpio`, `/spi`, `/i2c`, `/uart` |
| `PeripheralManagerClient` | four maps of handles: `gpios_`, `spi_devices_`, `i2c_devices_` (by bus and address), `uart_devices_` | one per handler; translates failures into the codes of `PeripheralManagerException` |
| `GpioManager`, `SpiManager`, `I2cManager`, `UartManager` (singletons) | the registered devices; of each its mux and, while it is open, its driver (I2C: a driver per address) | open; the handle's destructor closes |
| `GpioDriverSysfs`, `SpiDriverSpiDev`, `I2cDriverI2cDev`, `UartDriverSysfs` | a descriptor and, for SPI, clock, delay and word size | system calls, through `CharDevice` but for GPIO |
| `PinMuxManager` (singleton) | registered pins, groups and sources; `in_use` of each pin | `SetSource`, `ReleaseSource`, `SetGpio`, `ReleaseGpio` |
| `PeripheralManager`, `HAL.cpp`, `Main.cpp` | the table of callbacks | fill the registries once, call by call, then run the loop |
| the main loop (glib, luna-service2) | calls that arrived and are not handled | poll, then one handler per ready connection; ends with the process |
| the kernel | descriptor table, exported GPIOs, line levels, SPI modes, tty rates | |
| systemd (`files/systemd`) | | `Restart=on-failure` |

A handler parses its payload, refuses a key it does not know, refuses a payload
without the keys it needs, calls the client, and answers. The client looks the
name up, asks a manager to open, or follows the handle to the driver. Opening
claims pins, initialises a driver (which takes a descriptor) and stores it in the
manager's entry; the handle keeps a raw pointer to that entry. Releasing erases the
handle: its destructor gives the pins back and drops the driver. The kinds
of devices share the descriptor table, the pins, the main loop and the process.

What is hard about it:

* **one loop for everybody**: a handler is atomic, so there are no races inside the
  process; but a UART in canonical mode is opened without `O_NONBLOCK` and may hold
  the loop in a system call, while adapters are plugged and pulled and the calls of
  other clients queue up;
* **a board is a sequence of calls whose results nobody looks at**: what a refused
  registration leaves behind is what the service runs with;
* **no owner**: a device is its name, whoever opened it. What protects it is that the
  handle, the driver, the descriptor and the pins come and go together: four tables,
  in three objects and the kernel, related by nothing the language checks;
* **descriptors**: some are closed, some are handed out and never closed, numbers are
  reused, and they run out;
* **failure at every system call**, half-way through an open in particular;
* **what outlives the process**: exported GPIOs, levels, modes and rates;
* **numbers of a call** that are narrowed, compared and used to make room.

The repository has no tests; what it says of itself is in comments and in
`include/peripheral_io.h`.

## The modules

| Module | Models | State |
|---|---|---|
| `Maps` | `std::map` and `unique_ptr` members as partial functions | |
| `Kernel` | the descriptor table; `CharDevice::Open`, `Close` | `fdTable` |
| `PinMux` | `PinMuxManager` at run time | `inUse`, `route` |
| `Service` | what handlers share: payload checks, answers, the loop, end and restart of the process | `loop`, `reply` |
| `Gpio` | `/gpio` from handler to sysfs | `gpioDriver`, `gpios`, `exported`, `line` |
| `Spi` | `/spi` from handler to spidev | `spiDriver`, `spis`, `spiChip` |
| `I2c` | `/i2c` from handler to i2c-dev | `i2cDriver`, `i2cs` |
| `Uart` | `/uart` from handler to the tty; adapters; blocking calls | `uartMux`, `uartDriver`, `uarts`, `plugged`, `baud`, `waiting` |
| `PeripheralManager` | the four together, crash and restart | all of these |
| `EventLoop` | clients, their calls, the rounds of the loop before the whole service, exit status and systemd | all of `PeripheralManager`'s, `pending`, `round`, `caller`, `status` |
| `Overtaking` | `EventLoop` with a history of who was answered while whose call waited | `overtaken` |
| `Board` | every registration callback, for any board | `pins`, `groups`, `sources`, `devices`, `answer` |
| `Hal` | start-up: `RegisterDrivers`, the calls of `register_devices` in their order, the loop; lists of adapters; a start from nothing | `Board`'s, `at`, `drivers`, `refused`, `plugged` |
| `Startup` | start-up beside the service it starts: what the running service supposes of a board, said of registries | `Hal`'s, beside `PeripheralManager`'s |
| `Isolation` | abstract: what the service promises of any device | `opened`, `hardware` |
| `ServiceProofs` | lemmas about what `Service` and the modules under it define | |
| `GpioProofs`, `SpiProofs`, `I2cProofs`, `UartProofs` | theorems about one kind of device each | |
| `PeripheralManagerProofs` | theorems about the four together; `Isolation` is implemented | |
| `EventLoopProofs` | theorems about the loop and its history; `PeripheralManager` is implemented | |
| `BoardProofs` | theorems about registration and about the start of this board | |
| `MC*` | boards and bounds for TLC | |

`Kernel` and `PinMux` are extended by `Service`, `Service` by each of the four device
modules, and those by `PeripheralManager`. A device module is a specification by
itself (`GpioSpec`, ...: the service with no other devices), which is what keeps its
runs small and its proofs local; `PeripheralManager` composes their next-state
relations over the shared variables. `EventLoop` extends `PeripheralManager`; the UARTs'
calls, the only ones that can hold the loop, are told apart in it. `Board` is extended by `Hal`. What
registration leaves behind is a CONSTANT of the running service: `Startup` extends `Hal`, takes
`PeripheralManager` as an instance, and says which constants belong to which registries.

Correspondence with the code:

* **One handler is one action** with the handler's name (`OpenGpio`, `I2cReadRegByte`,
  ...), from the payload to the answer, all it calls included: the loop is
  single-threaded. `Client...` are the client's functions. `getBaudrate` and
  `getDirection` are `GetBaudrate` and `GetDirection`.
* The exception is a UART call that blocks: it ends its step with `loop = "blocked"` and
  is taken up by `UartResume`. In between nothing of the process runs, but
  adapters come and go, and the process may be killed.
* **Payloads**: a request is text that does not parse, or a set of keys. `Payloads` are
  the ones worth telling apart: every key, the required ones, one too many, one missing.
* **Failures** are choices at the system call: any may fail at any time. What the
  kernel guarantees is kept: a new descriptor is a free one and needs one to be free; a
  call succeeds only on a descriptor of the right kind and reaches *the device that
  descriptor leads to*, which is not assumed to be the caller's (`LineOf`, `ChipOf`,
  `TtyOf`). A pulled adapter's descriptors become `Gone` for good.
* **Answers** are a code and whose bytes were returned: the device's, the request's
  own, or memory nobody wrote. Texts are left out.
* **Maps** are partial functions; a `unique_ptr` that is empty is a key outside the
  domain. A handle is its key: the handles' content is the manager's entry.
* **Registries** that registration fills and nothing changes afterwards are CONSTANTS.
  `PinMuxAssumption` is what `RegisterPinGroup` and `RegisterSource` refuse to register
  otherwise; `AnyBoardSuitsPinMux` shows that it is what any board leaves behind. The UARTs'
  registry does change, with every list, and is a variable.
* **A registration is one action** of `Board`, named after the callback. It is refused
  or takes effect at once, but for `RegisterSimpleSource`, which is a group and then a
  source. `Hal` performs the calls of `HAL.cpp` one per step, on the real names, which
  `GpioNames` lists in the order of the loop over them; an iteration that the loop skips is a
  step without a call.
* **A call on the bus** (`EventLoop`) is sent, polled with those of other connections, and
  dispatched: `Dispatch` is the handler's action of `PeripheralManager`. It answers, leaves
  the loop waiting until `Resume`, or ends the process, which ends everybody's calls. A
  request says which UART method it is for and with what; for the other kinds, which never
  wait, what it asks for is chosen when it is handled.
* **Start**: `Init` allows any exported pins, levels and modes, as the kernel may have
  them. `Die` is a kill or an exception that leaves a handler; `Reboot` is the restart.

## The runs

All runs check for deadlock. Descriptors are interchangeable, so the passing runs of
the devices take them as a symmetry set, and `board` takes its names so; `event_loop`, which
checks liveness, has no symmetry. Where a `VIEW` leaves out `reply` no action reads it, and
the action properties that do are still evaluated on every step; nothing that `event_loop`
checks reads it.

| Run | Instance | Result |
|---|---|---|
| `gpio` | 2 pins, one with a mux, an unknown name; 3 descriptors | passes, 95,688 states |
| `spi` | 2 buses, one with pins, an unknown name; 2 descriptors; numbers at the limits | passes, 65,536 states |
| `i2c` | 2 buses, 3 addresses of which the kernel refuses one; 3 descriptors for 4 devices | passes, 184 states |
| `uart` | 1 board UART with pins, 1 adapter, an unknown name; 3 descriptors | passes, 21,240 states |
| `service` | one device of each kind, a second address of the I2C bus, an adapter; 2 descriptors | passes, 142,008 states |
| `board` | 2 pins, 2 names for groups and sources, 1 device name on 2 nodes, any of the 4 kinds | passes, 57,579 states |
| `hal` | the board of `HAL.cpp`, all 35 of its calls in 42 steps; 2 adapters | passes, 348 states |
| `event_loop` | 2 clients with 12 requests; 1 adapter, 1 I2C slave; 2 descriptors | passes, 110,110 states |
| `gpio_mux_callback`, `i2c_shared_pins`, `pins_shared`, `restart` | the instances of `gpio` with callbacks, `i2c`, `service` with a shared pin, `event_loop` | each finds the disagreement described below |

What they show. For each kind of device:

* `...HandlesMatchDrivers`: the client's handles are the managers' drivers. The raw
  pointers are safe because of this, and no device gets stuck busy without a handle.
* `...DriversOwnDescriptors`: a driver's descriptor is open and leads to its own device
  (or, for a UART, is dead with it), whatever was leaked, closed and reused.
* `GpioReopenable`: a registered pin that is not open can be opened while a descriptor is left,
  although a failed open or a crash has left its directory exported and its mux claimed. (Of the other
  kinds `...HandlesMatchDrivers` says as much: nothing but a driver in the manager's map refuses an
  open.)
* `GpioLineOnlyByHolder`, `SpiChipOnlyByHolder`, `UartBaudOnlyByHolder`: the hardware
  changes only in a call that names its device, and while the device is open.
* `SpiFailureChangesNothing`, `I2cFailureChangesNothing`: an error answer means that
  nothing happened. The second says as well that every I2C call is answered: what a read throws,
  for a size below zero or for the -1 bytes of a failed one, is caught by the handler
  (`PeripheralManagerAPI.cpp:1346`), where the same of an SPI transfer or a UART read ends the
  process.
* `SpiSpeedCapped`: no clock above the chip's limit, or of zero.
* `I2cNoDescriptorLeaks`, `I2cNoPinLeaks`, `UartNoPinLeaks`, `GpioPinsHeld`: who has
  descriptors and pins, as far as the code keeps account of it.

For the whole:

* `OnlyKnownLeaks`: a descriptor nobody has is a GPIO's polling descriptor or a UART's.
* `LeaksAreAnswered`: how such a descriptor comes to be. Each is one that a client was given to
  poll an open GPIO, or the one of a UART whose release was answered. The leaks are what the
  code does; that they count the client's own calls and nothing else (no failed open, pull, wait,
  list or crash) is what could go wrong without anybody noticing until every open is `EBUSY`.
* `FailuresLeaveLittle`: a call of any kind that is answered with an error, at once or after it held
  the loop, has changed no device of any kind. A GPIO's failed open may leave its directory and its
  claim, and nothing else leaves anything. (A UART's failed transfer or rate is answered as a success,
  which the property does not reach.)
* `PinsHeld`: a device that shares no pin with another has all of its pins while it is open.
  It speaks of each device by itself (`OwnPins`, `OwnPin`), so that it says something on every
  board: devices that share pins take them from each other, as `pins_shared` and
  `i2c_shared_pins` find them doing, but from nobody else. In the `service` run the two addresses
  of the I2C bus share theirs, while the other devices keep what is theirs.
* `OnlyGpioPinsLeak`: a pin in use that no open device's mux has is a GPIO's.
* `DevicesIsolated`: the service implements `Isolation`, in which each step concerns one
  device and hardware changes only for whoever has the device open, because somebody
  opened it, or because somebody pulled it.

Both properties of pins assume of the board only that it gives nothing the empty name and none
of its own UARTs an adapter's (`NamesApart`).

For registration:

* `BoardClosed`: a group's pins and a source's groups are registered. `SetSource` and
  `ReleaseSource` index their maps with these names and do not look.
* `RegistrationsStay`: no call removes or replaces what was registered. Handles point into
  these entries, and a pin registered anew would be idle under its device.
* `RefusedLeavesGroupAtMost`: what the TODO of `RegisterSimpleSource` admits to is all a
  refused call leaves.
* `HalMuxesResolve`, `HalPinsApart`: on this board all calls but two take effect, each mux of a
  bus is a source that claims something, and no pin has two uses, adapters that are
  listed later included. The first depends on the order of the calls, the second on which
  GPIOs a list in `HAL.cpp` leaves out; neither is checked by the code. It is
  `HalPinsApart` that gives this board's GPIOs, SPI bus and UARTs pins of their own in the sense
  of `PinsHeld`, `UartNoPinLeaks` and `GpioPinsHeld`, and its I2C buses pins that only the addresses
  of one bus share (`HalStartsSuitedService` proves it).

For the loop:

* `WaitingCallIsPending`: the device that a waiting handler reads or writes stays open
  until that handler has answered, whoever asks for its release in the meantime.
* `OvertakenTwiceAtMost`: no client is answered more than twice while a call of another is
  on its way, however many calls it makes: once with what it still had in the round
  before, once in the round of that call. Two is reached.
* `AnsweredUnlessLineWaits`: every call is answered, or ends with its service, unless the
  loop waits from some time on for one line. No client is passed over for the others. The
  property before it says for how long at most, counted in calls.

Bounds. Two devices of a kind are what it takes for one to be mistaken for another, and one
descriptor fewer than the devices want for running out of them; leaks reach that point
with any number of them. In `service` two descriptors let every pair of devices, of one
kind or of two, meet in every order, and leave none for the third; each device module
explores its own numbers, so that there they are reduced to one value each, and
`OneMode` keeps the SPI chip in the one mode those calls set (of four that `Init`
allows). In `board` two names of each sort are what it takes for a name to be used twice and for
one to be missing, and the sets of members are all there are; `OneKind` lets one of the four
managers, which share nothing, have devices at a time. `hal` has no bounds: it is the board.
In `event_loop` two clients are one that waits and one that is waited for; the twelve
requests are the eight methods of `/uart` on a line that can hold the loop, one of them with a
negative size too, which ends the process, and one request for each other kind: an I2C slave that
competes with the line for descriptors, and names no GPIO or SPI bus has, whose calls are refused or,
for a transfer, may end the process. Its UART requests are well-formed: one that is not is answered
at once like a call of another kind, and `uart` has those. `TooOften` stops the counts of
`Overtaking` at 3, one past what the property allows. Numbers are the ones
on either side of each comparison in the code. Nothing else is bounded: the state spaces are finite.

Fairness. The modules of the devices have none: their properties are safety properties and
possibilities (`ENABLED`). `EventLoop` has two conditions. `LoopStep` is weakly fair: a process
that is not inside a system call is scheduled, and its loop polls and dispatches.
`RestartOnFailure` is weakly fair: it is what the systemd unit says (line 10). `Resume` is not:
nothing in the code or the kernel bounds the time that a canonical UART, or one with flow
control, holds the loop. Nor are clients, adapters or the end of the process. So
`AnsweredUnlessLineWaits` makes the exception it does, and it is the only one.

### Disagreements found

* `GpioRoutedIsClaimed`: `PinMuxManager::SetGpio` (`PinmuxManager.cpp:141`) takes a callback's 0
  for failure; `peripheral_io.h:37` says 0 is success. A pin the board has routed is
  left unclaimed. `HAL.cpp` registers no callbacks, so that this board is not affected.
* `PinsExclusive`: `SetSource` and `SetGpio` refuse pins in use, and the managers ignore the
  refusal (`SpiManager.cpp:118`, `GpioManager.cpp:99`, `I2cManager.cpp:155`,
  `UartManager.cpp:158`). On this board the GPIOs that are registered have no mux.
* `I2cReleaseFindsPinsInUse`: the addresses of a bus share its pins, and the release of the
  first gives them up (`I2cManager.h:46`), contrary to what the warning of
  `ReleaseSource` (`PinmuxManager.cpp:121`) expects.
* `RestartedAfterFailure`: an exception that leaves a handler and reaches `main` is caught
  (`Main.cpp:36`) and the process returns 0, which `Restart=on-failure` takes for a success:
  the service stays down.

Others are in the models as the code has them, and have no run of their own:

* A delay of 0 is accepted and one above `INT16_MAX` refused; the comment over the check
  (`PeripheralManagerClient.cpp:294`) says positive and unsigned 16 bit.
* A device in canonical mode is opened without `O_NONBLOCK` (`UartDriverSysfs.cpp:47`), and a read of
  it holds the loop, as `event_loop` has it; the comment over the open says otherwise.
* Each registration callback returns 1 when it has registered something and 0 when it was
  refused (`PeripheralManager.cpp:68` and on: the managers' `bool`); `peripheral_io.h:92` says 0
  is success and errors are an errno.
* `register_devices` returns 0 whatever its calls returned (`HAL.cpp:128`), against
  `peripheral_io.h:251`. Two are refused on this board (`HalMuxesResolve`): `gpio1` is no
  registered GPIO when it is given a mux (`HAL.cpp:109`), and `gpio6` no registered pin when
  `I2C4` becomes a source (`HAL.cpp:116`). The bus `I2C4` is then without pins. (The source
  `UART1` has pins and no device.)

## The proofs

`GpioProofs` proves, for any sets of pins, names, muxes and descriptors that satisfy
the assumptions of `PinMux` and `Gpio`:

* `GpioInvariant`: `GpioSpec => []GpioInv`, and from it `GpioTypeCorrect`,
  `GpioHandlesCorrect` and `GpioDescriptorsCorrect`;
* `GpioLinesCorrect`: `GpioSpec => GpioLineOnlyByHolder`;
* `GpioFailureCorrect`: a GPIO call that is answered with an error has changed no handle, driver,
  descriptor or line; an open may have left its own pin exported and its own mux claimed;
* `GpioPinsKept`: `GpioSpec => []GpioPinsHeld`, for boards that satisfy `GpioPinsApart`: a failed
  open claims its own pin and a release gives up its own (`GpioPinEffects`), and others'
  are others.

The inductive invariant `GpioInv` is the conjunction of the type invariant,
`GpioHandlesMatchDrivers` and `GpioDriversOwnDescriptors`. None is inductive alone. A release
closes `gpioDriver[pin]`: that this is no other driver's descriptor follows because both lead
to their own pins' directories, which differ (`CloseGpioPinKeepsInv`); that there is a
descriptor to close follows because the handle has a driver. An open, and a request for a polling
descriptor, add a number that was free, hence nobody's. There is a lemma for each
handler, one for the end and the restart of the process, and one for the step.
`GpioLinesCorrect` uses the invariant once more: a write that succeeds goes where the
driver's descriptor leads, which is its own pin (`LineOfOwn`, `LineSetByHolder`).

`SpiProofs` proves the same of `SpiSpec`, for any clock limit and any numbers besides:
`SpiInvariant`, and from it `SpiTypeCorrect`, `SpiHandlesCorrect`, `SpiDescriptorsCorrect`,
`SpiSpeedCorrect` and `SpiChipsCorrect`. To the three conjuncts above `SpiInv` adds
`SpiSpeedCapped`: a fresh driver has the limit for a clock, a new clock is capped by it, and
every other setting leaves it (`SpiSettingKeepsInv`). That a setting leaves the descriptor is
what keeps the rest. `SpiFailureCorrect` (`SpiSpec => SpiFailureChangesNothing`) needs no
invariant: it goes through the answers of each handler (`SpiChangeIsAnsweredOk`).

`I2cProofs` proves of `I2cSpec`, where a bus has many drivers: `I2cInvariant`, `I2cTypeCorrect`,
`I2cHandlesCorrect`, `I2cDescriptorsCorrect`, `I2cFailureCorrect`, and that nothing is left
behind: `I2cDescriptorsReturned` and `I2cPinsReturned`. `I2cNoPinLeaks` is not inductive. On a
board that registered a source under the empty name, which nothing refuses, a bus without
a mux would pass for one that has pins to give back. The invariant has
`I2cPinsAskedFor` in its place, which counts the pins a device asks for (`ClaimedPins`), and
the theorem needs no assumption about that name, nor that the buses' pins are apart.
What holds only where I2C is alone in the process (no descriptor and no pin left behind) is
`I2cAloneInv`, apart from `I2cInv`, which the composition can keep.

`UartProofs` proves `UartInvariant` and from it `UartTypeCorrect`, `UartHandlesCorrect` and
`UartDescriptorsCorrect`; `UartBaudCorrect`; and `UartPinsReturned`. Here a driver's descriptor is never
closed, and may be dead: `UartDriversOwnDescriptors` survives a pull because the dead file still
names the device (`AdapterKeepsInv`). `UartFailureCorrect`: a UART call that is answered with an
error has changed nothing, one that waited and then failed included. A call that waits is part of the
state and goes on with what it finds then (`UartResumeKeepsInv`); `UartWaitOK` keeps the mode
it asked for. `UartPinsReturned` assumes
`UartPinsApart`, which only forbids a board to share pins and to name its own UARTs like
adapters; its induction is over the name a mux is registered under (`UartPinsInv`).

`PeripheralManagerProofs` composes them, for any board. `PmInv` is the conjunction of the four
invariants. A kind's own steps keep its part by its own module's lemma; that they keep the
other parts needs that a step changes only files of its own kind (`GpioFiles`, `SpiFiles`,
`I2cFiles`, `UartFiles`, from what each call may do: `GpioEffects` and so on) and that a kind's
invariant survives every step that leaves its files (`GpioFrame` and so on). From `PmInvariant`:

* `PmTypeCorrect`, `PmDescriptorsCorrect` and `PmHandlesCorrect`: what each kind keeps by itself
  it keeps next to the others;
* `PmFailureCorrect`: an SPI or I2C call that is answered with an error has changed nothing in the
  whole service, the parts of other kinds included;
* `PmFailuresLeaveLittle`: `Spec => FailuresLeaveLittle`, from what each kind's module proves of its
  failures (`GpioNextFailureStep` and so on);
* `PmLeaksAreAnswered`: `Spec => LeaksAreAnswered`. An open gives a driver the number that it took, a
  close takes away the number that the driver had, and what remains are the two calls it names
  (`GpioLosses` and so on); that a polling descriptor leads to the pin it was asked for needs
  `PmInv`;
* `PmIsolated`: `Spec => DevicesIsolated`. That hardware changes for one device only is
  `LineStep`, `ChipStep` and `BaudStep` of the three modules, carried over to the devices' names
  by `HardwareChanges`; there is a lemma for the steps of each kind;
* `PmOnlyKnownLeaks`: the inductive part is that every open file of the kinds `gpio`, `spi` and
  `i2c` is some driver's, and that there are no other kinds (`FilesHeld`);
* `PmPinsHeld` and `PmOnlyGpioPinsLeak`, on every board that satisfies `NamesApart`: pins in use are
  those of open devices or GPIOs' (so that an open of a device with its own pins finds them
  idle and claims them all), and a device with its own pins has them (`PinsInv`). Neither is
  inductive alone: an open has its pins because of the first half, and the first half holds because
  a release names what the open claimed. Sharing is no obstacle: what a claim or a release of
  another device does to pins, it does to that device's;
* `PmIdlePinsFree`: the pins of a device with its own are idle while it is not open, so that no
  `SetSource` of it is ever refused;
* `PmSharedPinsClaimed`: devices that have all of their pins in common take them from each other,
  but all of them or none, and leave none when the last is released. It needs a conjunct of
  `PinsInv` for itself (`PinsTogether`);
* `PmPinsAccounted`: on a board whose devices share pins in no other way, and whose GPIOs have no mux
  (`PinsApart`), the pins in use are those of open devices, and an SPI bus or a UART has its pins
  exactly while it is open. Whether an I2C bus with some addresses open has its pins does depend on
  what else was released;
* `PmI2cReleaseFindsPinsInUse`: where no two I2C devices share pins the warning of
  `PinmuxManager.cpp:121` cannot come. `i2c_shared_pins` shows that it comes otherwise.

`EventLoopProofs` proves, for any number of clients and any requests, that the loop adds
nothing: `EventLoopImplementsService` (`EventLoopSpec => Spec`), so that every theorem of
`PeripheralManagerProofs` holds behind the loop (`EventLoopIsolated`,
`EventLoopDescriptorsCorrect`, `EventLoopPinsHeld` and `EventLoopPinsAccounted` are four); and `WaitingCallKeepsDevice`, which needs that a call of
another kind never waits (`OtherKindsDoNotWait`) and that a connection in a round has a call
(`EventLoopInv`). `ClientsTakeTurns` proves `OvertakenTwiceAtMost`, with the invariant `OvertakenInv`: a
turn that is still to come counts already, so that a call has been overtaken at most once before it
gets into a round, and at most twice in it. This is the part of the loop's fairness that is a
safety property, and it holds however many clients there are. `OvertakingImplementsEventLoop`
shows that the history only watches.

`BoardProofs` proves, for any names and nodes: `BoardInvariant`, `BoardTypeCorrect`, `BoardStaysClosed`
(whatever a board does it leaves `PinMuxAssumption` behind), `BoardOnlyGrows`,
`BoardRefusalsLeaveLittle`. Of the start of this board it proves `HalMuxesCorrect`, `HalPinsCorrect` and
`HalStaysClosed`, whichever adapters there are, are plugged in and are listed, and wherever
an earlier process ended. Both properties speak of the end of the start and depend on the order of
the calls, so that the invariant `HalInv` has to say what each registry holds at each
call (`PinsBefore`, `GpiosBefore`, `SourcesBefore`, `RefusedBefore`, ...). `HalAssumption` is what they need
of adapters: none is named like a source. `HalRegistrationsStay` is `BoardOnlyGrows` for the steps of
`Hal`, a list among them, which registers adapters while handles are open: nothing a handle points
into goes before the process does.

The assumptions about boards are discharged in `BoardProofs` as well. The service's registries are
constants, which cannot be instantiated with the variables of `Board`; `Startup` therefore states
what it says for whichever constants equal the registries at that moment (`PinsRegistered`,
`DevicesRegistered`). `AnyBoardSuitsPinMux` shows that any board leaves behind what `PinMuxAssumption`
says. `HalStartsSuitedService` shows that, in the step in which `main` enters the loop, this board's
registries satisfy it and `PinsApart`, which contains `NamesApart`: `PmPinsHeld`, `PmIdlePinsFree`,
`PmSharedPinsClaimed`, `PmPinsAccounted` and the two theorems about pins behind the loop speak of
this board. It has no callbacks either. For this `HalInv` says, further, that no pin gets a callback
and that no UART is registered before the loop.

`ServiceProofs` has the lemmas about maps, the descriptor table, the pin registry and
answers, for all device modules to use.

Only model-checked: `GpioReopenable`, since `ENABLED` is out of the prover's reach; and
`AnsweredUnlessLineWaits`, as liveness is.
Every other property of a passing run is a theorem.

## Not modelled

* Wording of answers and logs; `PeripheralManagerException`'s texts.
* The bytes that are transferred, beyond whose they are; the conversion of text and numbers.
* The output of `i2cdetect` in a verbose I2C list (it changes no state).
* The bus: hub, roles and permissions (`files/sysbus`). The service has no subscriptions:
  `subscribe` is accepted and ignored.
* `PeripheralIo.cpp` is not built; `SetEdgeType`, `Enable`, `Disable` and
  `PinMuxManager::SetGpioDirection` are called by nothing.
* What happens when a pin's callback fails for a source: `SetSource` does not look, and the
  code relates nothing to it. The callbacks' choice is in the model (`route`).
* glib and luna-service2 beyond what the service relies on: a call is delivered once or
  its sender is told that the service is gone, and ready connections are all dispatched
  before the next poll.

Simplifications of what is modelled:

* A device's name stands for its kernel node. The code does not refuse two names for one node;
  `HAL.cpp` has none.
* A client has one call on its way at a time (`EventLoop`). The bus would let it have several, and the
  bound of `OvertakenTwiceAtMost` rests on this.
* The word size that the kernel keeps of an SPI chip is not in `spiChip`, which has its mode and its
  bit order: the driver sends its own with each transfer.
* A large positive size, for which there is no memory, is not among the numbers of a call. It may throw
  where a negative one does, with the same end.
* In `EventLoop` every end of the process but one that its own exception brings is a failure, which
  systemd restarts. A SIGTERM, which it takes for a clean stop, would leave it down as an
  administrator wants it.
* An open that waits, for a carrier or for output to drain, takes its descriptor when it goes on:
  nobody can want one in between. One whose adapter was pulled and plugged in again in the meantime
  may succeed in the model; the kernel would fail it.

## Plan

1. *(done)* `Kernel`, `PinMux`, `Service`; `Gpio`, `Spi` and `I2c` with their proofs; `Uart`;
   `PeripheralManager` and `Isolation`.
2. *(done)* `Board` and `Hal`: registration and start-up, and `BoardProofs`.
3. *(done)* `EventLoop`: clients, waiting calls, liveness, exit status; `EventLoopProofs`.
4. *(done)* `UartProofs`, and `GpioPinsKept`.
5. *(done)* `PeripheralManagerProofs`: the composition, isolation, leaks and pins.
6. *(done)* The start of this board, proved; `Overtaking`; pins on boards that share them;
   `EventLoop` over the whole service.
7. *(done)* `Startup`: what the running service supposes of a board, proved of boards; what failed
   calls leave behind; the account of pins.
