-------------------------------- MODULE Uart --------------------------------
(***************************************************************************)
(* UART, from the service's handlers through PeripheralManagerClient,      *)
(* UartManager and UartDevice to UartDriverSysfs.  The devices are serial  *)
(* adapters that come and go; a name can be opened from the first list     *)
(* that saw it.  A device opened in canonical mode is opened blocking: the *)
(* main loop then waits inside the call until the line lets it go on.      *)
(***************************************************************************)
EXTENDS Service

CONSTANTS BspUartMux,   \* [uarts the board registered -> the mux of each]
          Adapter,      \* the ttyACM and ttyUSB nodes that may be plugged in
          UartName,     \* the names a call may use
          UartNumbers   \* the baud rates and sizes a call may carry

BspUart == DOMAIN BspUartMux
UartDevice == BspUart \cup Adapter

ASSUME UartAssumption == /\ UartDevice \subseteq UartName
                         /\ UartNumbers \subseteq Int

VARIABLES uartMux,     \* uart_devices_ of the manager: [registered -> mux]
          uartDriver,  \* [uarts with a driver_ -> its fd_ and its mode]
          uarts,       \* the keys of the client's uart_devices_
          plugged,     \* the adapters that are plugged in
          baud,        \* the kernel's rate of each tty
          waiting      \* the call the loop is blocked in

uartVars == <<uartMux, uartDriver, uarts, plugged, baud, waiting>>
uartUnchanged == UNCHANGED uartVars

Baudrate == {0, 50, 75, 110, 134, 150, 200, 300, 600, 1200, 1800, 2400, 4800,
             9600, 19200, 38400, 57600, 115200, 230400}
DefaultBaud == 9600

NotWaiting == <<>>

UartInit == /\ uartMux = BspUartMux
            /\ uartDriver = EmptyMap
            /\ uarts = {}
            /\ plugged \in SUBSET Adapter
            /\ baud \in [UartDevice -> {DefaultBaud}]
            /\ waiting = NotWaiting

\* The tty, until its adapter is pulled: a descriptor of it is then dead for
\* good, also when the adapter comes back.
Tty(name) == <<"tty", name>>
Gone(name) == <<"gone", name>>

\* A system call on the driver's descriptor can succeed, on the tty it leads to.
ReachesTty(name) == Leads(uartDriver[name].fd, "tty")
TtyOf(name) == fdTable[uartDriver[name].fd][2]

(***************************************************************************)
(* UartManager::GetDevicesList asks a child process for the nodes, and     *)
(* registers them; what is registered stays.  RegisterUartDevice refuses a *)
(* name it has, SetPinMux does not.  A list that cannot be had is empty.   *)
(***************************************************************************)
GetDevicesList ==
  \/ /\ TransientPipe
     /\ uartMux' = [name \in DOMAIN uartMux \cup plugged |->
                      IF name \in plugged THEN name ELSE uartMux[name]]
  \/ UNCHANGED uartMux

(***************************************************************************)
(* UartDriverSysfs::Init, UartManager::OpenUartDevice, and the handle's    *)
(* destructor.  Canonical mode is set with a control word that has no      *)
(* speed bits, which is rate 0; raw mode leaves the rate alone.            *)
(* ~UartDriverSysfs does not close the descriptor.                         *)
(***************************************************************************)
OpenUart(name, canonical) ==
  /\ name \in plugged \cup BspUart
  /\ \E fd \in FreeFds :
       /\ OpenFd(fd, Tty(name))
       /\ uartDriver' = Bind(uartDriver, name, [fd |-> fd, canonical |-> canonical])
  /\ baud' = IF canonical THEN [baud EXCEPT ![name] = 0] ELSE baud
  /\ ClaimMux(uartMux[name])

OpenUartFails == UNCHANGED muxVars /\ UNCHANGED <<fdTable, uartDriver, baud>>

\* A mistake for TLC to find: driver_ is not reset.
CloseUartKeepsDriver(name) ==
  /\ DropMux(uartMux[name])
  /\ UNCHANGED uartDriver

\* A mistake for TLC to find: the pins are not given back.
CloseUartKeepsPins(name) ==
  /\ uartDriver' = Unbind(uartDriver, name)
  /\ UNCHANGED muxVars

CloseUart(name) ==
  /\ DropMux(uartMux[name])
  /\ uartDriver' = Unbind(uartDriver, name)

(***************************************************************************)
(* PeripheralManagerClient.                                                *)
(***************************************************************************)
\* A mistake for TLC to find: nobody looks whether the device is open.
ClientOpenUartDeviceTwice(name, canonical) ==
  /\ name \in DOMAIN uartMux
  /\ \/ /\ OpenUartFails
        /\ Reply("OpenUartDevice", <<name>>, "EBUSY", "none")
        /\ UNCHANGED uarts
     \/ /\ OpenUart(name, canonical)
        /\ uarts' = uarts \cup {name}
        /\ Reply("OpenUartDevice", <<name>>, "ok", "none")

\* A mistake for TLC to find: the pins are claimed before the driver is initialised,
\* and kept when that fails, as a GPIO's is.
ClientOpenUartDeviceClaimsFirst(name, canonical) ==
  /\ name \in DOMAIN uartMux \ DOMAIN uartDriver
  /\ \/ /\ ClaimMux(uartMux[name])
        /\ Reply("OpenUartDevice", <<name>>, "EBUSY", "none")
        /\ UNCHANGED <<fdTable, uartDriver, uarts, baud>>
     \/ /\ OpenUart(name, canonical)
        /\ uarts' = uarts \cup {name}
        /\ Reply("OpenUartDevice", <<name>>, "ok", "none")

ClientOpenUartDevice(name, canonical) ==
  \/ /\ name \notin DOMAIN uartMux
     /\ OpenUartFails
     /\ Reply("OpenUartDevice", <<name>>, "ENODEV", "none")
     /\ UNCHANGED uarts
  \/ /\ name \in DOMAIN uartMux
     /\ OpenUartFails
     /\ Reply("OpenUartDevice", <<name>>, "EBUSY", "none")
     /\ UNCHANGED uarts
  \/ /\ name \in DOMAIN uartMux \ DOMAIN uartDriver
     /\ OpenUart(name, canonical)
     /\ uarts' = uarts \cup {name}
     /\ Reply("OpenUartDevice", <<name>>, "ok", "none")

ClientReleaseUartDevice(name) ==
  \/ /\ name \in uarts
     /\ CloseUart(name)
     /\ uarts' = uarts \ {name}
     /\ Reply("ReleaseUartDevice", <<name>>, "ok", "none")
  \/ /\ name \notin uarts
     /\ Reply("ReleaseUartDevice", <<name>>, "EPERM", "none")
     /\ UNCHANGED muxVars /\ UNCHANGED <<uartDriver, uarts>>

\* A mistake for TLC to find: the rate is set without a handle.
ClientSetBaudrateUnheld(name, rate) ==
  /\ name \in UartDevice
  /\ Reply("SetUartDeviceBaudrate", <<name>>, "ok", "none")
  /\ baud' = IF rate \in Baudrate THEN [baud EXCEPT ![name] = rate] ELSE baud

\* A mistake for TLC to find: the driver takes any rate.
ClientSetBaudrateUnchecked(name, rate) ==
  /\ Reply("SetUartDeviceBaudrate", <<name>>,
           IF name \in uarts THEN "ok" ELSE "EPERM", "none")
  /\ baud' = IF name \in uarts /\ ReachesTty(name)
             THEN [baud EXCEPT ![TtyOf(name)] = rate]
             ELSE baud

\* The driver refuses a rate it has no constant for, and the kernel may refuse
\* any; the answer is "ok" all the same.
ClientSetBaudrate(name, rate) ==
  LET code == CASE name \notin uarts -> "EPERM"
                [] rate < 0          -> "EINVAL"
                [] OTHER             -> "ok"
  IN  /\ Reply("SetUartDeviceBaudrate", <<name>>, code, "none")
      /\ \/ UNCHANGED baud
         \/ /\ code = "ok" /\ rate \in Baudrate /\ ReachesTty(name)
            /\ baud' = [baud EXCEPT ![TtyOf(name)] = rate]

\* A device that can be written or read at once, or that fails, is answered "ok".
TransferAnswer(call, name, payload) ==
  IF name \notin uarts THEN Reply(call, <<name>>, "EPERM", "none")
  ELSE \/ ReachesTty(name) /\ Reply(call, <<name>>, "ok", payload)
       \/ Reply(call, <<name>>, "ok", "none")

\* A blocking descriptor whose line is not ready.
MayWait(name) ==
  name \in uarts /\ uartDriver[name].canonical /\ ReachesTty(name)

Wait(call, name, canonical) ==
  /\ loop' = "blocked"
  /\ waiting' = <<call, name, canonical>>
  /\ UNCHANGED reply

\* What tcgetattr leaves of an uninitialised struct when it fails.
ClientGetBaudrate(name) ==
  IF name \notin uarts THEN Reply("getBaudrate", <<name>>, "EPERM", "none")
  ELSE \/ ReachesTty(name) /\ Reply("getBaudrate", <<name>>, "ok", "received")
       \/ Reply("getBaudrate", <<name>>, "ok", "garbage")

ClientGetuartPollingFd(name) ==
  IF name \in uarts
  THEN Reply("GetuartPollingFd", <<name>>, "ok", uartDriver[name].fd)
  ELSE Reply("GetuartPollingFd", <<name>>, "EPERM", "none")
-----------------------------------------------------------------------------
(***************************************************************************)
(* The handlers.                                                           *)
(***************************************************************************)
ListUartDevices(request) ==
  LET verdict == Verdict(request, {"subscribe"}, {}) IN
  /\ Reply("ListUartDevices", <<>>, verdict, "none")
  /\ IF verdict = "ok" THEN GetDevicesList ELSE UNCHANGED uartMux
  /\ UNCHANGED baseVars /\ UNCHANGED <<uartDriver, uarts, plugged, baud, waiting>>

\* An open in canonical mode may wait for the line's carrier, and any open for
\* what was written before to be sent: the mode is set after the output drained.
OpenUartDevice(request, name, canonical) ==
  LET verdict == Verdict(request, {"interfaceId", "config"}, {"interfaceId"})
      mode == canonical /\ "config" \in request.keys
  IN
  /\ \/ /\ verdict # "ok" /\ Reply("OpenUartDevice", <<name>>, verdict, "none")
        /\ OpenUartFails /\ UNCHANGED <<loop, uarts, waiting>>
     \/ /\ verdict = "ok" /\ ClientOpenUartDevice(name, mode)
        /\ UNCHANGED <<loop, waiting>>
     \/ /\ verdict = "ok"
        /\ name \in (DOMAIN uartMux \ DOMAIN uartDriver) \cap (plugged \cup BspUart)
        /\ TransientFd
        /\ Wait("OpenUartDevice", name, mode)
        /\ OpenUartFails /\ UNCHANGED uarts
  /\ UNCHANGED <<uartMux, plugged>>

\* A mistake for TLC to find: the descriptor is closed, driver_ was not reset.
ReleaseUartDeviceClosesOnly(request, name) ==
  /\ Reply("ReleaseUartDevice", <<name>>, "ok", "none")
  /\ IF name \in uarts THEN CloseFd(uartDriver[name].fd) ELSE UNCHANGED fdTable
  /\ UNCHANGED muxVars /\ UNCHANGED loop /\ uartUnchanged

ReleaseUartDevice(request, name) ==
  LET verdict == Verdict(request, {"interfaceId"}, {"interfaceId"}) IN
  /\ \/ verdict # "ok" /\ Reply("ReleaseUartDevice", <<name>>, verdict, "none")
        /\ UNCHANGED muxVars /\ UNCHANGED <<uartDriver, uarts>>
     \/ verdict = "ok" /\ ClientReleaseUartDevice(name)
  /\ UNCHANGED <<fdTable, loop, uartMux, plugged, baud, waiting>>

SetUartDeviceBaudrate(request, name, rate) ==
  LET verdict == Verdict(request, {"interfaceId", "baudrate"},
                                  {"interfaceId", "baudrate"})
  IN
  /\ \/ verdict # "ok" /\ UNCHANGED baud
        /\ Reply("SetUartDeviceBaudrate", <<name>>, verdict, "none")
     \/ verdict = "ok" /\ ClientSetBaudrate(name, rate)
  /\ UNCHANGED baseVars /\ UNCHANGED <<uartMux, uartDriver, uarts, plugged, waiting>>

UartDeviceWrite(request, name) ==
  LET keys == {"data", "interfaceId", "dataType", "size"}
      verdict == Verdict(request, keys, keys)
  IN
  /\ \/ /\ verdict # "ok" /\ Reply("UartDeviceWrite", <<name>>, verdict, "none")
        /\ UNCHANGED <<loop, waiting>>
     \/ /\ verdict = "ok" /\ TransferAnswer("UartDeviceWrite", name, "none")
        /\ UNCHANGED <<loop, waiting>>
     \/ verdict = "ok" /\ MayWait(name) /\ Wait("UartDeviceWrite", name, TRUE)
  /\ UNCHANGED muxVars /\ UNCHANGED fdTable
  /\ UNCHANGED <<uartMux, uartDriver, uarts, plugged, baud>>

\* A size below zero leaves the handler as an exception before its try.
UartDeviceRead(request, name, size) ==
  LET verdict == Verdict(request, {"size", "interfaceId", "dataType"},
                                  {"interfaceId"})
      negative == "size" \in request.keys /\ size < 0
  IN
  /\ \/ /\ verdict # "ok" /\ Reply("UartDeviceRead", <<name>>, verdict, "none")
        /\ UNCHANGED <<loop, waiting>>
     \/ /\ verdict = "ok" /\ negative
        /\ loop' = "down" /\ UNCHANGED <<reply, waiting>>
     \/ /\ verdict = "ok" /\ ~ negative
        /\ TransferAnswer("UartDeviceRead", name, "received")
        /\ UNCHANGED <<loop, waiting>>
     \/ /\ verdict = "ok" /\ ~ negative
        /\ MayWait(name) /\ Wait("UartDeviceRead", name, TRUE)
  /\ UNCHANGED muxVars /\ UNCHANGED fdTable
  /\ UNCHANGED <<uartMux, uartDriver, uarts, plugged, baud>>

GetBaudrate(request, name) ==
  LET verdict == Verdict(request, {"interfaceId"}, {"interfaceId"}) IN
  /\ \/ verdict # "ok" /\ Reply("getBaudrate", <<name>>, verdict, "none")
     \/ verdict = "ok" /\ ClientGetBaudrate(name)
  /\ UNCHANGED baseVars /\ uartUnchanged

GetuartPollingFd(request, name) ==
  LET verdict == Verdict(request, {"id"}, {"id"}) IN
  /\ \/ verdict # "ok" /\ Reply("GetuartPollingFd", <<name>>, verdict, "none")
     \/ verdict = "ok" /\ ClientGetuartPollingFd(name)
  /\ UNCHANGED baseVars /\ uartUnchanged

\* The system call the loop is blocked in returns, and the handler goes on to
\* its end.  An open goes on as any open does.
UartResume ==
  /\ loop = "blocked"
  /\ loop' = "running"
  /\ waiting' = NotWaiting
  /\ \/ /\ waiting[1] = "OpenUartDevice"
        /\ ClientOpenUartDevice(waiting[2], waiting[3])
     \/ /\ waiting[1] = "UartDeviceWrite"
        /\ TransferAnswer("UartDeviceWrite", waiting[2], "none")
        /\ UNCHANGED muxVars /\ UNCHANGED <<fdTable, uartDriver, uarts, baud>>
     \/ /\ waiting[1] = "UartDeviceRead"
        /\ TransferAnswer("UartDeviceRead", waiting[2], "received")
        /\ UNCHANGED muxVars /\ UNCHANGED <<fdTable, uartDriver, uarts, baud>>
  /\ UNCHANGED <<uartMux, plugged>>

\* An adapter is plugged in, or pulled.
Plug(name) ==
  /\ plugged' = plugged \cup {name}
  /\ UNCHANGED baseVars
  /\ UNCHANGED <<reply, uartMux, uartDriver, uarts, baud, waiting>>

Unplug(name) ==
  /\ plugged' = plugged \ {name}
  /\ fdTable' = [fd \in DOMAIN fdTable |->
                   IF fdTable[fd] = Tty(name) THEN Gone(name) ELSE fdTable[fd]]
  /\ baud' = [baud EXCEPT ![name] = DefaultBaud]
  /\ UNCHANGED muxVars
  /\ UNCHANGED <<loop, reply, uartMux, uartDriver, uarts, waiting>>

UartNext ==
  \/ /\ running
     /\ \/ \E request \in Payloads({"subscribe"}, {}) : ListUartDevices(request)
        \/ \E name \in UartName :
             \/ \E request \in Payloads({"interfaceId", "config"}, {"interfaceId"}),
                   canonical \in BOOLEAN :
                  OpenUartDevice(request, name, canonical)
             \/ \E request \in Payloads({"interfaceId"}, {"interfaceId"}) :
                  \/ ReleaseUartDevice(request, name)
                  \/ GetBaudrate(request, name)
             \/ \E request \in Payloads({"interfaceId", "baudrate"},
                                        {"interfaceId", "baudrate"}),
                   rate \in UartNumbers :
                  SetUartDeviceBaudrate(request, name, rate)
             \/ \E request \in Payloads({"data", "interfaceId", "dataType", "size"},
                                        {"data", "interfaceId", "dataType", "size"}) :
                  UartDeviceWrite(request, name)
             \/ \E request \in Payloads({"size", "interfaceId", "dataType"},
                                        {"interfaceId"}),
                   size \in UartNumbers :
                  UartDeviceRead(request, name, size)
             \/ \E request \in Payloads({"id"}, {"id"}) :
                  GetuartPollingFd(request, name)
  \/ UartResume
  \/ \E name \in Adapter \ plugged : Plug(name)
  \/ \E name \in plugged : Unplug(name)

UartReboot == /\ uartMux' = BspUartMux
              /\ uartDriver' = EmptyMap
              /\ uarts' = {}
              /\ waiting' = NotWaiting
              /\ UNCHANGED <<plugged, baud>>
-----------------------------------------------------------------------------
UartSpecVars == <<baseVars, reply, uartVars>>

UartDie == Die /\ UNCHANGED <<fdTable, inUse, route, reply>> /\ uartUnchanged

UartSpecNext == UartNext \/ UartDie \/ (Reboot /\ UartReboot)

UartSpecInit == ServiceInit /\ UartInit

\* The service with no other kind of device.
UartSpec == UartSpecInit /\ [][UartSpecNext]_UartSpecVars
-----------------------------------------------------------------------------
\* The variables hold what the code's types let them hold.
UartTypeOK ==
  /\ ServiceTypeOK
  /\ BspUart \subseteq DOMAIN uartMux /\ DOMAIN uartMux \subseteq UartDevice
  /\ \A name \in DOMAIN uartDriver :
       uartDriver[name] \in [fd : Fd, canonical : BOOLEAN]
  /\ uarts \subseteq UartDevice
  /\ plugged \subseteq Adapter
  /\ baud \in [UartDevice -> Baudrate]
  /\ waiting = NotWaiting \/ waiting[2] \in UartDevice

\* The client holds a handle for exactly the uarts whose manager entry has a
\* driver, also while adapters are pulled, lists rewrite the entries, and opens
\* wait for a carrier.
UartHandlesMatchDrivers == uarts = DOMAIN uartDriver

\* The descriptor a driver keeps is its own device's, or dead with it: never
\* one that leads to another device, nor one another driver has.
UartDriversOwnDescriptors ==
  \A name \in DOMAIN uartDriver :
    /\ uartDriver[name].fd \in DOMAIN fdTable
    /\ fdTable[uartDriver[name].fd] \in {Tty(name), Gone(name)}

\* The mux a name is registered with: the board's, or the name itself.
UartMuxOf(name) == IF name \in BspUart THEN BspUartMux[name] ELSE name

\* A board that gives each of its uarts pins of its own, and names none of them
\* ttyACM or ttyUSB (the list would replace its mux).
UartPinsApart ==
  /\ NoMux \notin Source
  /\ BspUart \cap Adapter = {}
  /\ \A one, other \in UartDevice :
       one # other
         => SourcePins(UartMuxOf(one)) \cap SourcePins(UartMuxOf(other)) = {}

\* A pin that is in use belongs to an open uart, and an open uart has its pins:
\* the name under which they were claimed is the name under which they are
\* released, however often the devices were listed in between.
UartNoPinLeaks ==
  inUse = UNION {SourcePins(uartMux[name]) : name \in DOMAIN uartDriver}

\* The rate of a tty changes only in a call that names it while it is open or that
\* opens it, or with its adapter.
UartBaudOnlyByHolder ==
  [][\A name \in UartDevice :
       baud'[name] # baud[name] => \/ /\ name \in uarts \cup uarts'
                                      /\ reply'.dev = <<name>>
                                   \/ name \in plugged \ plugged'
    ]_UartSpecVars
=============================================================================
