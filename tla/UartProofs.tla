----------------------------- MODULE UartProofs -----------------------------
(***************************************************************************)
(* For any adapters, names, rates, muxes and descriptors: handles, drivers *)
(* and descriptors agree while adapters come and go and opens wait, only   *)
(* the holder of a tty changes its rate, and, where each uart has pins of  *)
(* its own, the pins in use are those of the open uarts.                   *)
(***************************************************************************)
EXTENDS Uart, ServiceProofs

\* An open that waits goes on in the mode it was called with.
UartWaitOK == loop = "blocked" => waiting[3] \in BOOLEAN

UartInv == /\ UartTypeOK
           /\ UartHandlesMatchDrivers
           /\ UartDriversOwnDescriptors
           /\ UartWaitOK

\* The device variables but for the registry of the manager.
uartRest == <<uartDriver, uarts, plugged, baud>>

\* The rates a call or an adapter sets are rates.
LEMMA BaudTypes == 0 \in Baudrate /\ DefaultBaud \in Baudrate
  BY DEF Baudrate, DefaultBaud

\* The files of two ttys differ, and a dead one is no tty's.
LEMMA TtyFiles ==
  ASSUME NEW one, NEW other
  PROVE  /\ Tty(one) = Tty(other) => one = other
         /\ Gone(one) = Gone(other) => one = other
         /\ Tty(one) # Gone(other)
  BY DEF Tty, Gone

\* The invariant holds when the process starts for the first time.
LEMMA UartInitInv == UartSpecInit => UartInv
  <1> SUFFICES ASSUME ServiceInit, UartInit PROVE UartInv
    BY DEF UartSpecInit
  <1>1. KernelTypeOK
    BY EmptyMapLemma DEF ServiceInit, KernelTypeOK, EmptyMap
  <1>2. MuxTypeOK
    BY DEF ServiceInit, MuxInit, MuxTypeOK
  <1>3. ReplyTypeOK
    BY DEF ServiceInit, ReplyTypeOK, Code, Payload
  <1>4. DOMAIN uartDriver = {} /\ DOMAIN fdTable = {} /\ uarts = {}
    BY EmptyMapLemma DEF UartInit, ServiceInit
  <1>5. uartMux = BspUartMux /\ plugged \in SUBSET Adapter /\ waiting = NotWaiting
        /\ baud \in [UartDevice -> Baudrate]
    BY BaudTypes DEF UartInit
  <1>6. BspUart \subseteq DOMAIN uartMux /\ DOMAIN uartMux \subseteq UartDevice
    BY <1>5 DEF BspUart, UartDevice
  <1>7. ServiceTypeOK
    BY <1>1, <1>2, <1>3 DEF ServiceTypeOK, ServiceInit
  <1>8. UartTypeOK
    BY <1>4, <1>5, <1>6, <1>7 DEF UartTypeOK
  <1> QED
    BY <1>4, <1>8
       DEF UartInv, UartHandlesMatchDrivers, UartDriversOwnDescriptors, UartWaitOK,
           ServiceInit

\* A call that only answers or waits, a list that registers adapters, a rate
\* that is set, and the end of the process keep the invariant.
LEMMA UartAnswerKeepsInv ==
  ASSUME UartInv, ReplyTypeOK', loop' \in {"running", "blocked", "down"},
         UNCHANGED fdTable, MuxTypeOK', UNCHANGED <<uartDriver, uarts>>,
         plugged' \subseteq Adapter,
         DOMAIN uartMux \subseteq DOMAIN uartMux', DOMAIN uartMux' \subseteq UartDevice,
         baud' \in [UartDevice -> Baudrate],
         waiting' = NotWaiting \/ waiting'[2] \in UartDevice,
         UartWaitOK'
  PROVE  UartInv'
  <1>1. KernelTypeOK'
    BY DEF UartInv, UartTypeOK, ServiceTypeOK, KernelTypeOK
  <1>2. UartTypeOK'
    BY <1>1 DEF UartInv, UartTypeOK, ServiceTypeOK
  <1> QED
    BY <1>2
       DEF UartInv, UartHandlesMatchDrivers, UartDriversOwnDescriptors, Tty, Gone

\* Of these, a call that changes nothing but its answer.
LEMMA UartPlainAnswerKeepsInv ==
  ASSUME UartInv, ReplyTypeOK', loop' \in {loop, "down"}, UNCHANGED fdTable,
         UNCHANGED muxVars, UNCHANGED uartVars
  PROVE  UartInv'
  <1>1. MuxTypeOK' /\ UartWaitOK' /\ loop' \in {"running", "blocked", "down"}
    BY MuxUnchangedType DEF UartInv, UartTypeOK, ServiceTypeOK, UartWaitOK, uartVars
  <1> QED
    BY <1>1, UartAnswerKeepsInv DEF UartInv, UartTypeOK, uartVars
-----------------------------------------------------------------------------
\* A successful open, in a call of its own or at the end of a wait: a descriptor
\* that was free.
LEMMA OpenUartKeepsInv ==
  ASSUME UartInv, NEW name, NEW canonical \in BOOLEAN,
         name \in DOMAIN uartMux \ DOMAIN uartDriver,
         OpenUart(name, canonical), uarts' = uarts \cup {name},
         ReplyTypeOK', UNCHANGED <<uartMux, plugged>>,
         loop' = "running" \/ UNCHANGED loop,
         waiting' = NotWaiting \/ UNCHANGED waiting,
         UartWaitOK'
  PROVE  UartInv'
  <1>1. PICK fd \in FreeFds :
          /\ OpenFd(fd, Tty(name))
          /\ uartDriver' = Bind(uartDriver, name, [fd |-> fd, canonical |-> canonical])
    BY DEF OpenUart
  <1>2. KernelTypeOK /\ MuxTypeOK /\ name \in UartDevice
    BY DEF UartInv, UartTypeOK, ServiceTypeOK
  <1>3. /\ KernelTypeOK'
        /\ fd \in Fd /\ fd \notin DOMAIN fdTable
        /\ DOMAIN fdTable' = DOMAIN fdTable \cup {fd}
        /\ fdTable'[fd] = Tty(name)
        /\ \A other \in DOMAIN fdTable : fdTable'[other] = fdTable[other]
    BY <1>1, <1>2, OpenFdLemma
  <1>4. MuxTypeOK'
    BY <1>2, MuxStepType DEF OpenUart
  <1>5. /\ DOMAIN uartDriver' = DOMAIN uartDriver \cup {name}
        /\ uartDriver'[name] = [fd |-> fd, canonical |-> canonical]
        /\ \A n \in DOMAIN uartDriver : uartDriver'[n] = uartDriver[n]
    BY <1>1 DEF Bind
  <1>6. baud' \in [UartDevice -> Baudrate]
    BY <1>2, BaudTypes DEF OpenUart, UartInv, UartTypeOK
  <1>7. ServiceTypeOK'
    BY <1>3, <1>4 DEF UartInv, UartTypeOK, ServiceTypeOK
  <1>8. \A n \in DOMAIN uartDriver' :
          uartDriver'[n] \in [fd : Fd, canonical : BOOLEAN]
    BY <1>3, <1>5 DEF UartInv, UartTypeOK
  <1>9. UartTypeOK'
    BY <1>2, <1>6, <1>7, <1>8 DEF UartInv, UartTypeOK
  <1>10. UartHandlesMatchDrivers'
    BY <1>5 DEF UartInv, UartHandlesMatchDrivers
  <1>11. UartDriversOwnDescriptors'
    <2> SUFFICES ASSUME NEW n \in DOMAIN uartDriver'
                 PROVE  /\ uartDriver'[n].fd \in DOMAIN fdTable'
                        /\ fdTable'[uartDriver'[n].fd] \in {Tty(n), Gone(n)}
      BY DEF UartDriversOwnDescriptors, Tty, Gone
    <2>1. CASE n = name
      BY <1>3, <1>5, <2>1
    <2>2. CASE n \in DOMAIN uartDriver
      BY <1>3, <1>5, <2>2 DEF UartInv, UartDriversOwnDescriptors
    <2> QED BY <1>5, <2>1, <2>2
  <1> QED BY <1>9, <1>10, <1>11 DEF UartInv

\* A release takes the driver away and leaves every descriptor where it is.
LEMMA CloseUartKeepsInv ==
  ASSUME UartInv, NEW name, CloseUart(name), uarts' = uarts \ {name}, ReplyTypeOK',
         UNCHANGED <<fdTable, loop, uartMux, plugged, baud, waiting>>
  PROVE  UartInv'
  <1>1. /\ DOMAIN uartDriver' = DOMAIN uartDriver \ {name}
        /\ \A n \in DOMAIN uartDriver \ {name} : uartDriver'[n] = uartDriver[n]
    BY DEF CloseUart, Unbind, Restrict
  <1>2. MuxTypeOK'
    BY MuxStepType DEF CloseUart, UartInv, UartTypeOK, ServiceTypeOK
  <1>3. ServiceTypeOK'
    BY <1>2 DEF UartInv, UartTypeOK, ServiceTypeOK, KernelTypeOK
  <1>4. UartTypeOK'
    BY <1>1, <1>3 DEF UartInv, UartTypeOK
  <1>5. UartHandlesMatchDrivers'
    BY <1>1 DEF UartInv, UartHandlesMatchDrivers
  <1>6. UartDriversOwnDescriptors'
    BY <1>1 DEF UartInv, UartDriversOwnDescriptors, Tty, Gone
  <1> QED BY <1>4, <1>5, <1>6 DEF UartInv, UartWaitOK
-----------------------------------------------------------------------------
(***************************************************************************)
(* The handlers.                                                           *)
(***************************************************************************)
\* An open answers with one of its codes, in a call of its own or after a wait.
LEMMA ClientOpenUartType ==
  ASSUME NEW name, NEW canonical, ClientOpenUartDevice(name, canonical)
  PROVE  ReplyTypeOK'
  <1>1. {"ok", "ENODEV", "EBUSY"} \subseteq Code /\ "none" \in Payload
    BY DEF Code, Payload
  <1> QED BY <1>1, ReplyType DEF ClientOpenUartDevice

\* So does a read or a write.
LEMMA TransferAnswerType ==
  ASSUME NEW call, NEW name, NEW payload \in Payload,
         TransferAnswer(call, name, payload)
  PROVE  ReplyTypeOK'
  <1>1. {"ok", "EPERM"} \subseteq Code /\ "none" \in Payload
    BY DEF Code, Payload
  <1> QED BY <1>1, ReplyType DEF TransferAnswer

\* ListUartDevices adds adapters to the registry, which keeps what it has.
LEMMA ListUartDevicesKeepsInv ==
  ASSUME UartInv, NEW request, ListUartDevices(request)
  PROVE  UartInv'
  <1>1. Verdict(request, {"subscribe"}, {}) \in Code /\ "none" \in Payload
    BY VerdictType DEF Code, Payload
  <1>2. ReplyTypeOK'
    BY <1>1, ReplyType DEF ListUartDevices
  <1>3. DOMAIN uartMux' = DOMAIN uartMux \/ DOMAIN uartMux' = DOMAIN uartMux \cup plugged
    BY DEF ListUartDevices, GetDevicesList
  <1>4. DOMAIN uartMux' \subseteq UartDevice
    BY <1>3 DEF UartInv, UartTypeOK, UartDevice
  <1>5. MuxTypeOK' /\ UartWaitOK' /\ loop' \in {"running", "blocked", "down"}
    BY MuxUnchangedType
       DEF ListUartDevices, baseVars, muxVars, UartInv, UartTypeOK, ServiceTypeOK,
           UartWaitOK
  <1> QED
    BY <1>2, <1>3, <1>4, <1>5, UartAnswerKeepsInv
       DEF ListUartDevices, baseVars, UartInv, UartTypeOK

\* OpenUartDevice: refused, busy, failed, done, or waiting for the line.
LEMMA OpenUartDeviceKeepsInv ==
  ASSUME UartInv, running, NEW request, NEW name, NEW canonical \in BOOLEAN,
         OpenUartDevice(request, name, canonical)
  PROVE  UartInv'
  <1> DEFINE mode == canonical /\ "config" \in request.keys
             verdict == Verdict(request, {"interfaceId", "config"}, {"interfaceId"})
  <1>1. verdict \in Code /\ "none" \in Payload /\ mode \in BOOLEAN
    BY VerdictType DEF Code, Payload
  <1>2. CASE /\ verdict # "ok" /\ Reply("OpenUartDevice", <<name>>, verdict, "none")
             /\ OpenUartFails /\ UNCHANGED <<loop, uarts, waiting>>
    <2>1. ReplyTypeOK'
      BY <1>1, <1>2, ReplyType
    <2> QED
      BY <1>2, <2>1, UartPlainAnswerKeepsInv
         DEF OpenUartFails, uartVars, OpenUartDevice
  <1>3. CASE ClientOpenUartDevice(name, mode) /\ UNCHANGED <<loop, waiting>>
    <2>1. ReplyTypeOK'
      BY <1>3, ClientOpenUartType
    <2>2. CASE OpenUartFails /\ UNCHANGED uarts
      BY <1>3, <2>1, <2>2, UartPlainAnswerKeepsInv
         DEF OpenUartFails, uartVars, OpenUartDevice
    <2>3. CASE /\ name \in DOMAIN uartMux \ DOMAIN uartDriver
               /\ OpenUart(name, mode) /\ uarts' = uarts \cup {name}
      <3>1. UNCHANGED <<uartMux, plugged>>
        BY DEF OpenUartDevice
      <3>2. UartWaitOK'
        BY <1>3 DEF UartInv, UartWaitOK
      <3> HIDE DEF mode
      <3> QED BY <1>1, <1>3, <2>1, <2>3, <3>1, <3>2, OpenUartKeepsInv
    <2> QED BY <1>3, <2>2, <2>3 DEF ClientOpenUartDevice
  <1>4. CASE /\ name \in (DOMAIN uartMux \ DOMAIN uartDriver) \cap (plugged \cup BspUart)
             /\ Wait("OpenUartDevice", name, mode)
             /\ OpenUartFails /\ UNCHANGED uarts
    <2>1. ReplyTypeOK' /\ MuxTypeOK'
      BY <1>4, MuxUnchangedType
         DEF Wait, OpenUartFails, UartInv, UartTypeOK, ServiceTypeOK, ReplyTypeOK
    <2>2. waiting' = <<"OpenUartDevice", name, mode>> /\ loop' = "blocked"
      BY <1>4 DEF Wait
    <2>3. name \in UartDevice
      BY <1>4 DEF UartInv, UartTypeOK
    <2>4. waiting'[2] \in UartDevice /\ UartWaitOK'
      BY <1>1, <2>2, <2>3 DEF UartWaitOK
    <2> QED
      BY <1>4, <2>1, <2>2, <2>4, UartAnswerKeepsInv
         DEF OpenUartFails, OpenUartDevice, UartInv, UartTypeOK
  <1> QED BY <1>2, <1>3, <1>4 DEF OpenUartDevice

\* ReleaseUartDevice, of an open device or of one that is not.
LEMMA ReleaseUartDeviceKeepsInv ==
  ASSUME UartInv, NEW request, NEW name, ReleaseUartDevice(request, name)
  PROVE  UartInv'
  <1> DEFINE verdict == Verdict(request, {"interfaceId"}, {"interfaceId"})
  <1>1. verdict \in Code /\ {"ok", "EPERM"} \subseteq Code /\ "none" \in Payload
    BY VerdictType DEF Code, Payload
  <1>2. ReplyTypeOK'
    BY <1>1, ReplyType DEF ReleaseUartDevice, ClientReleaseUartDevice
  <1>3. CASE UNCHANGED muxVars /\ UNCHANGED <<uartDriver, uarts>>
    BY <1>2, <1>3, UartPlainAnswerKeepsInv DEF ReleaseUartDevice, uartVars
  <1>4. CASE CloseUart(name) /\ uarts' = uarts \ {name}
    <2>1. UNCHANGED <<fdTable, loop, uartMux, plugged, baud, waiting>>
      BY DEF ReleaseUartDevice
    <2> QED BY <1>2, <1>4, <2>1, CloseUartKeepsInv
  <1> QED BY <1>3, <1>4 DEF ReleaseUartDevice, ClientReleaseUartDevice

\* The tty a driver's descriptor leads to is its own.
LEMMA TtyIsOwn ==
  ASSUME UartInv, NEW name \in uarts, ReachesTty(name)
  PROVE  TtyOf(name) = name
  <1>1. fdTable[uartDriver[name].fd] \in {Tty(name), Gone(name)}
    BY DEF UartInv, UartHandlesMatchDrivers, UartDriversOwnDescriptors
  <1> QED BY <1>1 DEF ReachesTty, Leads, TtyOf, Tty, Gone

\* SetUartDeviceBaudrate sets a rate of the list.
LEMMA SetUartDeviceBaudrateKeepsInv ==
  ASSUME UartInv, NEW request, NEW name, NEW rate,
         SetUartDeviceBaudrate(request, name, rate)
  PROVE  UartInv'
  <1> DEFINE verdict == Verdict(request, {"interfaceId", "baudrate"},
                                         {"interfaceId", "baudrate"})
  <1>1. verdict \in Code /\ {"ok", "EPERM", "EINVAL"} \subseteq Code
        /\ "none" \in Payload
    BY VerdictType DEF Code, Payload
  <1>2. ReplyTypeOK'
    BY <1>1, ReplyType DEF SetUartDeviceBaudrate, ClientSetBaudrate
  <1>3. \/ UNCHANGED baud
        \/ rate \in Baudrate /\ baud' = [baud EXCEPT ![TtyOf(name)] = rate]
    BY DEF SetUartDeviceBaudrate, ClientSetBaudrate
  <1>4. baud' \in [UartDevice -> Baudrate]
    BY <1>3 DEF UartInv, UartTypeOK
  <1>5. MuxTypeOK' /\ UartWaitOK' /\ loop' \in {"running", "blocked", "down"}
    BY MuxUnchangedType
       DEF SetUartDeviceBaudrate, baseVars, muxVars, UartInv, UartTypeOK,
           ServiceTypeOK, UartWaitOK
  <1> QED
    BY <1>2, <1>4, <1>5, UartAnswerKeepsInv
       DEF SetUartDeviceBaudrate, baseVars, UartInv, UartTypeOK

\* A read or a write that waits: nothing but the loop changes.
LEMMA WaitKeepsInv ==
  ASSUME UartInv, NEW call, NEW name, MayWait(name), Wait(call, name, TRUE),
         UNCHANGED muxVars, UNCHANGED fdTable,
         UNCHANGED <<uartMux, uartDriver, uarts, plugged, baud>>
  PROVE  UartInv'
  <1>1. ReplyTypeOK' /\ MuxTypeOK'
    BY MuxUnchangedType DEF Wait, UartInv, UartTypeOK, ServiceTypeOK, ReplyTypeOK
  <1>2. waiting' = <<call, name, TRUE>> /\ loop' = "blocked"
    BY DEF Wait
  <1>3. name \in UartDevice
    BY DEF MayWait, UartInv, UartTypeOK
  <1>4. waiting'[2] \in UartDevice /\ UartWaitOK'
    BY <1>2, <1>3 DEF UartWaitOK
  <1> QED BY <1>1, <1>2, <1>4, UartAnswerKeepsInv DEF UartInv, UartTypeOK

\* UartDeviceWrite and UartDeviceRead answer, wait, or end the process.
LEMMA UartTransferKeepsInv ==
  ASSUME UartInv, NEW request, NEW name, NEW size,
         UartDeviceWrite(request, name) \/ UartDeviceRead(request, name, size)
  PROVE  UartInv'
  <1> DEFINE keys == {"data", "interfaceId", "dataType", "size"}
             write == Verdict(request, keys, keys)
             read == Verdict(request, {"size", "interfaceId", "dataType"},
                             {"interfaceId"})
  <1>1. write \in Code /\ read \in Code /\ {"none", "received"} \subseteq Payload
    BY VerdictType DEF Code, Payload
  <1>2. /\ UNCHANGED muxVars /\ UNCHANGED fdTable
        /\ UNCHANGED <<uartMux, uartDriver, uarts, plugged, baud>>
    BY DEF UartDeviceWrite, UartDeviceRead
  <1>3. ASSUME ReplyTypeOK', loop' \in {loop, "down"}, UNCHANGED waiting
        PROVE  UartInv'
    BY <1>2, <1>3, UartPlainAnswerKeepsInv DEF uartVars
  <1>4. CASE UartDeviceWrite(request, name)
    <2>1. \/ ReplyTypeOK' /\ UNCHANGED <<loop, waiting>>
          \/ MayWait(name) /\ Wait("UartDeviceWrite", name, TRUE)
      BY <1>1, <1>4, ReplyType, TransferAnswerType DEF UartDeviceWrite
    <2> QED BY <1>2, <1>3, <2>1, WaitKeepsInv
  <1>5. CASE UartDeviceRead(request, name, size)
    <2>1. \/ ReplyTypeOK' /\ UNCHANGED <<loop, waiting>>
          \/ loop' = "down" /\ UNCHANGED <<reply, waiting>>
          \/ MayWait(name) /\ Wait("UartDeviceRead", name, TRUE)
      BY <1>1, <1>5, ReplyType, TransferAnswerType DEF UartDeviceRead
    <2>2. UNCHANGED reply => ReplyTypeOK'
      BY DEF UartInv, UartTypeOK, ServiceTypeOK, ReplyTypeOK
    <2> QED BY <1>2, <1>3, <2>1, <2>2, WaitKeepsInv
  <1> QED BY <1>4, <1>5

\* getBaudrate and GetuartPollingFd only answer.
LEMMA UartQueryKeepsInv ==
  ASSUME UartInv, NEW request, NEW name,
         GetBaudrate(request, name) \/ GetuartPollingFd(request, name)
  PROVE  UartInv'
  <1>1. /\ Verdict(request, {"interfaceId"}, {"interfaceId"}) \in Code
        /\ Verdict(request, {"id"}, {"id"}) \in Code
        /\ {"ok", "EPERM"} \subseteq Code
        /\ {"none", "received", "garbage"} \subseteq Payload /\ Fd \subseteq Payload
    BY VerdictType DEF Code, Payload
  <1>2. name \in uarts => uartDriver[name].fd \in Fd
    BY DEF UartInv, UartTypeOK, UartHandlesMatchDrivers
  <1>3. CASE GetBaudrate(request, name)
    <2>1. ReplyTypeOK'
      BY <1>1, <1>3, ReplyType DEF GetBaudrate, ClientGetBaudrate
    <2> QED
      BY <1>3, <2>1, UartPlainAnswerKeepsInv DEF GetBaudrate, baseVars, muxVars,
         uartUnchanged
  <1>4. CASE GetuartPollingFd(request, name)
    <2>1. ReplyTypeOK'
      BY <1>1, <1>2, <1>4, ReplyType DEF GetuartPollingFd, ClientGetuartPollingFd
    <2> QED
      BY <1>4, <2>1, UartPlainAnswerKeepsInv DEF GetuartPollingFd, baseVars, muxVars,
         uartUnchanged
  <1> QED BY <1>3, <1>4

\* The handler that waited goes on to its end.
LEMMA UartResumeKeepsInv ==
  ASSUME UartInv, UartResume
  PROVE  UartInv'
  <1>1. /\ loop = "blocked" /\ loop' = "running" /\ waiting' = NotWaiting
        /\ UNCHANGED <<uartMux, plugged>>
    BY DEF UartResume
  <1>2. waiting[3] \in BOOLEAN /\ UartWaitOK'
    BY <1>1 DEF UartInv, UartWaitOK
  <1>3. ASSUME ReplyTypeOK', UNCHANGED muxVars,
               UNCHANGED <<fdTable, uartDriver, uarts, baud>>
        PROVE  UartInv'
    <2>1. MuxTypeOK'
      BY <1>3, MuxUnchangedType DEF UartInv, UartTypeOK, ServiceTypeOK
    <2> QED BY <1>1, <1>2, <1>3, <2>1, UartAnswerKeepsInv DEF UartInv, UartTypeOK
  <1>4. CASE ClientOpenUartDevice(waiting[2], waiting[3])
    <2>1. ReplyTypeOK'
      BY <1>4, ClientOpenUartType
    <2>2. CASE OpenUartFails /\ UNCHANGED uarts
      BY <1>3, <2>1, <2>2 DEF OpenUartFails
    <2>3. CASE /\ waiting[2] \in DOMAIN uartMux \ DOMAIN uartDriver
               /\ OpenUart(waiting[2], waiting[3])
               /\ uarts' = uarts \cup {waiting[2]}
      BY <1>1, <1>2, <2>1, <2>3, OpenUartKeepsInv
    <2> QED BY <1>4, <2>2, <2>3 DEF ClientOpenUartDevice
  <1>5. CASE \/ TransferAnswer("UartDeviceWrite", waiting[2], "none")
             \/ TransferAnswer("UartDeviceRead", waiting[2], "received")
    <2>1. ReplyTypeOK'
      BY <1>5, TransferAnswerType DEF Payload
    <2>2. CASE /\ UNCHANGED muxVars /\ UNCHANGED <<fdTable, uartDriver, uarts, baud>>
      BY <1>3, <2>1, <2>2
    <2> QED BY <1>4, <2>2 DEF UartResume
  <1> QED BY <1>4, <1>5 DEF UartResume

\* A pulled adapter leaves the descriptors of its tty dead, and no other.
LEMMA AdapterKeepsInv ==
  ASSUME UartInv, NEW name,
         (name \in Adapter /\ Plug(name)) \/ (name \in plugged /\ Unplug(name))
  PROVE  UartInv'
  <1>1. CASE name \in Adapter /\ Plug(name)
    <2>1. ReplyTypeOK' /\ MuxTypeOK' /\ UartWaitOK' /\ plugged' \subseteq Adapter
      BY <1>1, MuxUnchangedType
         DEF Plug, baseVars, muxVars, UartInv, UartTypeOK, ServiceTypeOK, ReplyTypeOK,
             UartWaitOK
    <2> QED
      BY <1>1, <2>1, UartAnswerKeepsInv
         DEF Plug, baseVars, UartInv, UartTypeOK, ServiceTypeOK
  <1>2. CASE name \in plugged /\ Unplug(name)
    <2>1. /\ DOMAIN fdTable' = DOMAIN fdTable
          /\ KernelTypeOK'
      BY <1>2 DEF Unplug, KernelTypeOK, UartInv, UartTypeOK, ServiceTypeOK
    <2>2. ServiceTypeOK'
      BY <1>2, <2>1, MuxUnchangedType
         DEF Unplug, UartInv, UartTypeOK, ServiceTypeOK, ReplyTypeOK
    <2>3. baud' \in [UartDevice -> Baudrate]
      BY <1>2, BaudTypes DEF Unplug, UartInv, UartTypeOK
    <2>4. UartTypeOK'
      BY <1>2, <2>2, <2>3 DEF Unplug, UartInv, UartTypeOK
    <2>5. UartDriversOwnDescriptors'
      <3> SUFFICES ASSUME NEW n \in DOMAIN uartDriver
                   PROVE  /\ uartDriver[n].fd \in DOMAIN fdTable'
                          /\ fdTable'[uartDriver[n].fd] \in {Tty(n), Gone(n)}
        BY <1>2 DEF Unplug, UartDriversOwnDescriptors, Tty, Gone
      <3> DEFINE fd == uartDriver[n].fd
      <3>1. fd \in DOMAIN fdTable /\ fdTable[fd] \in {Tty(n), Gone(n)}
        BY DEF UartInv, UartDriversOwnDescriptors
      <3>2. fdTable'[fd] = IF fdTable[fd] = Tty(name) THEN Gone(name) ELSE fdTable[fd]
        BY <1>2, <3>1 DEF Unplug
      <3>3. fdTable[fd] = Tty(name) => n = name
        BY <3>1, TtyFiles
      <3> QED BY <2>1, <3>1, <3>2, <3>3
    <2> QED
      BY <1>2, <2>4, <2>5
         DEF Unplug, UartInv, UartHandlesMatchDrivers, UartWaitOK
  <1> QED BY <1>1, <1>2
-----------------------------------------------------------------------------
\* The calls whose effect on the pins and on the rates is the same.
UartOtherCall(request, name, size) ==
  \/ UartDeviceWrite(request, name) \/ UartDeviceRead(request, name, size)
  \/ GetBaudrate(request, name) \/ GetuartPollingFd(request, name)

\* The steps of UartNext by what they may do.
LEMMA UartSteps ==
  ASSUME UartNext
  PROVE  \/ \E request : running /\ ListUartDevices(request)
         \/ \E request, name : \E canonical \in BOOLEAN :
              running /\ OpenUartDevice(request, name, canonical)
         \/ \E request, name : running /\ ReleaseUartDevice(request, name)
         \/ \E request, name, rate : SetUartDeviceBaudrate(request, name, rate)
         \/ \E request, name, size : UartOtherCall(request, name, size)
         \/ UartResume
         \/ \E name : \/ name \in Adapter /\ Plug(name)
                      \/ name \in plugged /\ Unplug(name)
  BY DEF UartNext, UartOtherCall

\* The end of the process leaves the maps to be read; its restart empties them.
LEMMA UartRestartKeepsInv ==
  ASSUME UartInv, UartDie \/ (Reboot /\ UartReboot)
  PROVE  UartInv'
  <1>1. CASE UartDie
    BY <1>1, UartPlainAnswerKeepsInv
       DEF UartDie, Die, muxVars, uartUnchanged, UartInv, UartTypeOK, ServiceTypeOK,
           ReplyTypeOK
  <1>2. CASE Reboot /\ UartReboot
    <2>1. KernelTypeOK'
      BY <1>2 DEF Reboot, KernelTypeOK, EmptyMap
    <2>2. MuxTypeOK' /\ ReplyTypeOK'
      BY <1>2 DEF Reboot, MuxTypeOK, ReplyTypeOK, UartInv, UartTypeOK, ServiceTypeOK
    <2>3. DOMAIN uartDriver' = {} /\ uarts' = {} /\ loop' = "running"
      BY <1>2, EmptyMapLemma DEF UartReboot, Reboot
    <2>4. BspUart \subseteq DOMAIN uartMux' /\ DOMAIN uartMux' \subseteq UartDevice
      BY <1>2 DEF UartReboot, BspUart, UartDevice
    <2>5. ServiceTypeOK'
      BY <2>1, <2>2, <2>3 DEF ServiceTypeOK
    <2>6. UartTypeOK'
      BY <1>2, <2>3, <2>4, <2>5 DEF UartReboot, UartTypeOK, UartInv
    <2> QED
      BY <2>3, <2>6
         DEF UartInv, UartHandlesMatchDrivers, UartDriversOwnDescriptors, UartWaitOK
  <1> QED BY <1>1, <1>2

\* The invariant is inductive: a step or a stutter keeps it.
LEMMA UartNextKeepsInv ==
  ASSUME UartInv, [UartSpecNext]_UartSpecVars
  PROVE  UartInv'
  <1>1. CASE UNCHANGED UartSpecVars
    BY <1>1, UartPlainAnswerKeepsInv
       DEF UartSpecVars, baseVars, muxVars, UartInv, UartTypeOK, ServiceTypeOK,
           ReplyTypeOK
  <1>2. CASE UartNext
    <2>1. ASSUME NEW request, NEW name, NEW size, UartOtherCall(request, name, size)
          PROVE  UartInv'
      BY <2>1, UartTransferKeepsInv, UartQueryKeepsInv DEF UartOtherCall
    <2> QED
      BY <1>2, <2>1, UartSteps, ListUartDevicesKeepsInv, OpenUartDeviceKeepsInv,
         ReleaseUartDeviceKeepsInv, SetUartDeviceBaudrateKeepsInv,
         UartResumeKeepsInv, AdapterKeepsInv
  <1> QED BY <1>1, <1>2, UartRestartKeepsInv DEF UartSpecNext

\* The invariant holds throughout: of all adapters, uarts and numbers of
\* descriptors, what MCUart shows of one of each.
THEOREM UartInvariant == UartSpec => []UartInv
  <1>1. UartSpecInit => UartInv
    BY UartInitInv
  <1>2. UartInv /\ [UartSpecNext]_UartSpecVars => UartInv'
    BY UartNextKeepsInv
  <1> QED BY <1>1, <1>2, PTL DEF UartSpec

\* UART's variables keep their types.
THEOREM UartTypeCorrect == UartSpec => []UartTypeOK
  <1>1. UartInv => UartTypeOK
    BY DEF UartInv
  <1> QED BY <1>1, UartInvariant, PTL

\* The client's handles are the uarts' drivers, also when an adapter is pulled
\* under an open one or an open waits while the adapter goes.
THEOREM UartHandlesCorrect == UartSpec => []UartHandlesMatchDrivers
  <1>1. UartInv => UartHandlesMatchDrivers
    BY DEF UartInv
  <1> QED BY <1>1, UartInvariant, PTL

\* The descriptor of a uart leads to its own tty or to nothing, although no
\* release closes one.
THEOREM UartDescriptorsCorrect == UartSpec => []UartDriversOwnDescriptors
  <1>1. UartInv => UartDriversOwnDescriptors
    BY DEF UartInv
  <1> QED BY <1>1, UartInvariant, PTL
-----------------------------------------------------------------------------
\* What UartBaudOnlyByHolder says of one step.
BaudStep ==
  \A name \in UartDevice :
    baud'[name] # baud[name] => \/ /\ name \in uarts \cup uarts'
                                   /\ reply'.dev = <<name>>
                                \/ name \in plugged \ plugged'

\* An open sets the rate of the tty it opens, and answers for it.
LEMMA ClientOpenBaudStep ==
  ASSUME UartInv, NEW name, NEW canonical, ClientOpenUartDevice(name, canonical)
  PROVE  BaudStep
  <1>1. CASE UNCHANGED baud
    BY <1>1 DEF BaudStep
  <1>2. CASE /\ OpenUart(name, canonical) /\ uarts' = uarts \cup {name}
             /\ Reply("OpenUartDevice", <<name>>, "ok", "none")
    <2>1. \A other \in UartDevice : other # name => baud'[other] = baud[other]
      BY <1>2 DEF OpenUart, UartInv, UartTypeOK
    <2> QED BY <1>2, <2>1 DEF BaudStep, Reply
  <1> QED BY <1>1, <1>2 DEF ClientOpenUartDevice, OpenUartFails

\* Every step does, or a plugged adapter goes.
LEMMA UartNextBaudStep ==
  ASSUME UartInv, [UartSpecNext]_UartSpecVars
  PROVE  BaudStep
  <1>1. CASE UNCHANGED baud
    BY <1>1 DEF BaudStep
  <1>2. ASSUME NEW request, NEW name, NEW canonical,
               OpenUartDevice(request, name, canonical)
        PROVE  BaudStep
    BY <1>1, <1>2, ClientOpenBaudStep DEF OpenUartDevice, OpenUartFails
  <1>3. ASSUME NEW request, NEW name, NEW rate,
               SetUartDeviceBaudrate(request, name, rate)
        PROVE  BaudStep
    <2>1. CASE /\ name \in uarts /\ ReachesTty(name)
               /\ Reply("SetUartDeviceBaudrate", <<name>>, "ok", "none")
               /\ baud' = [baud EXCEPT ![TtyOf(name)] = rate]
      <3>1. baud' = [baud EXCEPT ![name] = rate]
        BY <2>1, TtyIsOwn
      <3>2. \A other \in UartDevice : other # name => baud'[other] = baud[other]
        BY <3>1 DEF UartInv, UartTypeOK
      <3> QED BY <2>1, <3>2 DEF BaudStep, Reply
    <2> QED BY <1>1, <1>3, <2>1 DEF SetUartDeviceBaudrate, ClientSetBaudrate
  <1>4. CASE UartResume
    BY <1>1, <1>4, ClientOpenBaudStep DEF UartResume
  <1>5. ASSUME NEW name, (name \in Adapter /\ Plug(name))
                         \/ (name \in plugged /\ Unplug(name))
        PROVE  BaudStep
    <2>1. CASE name \in plugged /\ Unplug(name)
      <3>1. \A other \in UartDevice : other # name => baud'[other] = baud[other]
        BY <2>1 DEF Unplug, UartInv, UartTypeOK
      <3> QED BY <2>1, <3>1 DEF Unplug, BaudStep
    <2> QED BY <1>1, <1>5, <2>1 DEF Plug
  <1>6. CASE \/ \E request : ListUartDevices(request)
             \/ \E request, name : ReleaseUartDevice(request, name)
             \/ \E request, name, size : UartOtherCall(request, name, size)
    BY <1>1, <1>6
       DEF ListUartDevices, ReleaseUartDevice, UartOtherCall, UartDeviceWrite,
           UartDeviceRead, GetBaudrate, GetuartPollingFd, uartUnchanged, uartVars
  <1>7. CASE UartDie \/ (Reboot /\ UartReboot) \/ UNCHANGED UartSpecVars
    BY <1>1, <1>7 DEF UartDie, UartReboot, uartUnchanged, uartVars, UartSpecVars
  <1>8. CASE UartNext
    BY <1>2, <1>3, <1>4, <1>5, <1>6, <1>8, UartSteps
  <1> QED BY <1>7, <1>8 DEF UartSpecNext

\* No call for one uart changes the rate of another, whatever is open, pulled or
\* waiting.
THEOREM UartBaudCorrect == UartSpec => UartBaudOnlyByHolder
  <1>1. UartInv /\ [UartSpecNext]_UartSpecVars => [BaudStep]_UartSpecVars
    BY UartNextBaudStep
  <1> QED BY <1>1, UartInvariant, PTL DEF UartSpec, UartBaudOnlyByHolder, BaudStep
-----------------------------------------------------------------------------
(***************************************************************************)
(* The pins, on a board where each uart has its own: the inductive part is *)
(* that a name keeps the mux it was first registered with.                 *)
(***************************************************************************)
UartPinsInv ==
  /\ UartNoPinLeaks
  /\ DOMAIN uartDriver \subseteq DOMAIN uartMux
  /\ \A name \in DOMAIN uartMux : uartMux[name] = UartMuxOf(name)

\* A device without a mux has no pins.
LEMMA NoMuxNoPins ==
  ASSUME UartPinsApart
  PROVE  SourcePins(NoMux) = {}
  BY DEF UartPinsApart, SourcePins, Registered

\* An open finds its pins idle, and claims them all.
LEMMA OpenUartPins ==
  ASSUME UartPinsApart, UartInv, UartPinsInv, NEW name, NEW canonical,
         name \in DOMAIN uartMux \ DOMAIN uartDriver, OpenUart(name, canonical),
         UNCHANGED uartMux
  PROVE  UartPinsInv'
  <1> DEFINE mux == uartMux[name]
  <1>1. DOMAIN uartDriver' = DOMAIN uartDriver \cup {name}
    BY DEF OpenUart, Bind
  <1>2. SourcePins(mux) \cap inUse = {}
    <2> SUFFICES ASSUME NEW other \in DOMAIN uartDriver
                 PROVE  SourcePins(mux) \cap SourcePins(uartMux[other]) = {}
      BY DEF UartPinsInv, UartNoPinLeaks
    <2>1. other # name /\ other \in UartDevice /\ name \in UartDevice
      BY DEF UartInv, UartTypeOK, UartPinsInv
    <2>2. mux = UartMuxOf(name) /\ uartMux[other] = UartMuxOf(other)
      BY DEF UartPinsInv
    <2> QED BY <2>1, <2>2 DEF UartPinsApart
  <1>3. inUse' = inUse \cup SourcePins(mux)
    BY <1>2, NoMuxNoPins DEF OpenUart, ClaimMux, SetSource, SourcePins, muxVars
  <1> QED
    BY <1>1, <1>3 DEF UartPinsInv, UartNoPinLeaks, SourcePins, Registered

\* A release gives up its own pins and no other's.
LEMMA CloseUartPins ==
  ASSUME UartPinsApart, UartInv, UartPinsInv, NEW name \in DOMAIN uartDriver,
         CloseUart(name), UNCHANGED uartMux
  PROVE  UartPinsInv'
  <1> DEFINE mux == uartMux[name]
             others == DOMAIN uartDriver \ {name}
  <1>1. DOMAIN uartDriver' = others
    BY DEF CloseUart, Unbind, Restrict
  <1>2. inUse' = inUse \ SourcePins(mux)
    BY NoMuxNoPins DEF CloseUart, DropMux, ReleaseSource, SourcePins, muxVars
  <1>3. ASSUME NEW other \in others
        PROVE  SourcePins(mux) \cap SourcePins(uartMux[other]) = {}
    <2>1. other # name /\ other \in UartDevice /\ name \in UartDevice
      BY DEF UartInv, UartTypeOK, UartPinsInv
    <2>2. mux = UartMuxOf(name) /\ uartMux[other] = UartMuxOf(other)
      BY DEF UartPinsInv
    <2> QED BY <2>1, <2>2 DEF UartPinsApart
  <1>4. inUse = UNION {SourcePins(uartMux[n]) : n \in DOMAIN uartDriver}
    BY DEF UartPinsInv, UartNoPinLeaks
  <1>5. inUse' = UNION {SourcePins(uartMux[n]) : n \in others}
    BY <1>2, <1>3, <1>4
  <1> QED
    BY <1>1, <1>5 DEF UartPinsInv, UartNoPinLeaks, SourcePins, Registered

\* A step that leaves pins and drivers alone and adds names to the registry.
LEMMA UartIdlePins ==
  ASSUME UartPinsInv, UNCHANGED inUse, UNCHANGED uartDriver,
         DOMAIN uartMux \subseteq DOMAIN uartMux',
         \A name \in DOMAIN uartMux' : uartMux'[name] = UartMuxOf(name)
  PROVE  UartPinsInv'
  <1>1. \A name \in DOMAIN uartDriver : uartMux'[name] = uartMux[name]
    BY DEF UartPinsInv
  <1>2. {SourcePins(uartMux'[name]) : name \in DOMAIN uartDriver}
          = {SourcePins(uartMux[name]) : name \in DOMAIN uartDriver}
    BY <1>1
  <1> QED
    BY <1>2 DEF UartPinsInv, UartNoPinLeaks, SourcePins, Registered, UartMuxOf,
                BspUart

\* ListUartDevices registers an adapter under its own name, which is its mux.
LEMMA ListUartDevicesPins ==
  ASSUME UartPinsApart, UartInv, UartPinsInv, NEW request, ListUartDevices(request)
  PROVE  UartPinsInv'
  <1>1. UNCHANGED inUse /\ UNCHANGED uartDriver
    BY DEF ListUartDevices, baseVars
  <1>2. CASE UNCHANGED uartMux
    BY <1>1, <1>2, UartIdlePins DEF UartPinsInv, UartMuxOf, BspUart
  <1>3. CASE GetDevicesList
    <2>1. plugged \cap BspUart = {}
      BY DEF UartPinsApart, UartInv, UartTypeOK
    <2>2. CASE uartMux' = [name \in DOMAIN uartMux \cup plugged |->
                             IF name \in plugged THEN name ELSE uartMux[name]]
      BY <1>1, <2>1, <2>2, UartIdlePins DEF UartPinsInv, UartMuxOf, BspUart
    <2> QED BY <1>2, <1>3, <2>2 DEF GetDevicesList
  <1> QED BY <1>2, <1>3 DEF ListUartDevices

\* Every step keeps the pins and the muxes.
LEMMA UartNextPins ==
  ASSUME UartPinsApart, UartInv, UartPinsInv, [UartSpecNext]_UartSpecVars
  PROVE  UartPinsInv'
  <1>1. ASSUME UNCHANGED inUse, UNCHANGED uartDriver, UNCHANGED uartMux
        PROVE  UartPinsInv'
    BY <1>1, UartIdlePins DEF UartPinsInv, UartMuxOf, BspUart
  <1>2. ASSUME NEW name, NEW canonical, ClientOpenUartDevice(name, canonical),
               UNCHANGED uartMux
        PROVE  UartPinsInv'
    BY <1>1, <1>2, OpenUartPins DEF ClientOpenUartDevice, OpenUartFails, muxVars
  <1>3. ASSUME NEW request, NEW name, NEW canonical,
               OpenUartDevice(request, name, canonical)
        PROVE  UartPinsInv'
    BY <1>1, <1>2, <1>3 DEF OpenUartDevice, OpenUartFails, muxVars
  <1>4. ASSUME NEW request, NEW name, ReleaseUartDevice(request, name)
        PROVE  UartPinsInv'
    <2>1. CASE name \in uarts /\ CloseUart(name)
      <3>1. name \in DOMAIN uartDriver
        BY <2>1 DEF UartInv, UartHandlesMatchDrivers
      <3> QED BY <1>4, <2>1, <3>1, CloseUartPins DEF ReleaseUartDevice
    <2> QED
      BY <1>1, <1>4, <2>1 DEF ReleaseUartDevice, ClientReleaseUartDevice, muxVars
  <1>5. CASE UartResume
    BY <1>1, <1>2, <1>5 DEF UartResume, muxVars
  <1>6. CASE \/ \E request, name, rate : SetUartDeviceBaudrate(request, name, rate)
             \/ \E request, name, size : UartOtherCall(request, name, size)
             \/ \E name : Plug(name) \/ Unplug(name)
    BY <1>1, <1>6
       DEF SetUartDeviceBaudrate, UartOtherCall, UartDeviceWrite, UartDeviceRead,
           GetBaudrate, GetuartPollingFd, Plug, Unplug, uartUnchanged, uartVars,
           baseVars, muxVars
  <1>7. CASE UartNext
    BY <1>3, <1>4, <1>5, <1>6, <1>7, UartSteps, ListUartDevicesPins
  <1>8. CASE Reboot /\ UartReboot
    <2>1. inUse' = {} /\ DOMAIN uartDriver' = {} /\ uartMux' = BspUartMux
      BY <1>8, EmptyMapLemma DEF Reboot, UartReboot
    <2> QED BY <2>1 DEF UartPinsInv, UartNoPinLeaks, UartMuxOf, BspUart
  <1>9. CASE UartDie \/ UNCHANGED UartSpecVars
    BY <1>1, <1>9
       DEF UartDie, uartUnchanged, uartVars, UartSpecVars, baseVars
  <1> QED BY <1>7, <1>8, <1>9 DEF UartSpecNext

\* On a board that gives its uarts pins of their own, the pins in use are at all
\* times those of the open uarts: none is left behind, and none is lost.
THEOREM UartPinsReturned ==
  ASSUME UartPinsApart
  PROVE  UartSpec => []UartNoPinLeaks
  <1>1. UartSpecInit => UartPinsInv
    <2> SUFFICES ASSUME UartSpecInit PROVE UartPinsInv
      OBVIOUS
    <2>1. inUse = {} /\ DOMAIN uartDriver = {} /\ uartMux = BspUartMux
      BY EmptyMapLemma DEF UartSpecInit, ServiceInit, MuxInit, UartInit
    <2> QED BY <2>1 DEF UartPinsInv, UartNoPinLeaks, UartMuxOf, BspUart
  <1>2. UartInv /\ UartPinsInv /\ [UartSpecNext]_UartSpecVars => UartPinsInv'
    BY UartNextPins
  <1>3. UartPinsInv => UartNoPinLeaks
    BY DEF UartPinsInv
  <1> QED BY <1>1, <1>2, <1>3, UartInvariant, PTL DEF UartSpec
-----------------------------------------------------------------------------
\* A step that ends in an answer with an error, and in which no adapter is
\* plugged in or pulled, has changed nothing but the call that waited.
UartFailureStep ==
  alive /\ running' /\ UNCHANGED plugged /\ reply'.code # "ok"
    => UNCHANGED <<muxVars, fdTable, uartMux, uartDriver, uarts, baud>>

\* The client's open, by the handler or after a wait.
LEMMA ClientOpenUartFailureStep ==
  ASSUME NEW name, NEW canonical, ClientOpenUartDevice(name, canonical),
         UNCHANGED uartMux
  PROVE  UartFailureStep
  <1>1. reply'.code = "ok" \/ (OpenUartFails /\ UNCHANGED uarts)
    BY DEF ClientOpenUartDevice, Reply
  <1> QED BY <1>1 DEF UartFailureStep, OpenUartFails

\* An open, a release, a list and a new rate change something where they answer
\* "ok"; a call that starts to wait does not end.
LEMMA UartCallFailureStep ==
  ASSUME NEW request, NEW name, NEW v,
         \/ ListUartDevices(request)
         \/ OpenUartDevice(request, name, v)
         \/ ReleaseUartDevice(request, name)
         \/ SetUartDeviceBaudrate(request, name, v)
  PROVE  UartFailureStep
  <1>1. CASE ListUartDevices(request)
    <2>1. reply'.code = "ok" \/ UNCHANGED uartMux
      BY <1>1 DEF ListUartDevices, Reply
    <2> QED BY <1>1, <2>1 DEF ListUartDevices, UartFailureStep, baseVars, muxVars
  <1>2. CASE OpenUartDevice(request, name, v)
    <2> DEFINE mode == v /\ "config" \in request.keys
    <2>1. UNCHANGED uartMux
      BY <1>2 DEF OpenUartDevice
    <2>2. CASE OpenUartFails /\ UNCHANGED uarts
      BY <2>1, <2>2 DEF UartFailureStep, OpenUartFails
    <2>3. CASE ClientOpenUartDevice(name, mode)
      BY <2>1, <2>3, ClientOpenUartFailureStep
    <2> QED BY <1>2, <2>2, <2>3 DEF OpenUartDevice
  <1>3. CASE ReleaseUartDevice(request, name)
    <2>1. reply'.code = "ok" \/ (UNCHANGED muxVars /\ UNCHANGED <<uartDriver, uarts>>)
      BY <1>3 DEF ReleaseUartDevice, ClientReleaseUartDevice, Reply
    <2> QED BY <1>3, <2>1 DEF ReleaseUartDevice, UartFailureStep
  <1>4. CASE SetUartDeviceBaudrate(request, name, v)
    <2>1. reply'.code = "ok" \/ UNCHANGED baud
      BY <1>4 DEF SetUartDeviceBaudrate, ClientSetBaudrate, Reply
    <2> QED
      BY <1>4, <2>1 DEF SetUartDeviceBaudrate, UartFailureStep, baseVars, muxVars
  <1> QED BY <1>1, <1>2, <1>3, <1>4

\* Every step of the UARTs, with the end of the process and its restart.
LEMMA UartNextFailureStep ==
  ASSUME [UartSpecNext]_UartSpecVars
  PROVE  UartFailureStep
  <1>1. CASE UNCHANGED UartSpecVars
    BY <1>1 DEF UartSpecVars, baseVars, muxVars, uartVars, UartFailureStep
  <1>2. CASE \E request, name, v : \/ ListUartDevices(request)
                                   \/ OpenUartDevice(request, name, v)
                                   \/ ReleaseUartDevice(request, name)
                                   \/ SetUartDeviceBaudrate(request, name, v)
    BY <1>2, UartCallFailureStep
  <1>3. CASE \E request, name, size : \/ UartDeviceWrite(request, name)
                                      \/ UartDeviceRead(request, name, size)
    BY <1>3 DEF UartDeviceWrite, UartDeviceRead, UartFailureStep
  <1>4. CASE \E request, name : \/ GetBaudrate(request, name)
                                \/ GetuartPollingFd(request, name)
    BY <1>4 DEF GetBaudrate, GetuartPollingFd, baseVars, muxVars, uartUnchanged,
                uartVars, UartFailureStep
  <1>5. CASE UartResume
    <2>1. UNCHANGED uartMux
      BY <1>5 DEF UartResume
    <2>2. CASE ClientOpenUartDevice(waiting[2], waiting[3])
      BY <2>1, <2>2, ClientOpenUartFailureStep
    <2>3. CASE UNCHANGED muxVars /\ UNCHANGED <<fdTable, uartDriver, uarts, baud>>
      BY <2>1, <2>3 DEF UartFailureStep
    <2> QED BY <1>5, <2>2, <2>3 DEF UartResume
  <1>6. CASE \/ \E name \in Adapter \ plugged : Plug(name)
             \/ \E name \in plugged : Unplug(name)
    <2>1. plugged' # plugged
      BY <1>6 DEF Plug, Unplug
    <2> QED BY <2>1 DEF UartFailureStep
  <1>7. CASE UartDie \/ Reboot
    BY <1>7 DEF UartDie, Die, Reboot, UartFailureStep, running, alive
  <1> QED
    BY <1>1, <1>2, <1>3, <1>4, <1>5, <1>6, <1>7 DEF UartSpecNext, UartNext

\* A UART call that is answered with an error, at once or after it held the loop,
\* has changed nothing: no registration, handle or driver, no descriptor, no pin
\* and no rate.
THEOREM UartFailureCorrect == UartSpec => [][UartFailureStep]_UartSpecVars
  <1>1. [UartSpecNext]_UartSpecVars => [UartFailureStep]_UartSpecVars
    BY UartNextFailureStep
  <1> QED BY <1>1, PTL DEF UartSpec
=============================================================================
