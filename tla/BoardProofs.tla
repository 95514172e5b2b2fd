---------------------------- MODULE BoardProofs -----------------------------
(***************************************************************************)
(* For any names, and any board's calls in any order: the registries stay  *)
(* closed, what is registered stays, and a refusal leaves a group at most. *)
(* For the board of this repository, and any adapters: its muxes resolve   *)
(* and its pins are apart.                                                 *)
(***************************************************************************)
EXTENDS Startup, SequenceTheorems, TLAPS

BoardInv == BoardTypeOK /\ BoardClosed

\* A map that took an entry, or refused it.
LEMMA BindIfLemma ==
  ASSUME NEW done \in BOOLEAN, NEW f, NEW x, NEW v, f = [y \in DOMAIN f |-> f[y]]
  PROVE  LET g == BindIf(done, f, x, v) IN
         /\ DOMAIN g = IF done THEN DOMAIN f \cup {x} ELSE DOMAIN f
         /\ g = [y \in DOMAIN g |-> g[y]]
         /\ done => g[x] = v
         /\ \A y \in DOMAIN f : (done => y # x) => g[y] = f[y]
  BY DEF BindIf, Bind

\* The invariant holds before the first call.
LEMMA BoardInitInv == BoardInit => BoardInv
  BY DEF BoardInit, BoardInv, BoardTypeOK, BoardClosed, EmptyMap, Kind

\* A pin: the groups' pins are registered as before.
LEMMA RegisterPinKeepsInv ==
  ASSUME BoardInv, NEW name \in PinName, NEW callback \in BOOLEAN,
         RegisterPin(name, callback)
  PROVE  BoardInv'
  <1>1. BoardTypeOK'
    BY DEF RegisterPin, Returns, BindIf, Bind, BoardInv, BoardTypeOK
  <1>2. DOMAIN pins \subseteq DOMAIN pins'
    BY DEF RegisterPin, BindIf, Bind
  <1>3. BoardClosed'
    BY <1>2 DEF RegisterPin, BoardInv, BoardClosed
  <1> QED BY <1>1, <1>3 DEF BoardInv

\* A new group of pins that are registered, or none: for RegisterPinGroup and
\* for the first half of RegisterSimpleSource.
LEMMA NewGroupKeepsClosed ==
  ASSUME BoardClosed, NEW name, NEW members,
         groups' = BindIf(GroupAccepted(name, members), groups, name, members),
         UNCHANGED pins
  PROVE  /\ groups' \in [DOMAIN groups' -> SUBSET DOMAIN pins']
         /\ DOMAIN groups \subseteq DOMAIN groups'
         /\ GroupAccepted(name, members) => name \in DOMAIN groups'
  BY DEF BoardClosed, BindIf, Bind, GroupAccepted

\* A group.
LEMMA RegisterPinGroupKeepsInv ==
  ASSUME BoardInv, NEW name \in SourceName, NEW members,
         RegisterPinGroup(name, members)
  PROVE  BoardInv'
  <1>1. BoardTypeOK'
    BY DEF RegisterPinGroup, Returns, BindIf, Bind, BoardInv, BoardTypeOK
  <1>2. BoardClosed'
    BY NewGroupKeepsClosed DEF RegisterPinGroup, BoardInv, BoardClosed
  <1> QED BY <1>1, <1>2 DEF BoardInv

\* A source.
LEMMA RegisterSourceKeepsInv ==
  ASSUME BoardInv, NEW name \in SourceName, NEW members,
         RegisterSource(name, members)
  PROVE  BoardInv'
  <1>1. BoardTypeOK'
    BY DEF RegisterSource, Returns, BindIf, Bind, BoardInv, BoardTypeOK
  <1>2. BoardClosed'
    BY DEF RegisterSource, BindIf, Bind, BoardInv, BoardClosed
  <1> QED BY <1>1, <1>2 DEF BoardInv

\* Both at once: the source's one group is registered before it is.
LEMMA RegisterSimpleSourceKeepsInv ==
  ASSUME BoardInv, NEW name \in SourceName, NEW members,
         RegisterSimpleSource(name, members)
  PROVE  BoardInv'
  <1>1. BoardTypeOK'
    BY DEF RegisterSimpleSource, Returns, BindIf, Bind, BoardInv, BoardTypeOK
  <1>2. /\ groups' \in [DOMAIN groups' -> SUBSET DOMAIN pins']
        /\ DOMAIN groups \subseteq DOMAIN groups'
        /\ GroupAccepted(name, members) => name \in DOMAIN groups'
    BY NewGroupKeepsClosed DEF RegisterSimpleSource, BoardInv
  <1>3. sources' \in [DOMAIN sources' -> SUBSET DOMAIN groups']
    BY <1>2 DEF RegisterSimpleSource, BindIf, Bind, BoardInv, BoardClosed
  <1> QED BY <1>1, <1>2, <1>3 DEF BoardInv, BoardClosed

\* A device of any kind.
LEMMA RegisterDeviceKeepsInv ==
  ASSUME BoardInv, NEW kind \in Kind, NEW name \in DeviceName, NEW node \in Node,
         RegisterDevice(kind, name, node)
  PROVE  BoardInv'
  <1> DEFINE Entry == [node : Node, mux : SourceName \cup PinName \cup {NoMux}]
             old == devices[kind]
             new == devices'[kind]
  <1>1. /\ DOMAIN devices' = Kind
        /\ \A k \in Kind \ {kind} : devices'[k] = devices[k]
        /\ new = BindIf(name \notin DOMAIN old, old, name,
                        [node |-> node, mux |-> NoMux])
    BY DEF RegisterDevice, BoardInv, BoardTypeOK
  <1>2. [node |-> node, mux |-> NoMux] \in Entry
    OBVIOUS
  <1>3. DOMAIN new \subseteq DeviceName /\ new \in [DOMAIN new -> Entry]
    BY <1>1, <1>2 DEF BindIf, Bind, BoardInv, BoardTypeOK
  <1> QED
    BY <1>1, <1>3
       DEF RegisterDevice, Returns, BoardInv, BoardTypeOK, BoardClosed

\* Its mux.
LEMMA SetDeviceMuxKeepsInv ==
  ASSUME BoardInv, NEW kind \in Kind, NEW name \in DeviceName,
         NEW mux \in SourceName \cup PinName, SetDeviceMux(kind, name, mux)
  PROVE  BoardInv'
  <1> DEFINE Entry == [node : Node, mux : SourceName \cup PinName \cup {NoMux}]
             old == devices[kind]
             new == devices'[kind]
  <1>1. CASE name \notin DOMAIN old
    BY <1>1 DEF SetDeviceMux, Returns, BoardInv, BoardTypeOK, BoardClosed
  <1>2. CASE name \in DOMAIN old
    <2>1. /\ DOMAIN devices' = Kind
          /\ \A k \in Kind \ {kind} : devices'[k] = devices[k]
          /\ new = [old EXCEPT ![name].mux = mux]
      BY <1>2 DEF SetDeviceMux, BoardInv, BoardTypeOK
    <2>2. old \in [DOMAIN old -> Entry] /\ DOMAIN old \subseteq DeviceName
      BY DEF BoardInv, BoardTypeOK
    <2>3. [old[name] EXCEPT !.mux = mux] \in Entry
      BY <1>2, <2>2
    <2>4. DOMAIN new = DOMAIN old /\ new \in [DOMAIN new -> Entry]
      BY <2>1, <2>2, <2>3
    <2> QED
      BY <2>1, <2>2, <2>4
         DEF SetDeviceMux, Returns, BoardInv, BoardTypeOK, BoardClosed
  <1> QED BY <1>1, <1>2

\* The calls about devices, which are the same of each kind.
DeviceCall ==
  \E kind \in Kind, name \in DeviceName :
    \/ \E node \in Node : RegisterDevice(kind, name, node)
    \/ \E mux \in SourceName \cup PinName : SetDeviceMux(kind, name, mux)

\* A step is one of the calls about pins, or one about devices.
LEMMA BoardNextCases ==
  ASSUME BoardNext
  PROVE  \/ \E name \in PinName, callback \in BOOLEAN : RegisterPin(name, callback)
         \/ \E name \in SourceName : \E members :
              \/ RegisterPinGroup(name, members)
              \/ RegisterSimpleSource(name, members)
              \/ RegisterSource(name, members)
         \/ DeviceCall
  <1>1. CASE \E name \in DeviceName, node \in Node :
               \/ RegisterGpioSysfs(name, node) \/ RegisterSpiDevBus(name, node)
               \/ RegisterUartDevice(name, node) \/ RegisterI2cDevBus(name, node)
    BY <1>1 DEF RegisterGpioSysfs, RegisterSpiDevBus, RegisterUartDevice,
                RegisterI2cDevBus, DeviceCall, Kind
  <1>2. CASE \E name \in DeviceName, mux \in SourceName \cup PinName :
               \/ SetGpioPinMux(name, mux) \/ SetSpiPinMux(name, mux)
               \/ SetUartPinMux(name, mux) \/ SetI2cPinMux(name, mux)
    BY <1>2 DEF SetGpioPinMux, SetSpiPinMux, SetUartPinMux, SetI2cPinMux,
                DeviceCall, Kind
  <1> QED BY <1>1, <1>2 DEF BoardNext

\* The invariant is inductive.
LEMMA BoardNextKeepsInv ==
  ASSUME BoardInv, [BoardNext]_boardVars
  PROVE  BoardInv'
  <1>1. CASE UNCHANGED boardVars
    BY <1>1 DEF boardVars, registries, BoardInv, BoardTypeOK, BoardClosed
  <1>2. CASE BoardNext
    BY <1>2, BoardNextCases, RegisterPinKeepsInv, RegisterPinGroupKeepsInv,
       RegisterSimpleSourceKeepsInv, RegisterSourceKeepsInv,
       RegisterDeviceKeepsInv, SetDeviceMuxKeepsInv
       DEF DeviceCall
  <1> QED BY <1>1, <1>2

\* Both conjuncts hold throughout, of every board.
THEOREM BoardInvariant == BoardSpec => []BoardInv
  <1>1. BoardInit => BoardInv
    BY BoardInitInv
  <1>2. BoardInv /\ [BoardNext]_boardVars => BoardInv'
    BY BoardNextKeepsInv
  <1> QED BY <1>1, <1>2, PTL DEF BoardSpec

\* The registries keep their types.
THEOREM BoardTypeCorrect == BoardSpec => []BoardTypeOK
  <1>1. BoardInv => BoardTypeOK
    BY DEF BoardInv
  <1> QED BY <1>1, BoardInvariant, PTL

\* A group's pins and a source's groups are registered, whatever a board does:
\* PinMuxAssumption is discharged for every board that can be registered.
THEOREM BoardStaysClosed == BoardSpec => []BoardClosed
  <1>1. BoardInv => BoardClosed
    BY DEF BoardInv
  <1> QED BY <1>1, BoardInvariant, PTL
-----------------------------------------------------------------------------
\* What RegistrationsStay says of one step, of the pins' registries ...
PinRegistriesGrow ==
  /\ \A p \in DOMAIN pins : p \in DOMAIN pins' /\ pins'[p] = pins[p]
  /\ \A g \in DOMAIN groups : g \in DOMAIN groups' /\ groups'[g] = groups[g]
  /\ \A s \in DOMAIN sources : s \in DOMAIN sources' /\ sources'[s] = sources[s]

\* ... and of the devices'.
DeviceRegistriesGrow ==
  \A kind \in Kind : \A d \in DOMAIN devices[kind] :
    /\ d \in DOMAIN devices'[kind]
    /\ devices'[kind][d].node = devices[kind][d].node

\* A registered device has a node and a mux.
DevicesAreRecords ==
  /\ DOMAIN devices = Kind
  /\ \A kind \in Kind : \A d \in DOMAIN devices[kind] :
       devices[kind][d] = [node |-> devices[kind][d].node, mux |-> devices[kind][d].mux]

\* A device's registration leaves the others ...
LEMMA RegisterDeviceGrows ==
  ASSUME DevicesAreRecords, NEW kind \in Kind, NEW name, NEW node,
         RegisterDevice(kind, name, node)
  PROVE  DeviceRegistriesGrow /\ DevicesAreRecords'
  <1> DEFINE old == devices[kind]
  <1>1. CASE name \in DOMAIN old
    BY <1>1 DEF RegisterDevice, BindIf, DeviceRegistriesGrow, DevicesAreRecords
  <1>2. CASE name \notin DOMAIN old
    <2>1. /\ DOMAIN devices' = Kind
          /\ \A k \in Kind \ {kind} : devices'[k] = devices[k]
          /\ devices'[kind] = Bind(old, name, [node |-> node, mux |-> NoMux])
      BY <1>2 DEF RegisterDevice, BindIf, DevicesAreRecords
    <2>2. /\ DOMAIN devices'[kind] = DOMAIN old \cup {name}
          /\ \A d \in DOMAIN old : devices'[kind][d] = old[d]
          /\ devices'[kind][name] = [node |-> node, mux |-> NoMux]
      BY <1>2, <2>1 DEF Bind
    <2> QED BY <2>1, <2>2 DEF DeviceRegistriesGrow, DevicesAreRecords
  <1> QED BY <1>1, <1>2

\* ... and a mux leaves the node.
LEMMA SetDeviceMuxGrows ==
  ASSUME DevicesAreRecords, NEW kind \in Kind, NEW name, NEW mux,
         SetDeviceMux(kind, name, mux)
  PROVE  DeviceRegistriesGrow /\ DevicesAreRecords'
  <1> DEFINE old == devices[kind]
  <1>1. CASE name \notin DOMAIN old
    BY <1>1 DEF SetDeviceMux, DeviceRegistriesGrow, DevicesAreRecords
  <1>2. CASE name \in DOMAIN old
    <2>1. /\ DOMAIN devices' = Kind
          /\ \A k \in Kind \ {kind} : devices'[k] = devices[k]
          /\ devices'[kind] = [old EXCEPT ![name].mux = mux]
      BY <1>2 DEF SetDeviceMux, DevicesAreRecords
    <2>2. old[name] = [node |-> old[name].node, mux |-> old[name].mux]
      BY <1>2 DEF DevicesAreRecords
    <2>3. /\ DOMAIN devices'[kind] = DOMAIN old
          /\ \A d \in DOMAIN old \ {name} : devices'[kind][d] = old[d]
          /\ devices'[kind][name] = [node |-> old[name].node, mux |-> mux]
      BY <1>2, <2>1, <2>2
    <2> QED BY <2>1, <2>3 DEF DeviceRegistriesGrow, DevicesAreRecords
  <1> QED BY <1>1, <1>2

\* So does any call about a device.
LEMMA DeviceCallGrows ==
  ASSUME BoardInv, DeviceCall
  PROVE  DeviceRegistriesGrow
  <1>1. DevicesAreRecords
    <2>1. DOMAIN devices = Kind
      BY DEF BoardInv, BoardTypeOK
    <2>2. ASSUME NEW kind \in Kind, NEW d \in DOMAIN devices[kind]
          PROVE  devices[kind][d] = [node |-> devices[kind][d].node,
                                     mux |-> devices[kind][d].mux]
      <3>1. devices[kind][d] \in [node : Node, mux : SourceName \cup PinName \cup {NoMux}]
        BY <2>2 DEF BoardInv, BoardTypeOK
      <3> QED BY <3>1
    <2> QED BY <2>1, <2>2 DEF DevicesAreRecords
  <1> QED BY <1>1, RegisterDeviceGrows, SetDeviceMuxGrows DEF DeviceCall

\* Every call adds to the registries.
LEMMA BoardNextGrows ==
  ASSUME BoardInv, BoardNext
  PROVE  PinRegistriesGrow /\ DeviceRegistriesGrow
  <1>1. CASE \E name \in PinName, callback \in BOOLEAN : RegisterPin(name, callback)
    BY <1>1 DEF RegisterPin, BindIf, Bind, PinRegistriesGrow, DeviceRegistriesGrow
  <1>2. CASE \E name \in SourceName : \E members : RegisterPinGroup(name, members)
    BY <1>2 DEF RegisterPinGroup, GroupAccepted, BindIf, Bind, PinRegistriesGrow,
                DeviceRegistriesGrow
  <1>3. CASE \E name \in SourceName : \E members : RegisterSimpleSource(name, members)
    BY <1>3 DEF RegisterSimpleSource, GroupAccepted, BindIf, Bind,
                PinRegistriesGrow, DeviceRegistriesGrow
  <1>4. CASE \E name \in SourceName : \E members : RegisterSource(name, members)
    BY <1>4 DEF RegisterSource, BindIf, Bind, PinRegistriesGrow,
                DeviceRegistriesGrow
  <1>5. CASE DeviceCall
    <2>1. PinRegistriesGrow
      BY <1>5 DEF DeviceCall, RegisterDevice, SetDeviceMux, PinRegistriesGrow
    <2> QED BY <1>5, <2>1, DeviceCallGrows
  <1> QED BY <1>1, <1>2, <1>3, <1>4, <1>5, BoardNextCases

\* What was registered first stays, of every board: no call replaces or removes it.
THEOREM BoardOnlyGrows == BoardSpec => RegistrationsStay
  <1>1. BoardInv /\ [BoardNext]_boardVars
          => [PinRegistriesGrow /\ DeviceRegistriesGrow]_boardVars
    BY BoardNextGrows
  <1> QED
    BY <1>1, BoardInvariant, PTL
       DEF BoardSpec, RegistrationsStay, PinRegistriesGrow, DeviceRegistriesGrow
-----------------------------------------------------------------------------
\* What RefusedLeavesGroupAtMost says of one step.
RefusalStep ==
  answer' = 0 =>
    /\ UNCHANGED <<pins, sources, devices>>
    /\ \A g \in DOMAIN groups' \ DOMAIN groups : g \in DOMAIN sources

\* Each call, when it answers 0.
LEMMA BoardNextRefusals ==
  ASSUME BoardInv, BoardNext
  PROVE  RefusalStep
  <1>1. CASE \E name \in PinName, callback \in BOOLEAN : RegisterPin(name, callback)
    BY <1>1 DEF RegisterPin, Returns, BindIf, RefusalStep
  <1>2. CASE \E name \in SourceName : \E members : RegisterPinGroup(name, members)
    BY <1>2 DEF RegisterPinGroup, Returns, BindIf, RefusalStep
  <1>3. CASE \E name \in SourceName : \E members : RegisterSimpleSource(name, members)
    BY <1>3 DEF RegisterSimpleSource, GroupAccepted, Returns, BindIf, Bind,
                RefusalStep
  <1>4. CASE \E name \in SourceName : \E members : RegisterSource(name, members)
    BY <1>4 DEF RegisterSource, Returns, BindIf, RefusalStep
  <1>5. CASE DeviceCall
    <2>1. PICK kind \in Kind, name \in DeviceName :
            \/ \E node \in Node : RegisterDevice(kind, name, node)
            \/ \E mux \in SourceName \cup PinName : SetDeviceMux(kind, name, mux)
      BY <1>5 DEF DeviceCall
    <2>2. CASE \E node \in Node : RegisterDevice(kind, name, node)
      <3>1. SUFFICES ASSUME answer' = 0 PROVE RefusalStep
        BY DEF RefusalStep
      <3>2. name \in DOMAIN devices[kind]
        BY <2>2, <3>1 DEF RegisterDevice, Returns
      <3>3. devices' = [devices EXCEPT ![kind] = devices[kind]]
        BY <2>2, <3>2 DEF RegisterDevice, BindIf
      <3>4. UNCHANGED devices
        BY <3>3 DEF BoardInv, BoardTypeOK
      <3> QED
        BY <2>2, <3>4 DEF RegisterDevice, RefusalStep
    <2>3. CASE \E mux \in SourceName \cup PinName : SetDeviceMux(kind, name, mux)
      BY <2>3 DEF SetDeviceMux, Returns, RefusalStep
    <2> QED BY <2>1, <2>2, <2>3
  <1> QED BY <1>1, <1>2, <1>3, <1>4, <1>5, BoardNextCases

\* A refused registration leaves at most a group whose name a source has, of
\* every board.
THEOREM BoardRefusalsLeaveLittle == BoardSpec => RefusedLeavesGroupAtMost
  <1>1. BoardInv /\ [BoardNext]_boardVars => [RefusalStep]_boardVars
    BY BoardNextRefusals
  <1> QED
    BY <1>1, BoardInvariant, PTL
       DEF BoardSpec, RefusedLeavesGroupAtMost, RefusalStep
-----------------------------------------------------------------------------
(***************************************************************************)
(* The start-up of this board: what each call leaves, given those before.  *)
(***************************************************************************)
\* The pins that are registered before step k, and what comes of them ...
PinsBefore(k) == {Gpio(HeaderPins[i]) : i \in {j \in 1 .. 10 : j + 25 < k}}

\* ... the GPIOs ...
GpiosBefore(k) ==
  {Gpio(n) : n \in {m \in (GpioStart .. GpioEnd) \ SkippedGpios : m - 3 < k}}

\* ... the buses ...
I2cBefore(k) == {name \in {"I2C1", "I2C4"} : k > IF name = "I2C1" THEN 23 ELSE 24}
SpiBefore(k) == {name \in {"SPI00"} : k > 25}

I2cEntry(name, k) == [node |-> IF name = "I2C1" THEN 1 ELSE 4,
                      mux |-> IF name = "I2C1" /\ k > 41 THEN "I2C1" ELSE NoMux]
SpiEntry(k) == [node |-> <<0, 0>>, mux |-> IF k > 42 THEN "SPI00" ELSE NoMux]

\* ... the sources, each with a group of its name ...
SourcesBefore(k) ==
  {name \in {"UART1", "I2C1", "SPI00"} :
     k > CASE name = "UART1" -> 37 [] name = "I2C1" -> 38 [] name = "SPI00" -> 40}

PinsOfSource ==
  [UART1 |-> {Gpio(14), Gpio(15)}, I2C1 |-> {Gpio(2), Gpio(3)},
   SPI00 |-> {Gpio(n) : n \in 7..11}]

\* ... and the calls that are refused.
RefusedBefore(k) == {HalCalls[i] : i \in {j \in {36, 39} : j < k}}

PinPart == /\ DOMAIN pins = PinsBefore(at)
           /\ \A name \in DOMAIN pins : pins[name] = FALSE

GpioPart ==
  /\ DOMAIN devices["gpio"] = GpiosBefore(at)
  /\ \A name \in GpiosBefore(at) : devices["gpio"][name].mux = NoMux

BusPart ==
  /\ DOMAIN devices["i2c"] = I2cBefore(at)
  /\ \A name \in I2cBefore(at) : devices["i2c"][name] = I2cEntry(name, at)
  /\ DOMAIN devices["spi"] = SpiBefore(at)
  /\ \A name \in SpiBefore(at) : devices["spi"][name] = SpiEntry(at)

SourcePart ==
  /\ DOMAIN groups = SourcesBefore(at)
  /\ \A name \in SourcesBefore(at) : groups[name] = PinsOfSource[name]
  /\ DOMAIN sources = SourcesBefore(at)
  /\ \A name \in SourcesBefore(at) : sources[name] = {name}

UartPart ==
  /\ \A name \in DOMAIN devices["uart"] : devices["uart"][name].mux \in Adapter
  /\ at # Serving => DOMAIN devices["uart"] = {}

HalInv ==
  /\ at \in Down .. Serving
  /\ plugged \subseteq Adapter
  /\ DOMAIN devices = Kind
  /\ at # Down => /\ PinPart /\ GpioPart /\ BusPart /\ SourcePart /\ UartPart
                  /\ refused = RefusedBefore(at)
-----------------------------------------------------------------------------
\* u is the n entries of t after the m entries of s.
IsSeq(s, n) == s = [i \in 1 .. n |-> s[i]]

Joins(u, s, m, t, n) ==
  /\ IsSeq(u, m + n)
  /\ Len(u) = m + n
  /\ \A i \in 1 .. m : u[i] = s[i]
  /\ \A i \in 1 .. n : u[m + i] = t[i]

\* A sequence of calls after another.
LEMMA CallsAfterCalls ==
  ASSUME NEW s, NEW m \in Nat, NEW t, NEW n \in Nat, IsSeq(s, m), IsSeq(t, n)
  PROVE  Joins(s \o t, s, m, t, n)
  <1> DEFINE S == {s[i] : i \in 1 .. m} \cup {t[i] : i \in 1 .. n}
  <1>1. s \in Seq(S) /\ Len(s) = m
    BY DEF IsSeq
  <1>2. t \in Seq(S) /\ Len(t) = n
    BY DEF IsSeq
  <1> HIDE DEF S
  <1>3. /\ s \o t \in Seq(S)
        /\ Len(s \o t) = m + n
        /\ \A i \in 1 .. m + n : (s \o t)[i] = IF i <= m THEN s[i] ELSE t[i - m]
    BY <1>1, <1>2, ConcatProperties
  <1>4. IsSeq(s \o t, m + n)
    BY <1>3 DEF IsSeq
  <1> QED BY <1>3, <1>4 DEF Joins

\* The calls of register_devices by their number.
LEMMA HalCallAt ==
  /\ Len(HalCalls) = 42
  /\ \A i \in 1 .. 22 : HalCalls[i] = SysfsCalls[i]
  /\ \A i \in 23 .. 25 : HalCalls[i] = BusCalls[i - 22]
  /\ \A i \in 26 .. 35 : HalCalls[i] = PinCalls[i - 25]
  /\ HalCalls[36] = Call("set_gpio_pin_mux", Gpio(1), Gpio(1))
  /\ \A i \in 37 .. 40 : HalCalls[i] = SourceCalls[i - 36]
  /\ \A i \in 41 .. 42 : HalCalls[i] = MuxCalls[i - 40]
  <1> DEFINE gpioMux == <<Call("set_gpio_pin_mux", Gpio(1), Gpio(1))>>
             upTo25 == SysfsCalls \o BusCalls
             upTo35 == upTo25 \o PinCalls
             upTo36 == upTo35 \o gpioMux
             upTo40 == upTo36 \o SourceCalls
  <1>1. /\ IsSeq(SysfsCalls, 22)
        /\ IsSeq(BusCalls, 3)
        /\ IsSeq(PinCalls, 10)
        /\ IsSeq(gpioMux, 1)
        /\ IsSeq(SourceCalls, 4)
        /\ IsSeq(MuxCalls, 2)
    BY DEF IsSeq, SysfsCalls, BusCalls, PinCalls, SourceCalls, MuxCalls, GpioEnd,
           GpioStart
  <1>2. HalCalls = upTo40 \o MuxCalls
    BY DEF HalCalls
  <1>3. gpioMux[1] = Call("set_gpio_pin_mux", Gpio(1), Gpio(1))
    OBVIOUS
  <1> HIDE DEF gpioMux, upTo25, upTo35, upTo36, upTo40
  <1>4. Joins(upTo25, SysfsCalls, 22, BusCalls, 3)
    BY <1>1, CallsAfterCalls DEF upTo25
  <1>5. Joins(upTo35, upTo25, 25, PinCalls, 10)
    <2>1. IsSeq(upTo25, 25)
      BY <1>4 DEF Joins
    <2> QED BY <1>1, <2>1, CallsAfterCalls DEF upTo35
  <1>6. Joins(upTo36, upTo35, 35, gpioMux, 1)
    <2>1. IsSeq(upTo35, 35)
      BY <1>5 DEF Joins
    <2> QED BY <1>1, <2>1, CallsAfterCalls DEF upTo36
  <1>7. Joins(upTo40, upTo36, 36, SourceCalls, 4)
    <2>1. IsSeq(upTo36, 36)
      BY <1>6 DEF Joins
    <2> QED BY <1>1, <2>1, CallsAfterCalls DEF upTo40
  <1>8. Joins(HalCalls, upTo40, 40, MuxCalls, 2)
    <2>1. IsSeq(upTo40, 40)
      BY <1>7 DEF Joins
    <2> QED BY <1>1, <1>2, <2>1, CallsAfterCalls
  <1>9. /\ \A i \in 1 .. 22 : HalCalls[i] = SysfsCalls[i]
        /\ \A i \in 1 .. 25 : HalCalls[i] = upTo25[i]
        /\ \A i \in 1 .. 35 : HalCalls[i] = upTo35[i]
        /\ \A i \in 1 .. 36 : HalCalls[i] = upTo36[i]
        /\ \A i \in 1 .. 40 : HalCalls[i] = upTo40[i]
    BY <1>4, <1>5, <1>6, <1>7, <1>8 DEF Joins
  <1>10. ASSUME NEW i \in 23 .. 25 PROVE HalCalls[i] = BusCalls[i - 22]
    <2>1. i - 22 \in 1 .. 3 /\ 22 + (i - 22) = i
      OBVIOUS
    <2>2. upTo25[22 + (i - 22)] = BusCalls[i - 22]
      BY <1>4, <2>1 DEF Joins
    <2> QED BY <1>9, <2>1, <2>2
  <1>11. ASSUME NEW i \in 26 .. 35 PROVE HalCalls[i] = PinCalls[i - 25]
    <2>1. i - 25 \in 1 .. 10 /\ 25 + (i - 25) = i
      OBVIOUS
    <2>2. upTo35[25 + (i - 25)] = PinCalls[i - 25]
      BY <1>5, <2>1 DEF Joins
    <2> QED BY <1>9, <2>1, <2>2
  <1>12. HalCalls[36] = gpioMux[1]
    <2>1. upTo36[35 + 1] = gpioMux[1]
      BY <1>6 DEF Joins
    <2> QED BY <1>9, <2>1
  <1>13. ASSUME NEW i \in 37 .. 40 PROVE HalCalls[i] = SourceCalls[i - 36]
    <2>1. i - 36 \in 1 .. 4 /\ 36 + (i - 36) = i
      OBVIOUS
    <2>2. upTo40[36 + (i - 36)] = SourceCalls[i - 36]
      BY <1>7, <2>1 DEF Joins
    <2> QED BY <1>9, <2>1, <2>2
  <1>14. ASSUME NEW i \in 41 .. 42 PROVE HalCalls[i] = MuxCalls[i - 40]
    <2>1. i - 40 \in 1 .. 2 /\ 40 + (i - 40) = i
      OBVIOUS
    <2>2. HalCalls[40 + (i - 40)] = MuxCalls[i - 40]
      BY <1>8, <2>1 DEF Joins
    <2> QED BY <2>1, <2>2
  <1>15. Len(HalCalls) = 42
    BY <1>8 DEF Joins
  <1> QED BY <1>3, <1>9, <1>10, <1>11, <1>12, <1>13, <1>14, <1>15

\* The header pins have different names.
LEMMA GpioInjective ==
  ASSUME NEW m \in 1 .. 25, NEW n \in 1 .. 25, Gpio(m) = Gpio(n)
  PROVE  m = n
  BY SMTT(60) DEF Gpio, GpioNames

\* And they have names.
LEMMA GpioNamed ==
  ASSUME NEW n \in 1 .. 25
  PROVE  Gpio(n) # NoMux
  <1>1. GpioNames[n] \in
          {"gpio1", "gpio2", "gpio3", "gpio4", "gpio5", "gpio6", "gpio7", "gpio8",
           "gpio9", "gpio10", "gpio11", "gpio12", "gpio13", "gpio14", "gpio15",
           "gpio16", "gpio17", "gpio18", "gpio19", "gpio20", "gpio21", "gpio22",
           "gpio23", "gpio24", "gpio25"}
    BY DEF GpioNames
  <1> QED BY <1>1 DEF Gpio, NoMux

\* The start.
LEMMA HalInitInv == HalInit => HalInv
  <1>1. SUFFICES ASSUME HalInit PROVE HalInv
    OBVIOUS
  <1>2. at = 0 /\ Serving = 43 /\ Down = -1
    BY <1>1, HalCallAt DEF HalInit, Drivers, Serving, Down
  <1>3. PinsBefore(0) = {} /\ GpiosBefore(0) = {} /\ I2cBefore(0) = {}
        /\ SpiBefore(0) = {} /\ SourcesBefore(0) = {} /\ RefusedBefore(0) = {}
    BY DEF PinsBefore, GpiosBefore, I2cBefore, SpiBefore, SourcesBefore,
           RefusedBefore, GpioStart, GpioEnd
  <1> QED
    BY <1>1, <1>2, <1>3
       DEF HalInit, BoardInit, EmptyMap, Kind, HalInv, PinPart, GpioPart, BusPart,
           SourcePart, UartPart

\* The pins are registered by calls 26 to 35: any other call leaves their part.
LEMMA PinPartStays ==
  ASSUME PinPart, at \in Int, at' = at + 1, at \notin 26 .. 35, UNCHANGED pins
  PROVE  PinPart'
  <1>1. PinsBefore(at + 1) = PinsBefore(at)
    BY DEF PinsBefore
  <1> QED BY <1>1 DEF PinPart

\* The GPIOs by the first 22.
LEMMA GpioPartStays ==
  ASSUME GpioPart, at \in Int, at' = at + 1, at \notin 1 .. 22,
         UNCHANGED devices["gpio"]
  PROVE  GpioPart'
  <1>1. GpiosBefore(at + 1) = GpiosBefore(at)
    BY DEF GpiosBefore, GpioStart, GpioEnd
  <1> QED BY <1>1 DEF GpioPart

\* The buses by calls 23 to 25, and two of their muxes by the last two.
LEMMA BusPartStays ==
  ASSUME BusPart, at \in Int, at' = at + 1, at \notin {23, 24, 25, 41, 42},
         UNCHANGED <<devices["i2c"], devices["spi"]>>
  PROVE  BusPart'
  <1>1. /\ I2cBefore(at + 1) = I2cBefore(at)
        /\ \A name \in I2cBefore(at) : I2cEntry(name, at + 1) = I2cEntry(name, at)
        /\ SpiBefore(at + 1) = SpiBefore(at)
        /\ SpiEntry(at + 1) = SpiEntry(at)
    BY DEF I2cBefore, I2cEntry, SpiBefore, SpiEntry
  <1> QED BY <1>1 DEF BusPart

\* The sources by calls 37, 38 and 40.
LEMMA SourcePartStays ==
  ASSUME SourcePart, at \in Int, at' = at + 1, at \notin {37, 38, 40},
         UNCHANGED <<groups, sources>>
  PROVE  SourcePart'
  <1>1. SourcesBefore(at + 1) = SourcesBefore(at)
    BY DEF SourcesBefore
  <1> QED BY <1>1 DEF SourcePart

\* And only calls 36 and 39 are refused.
LEMMA RefusedStay ==
  ASSUME NEW k \in Int, k \notin {36, 39}
  PROVE  RefusedBefore(k + 1) = RefusedBefore(k)
  BY DEF RefusedBefore

\* The GPIOs: their names differ, so that each is registered.
LEMMA SysfsKeepsInv ==
  ASSUME HalInv, RegisterDevices, at \in 1 .. 22
  PROVE  HalInv'
  <1>1. /\ Serving = 43 /\ Down = -1
        /\ HalCalls[at] = SysfsCalls[at]
        /\ at' = at + 1
        /\ UNCHANGED plugged
    BY HalCallAt DEF RegisterDevices, Serving, Down
  <1>2. /\ PinPart /\ GpioPart /\ BusPart /\ SourcePart /\ UartPart
        /\ refused = RefusedBefore(at)
        /\ DOMAIN devices = Kind /\ plugged \subseteq Adapter
    BY <1>1 DEF HalInv
  <1> DEFINE number == at + 3
  <1>3. HalCalls[at] = IF number \in SkippedGpios THEN Call("none", Gpio(number), 0)
                       ELSE Call("register_gpio_sysfs", Gpio(number),
                                 GpioBase + number)
    BY <1>1 DEF SysfsCalls, GpioStart, GpioEnd
  <1>4. number \in GpioStart .. GpioEnd
    BY DEF GpioStart, GpioEnd
  <1>5. CASE number \in SkippedGpios
    <2>1. UNCHANGED boardVars /\ UNCHANGED refused
      BY <1>3, <1>5 DEF RegisterDevices, Call, Perform
    <2>2. GpiosBefore(at + 1) = GpiosBefore(at)
      BY <1>5 DEF GpiosBefore, GpioStart, GpioEnd
    <2>3. GpioPart'
      BY <1>1, <1>2, <2>1, <2>2 DEF GpioPart, boardVars, registries
    <2>4. PinPart' /\ BusPart' /\ SourcePart' /\ UartPart' /\ (refused = RefusedBefore(at))'
      BY <1>1, <1>2, <2>1, PinPartStays, BusPartStays, SourcePartStays, RefusedStay
         DEF boardVars, registries, UartPart
    <2> QED BY <1>1, <1>2, <2>1, <2>3, <2>4 DEF HalInv, boardVars, registries
  <1>6. CASE number \notin SkippedGpios
    <2>1. /\ RegisterDevice("gpio", Gpio(number), GpioBase + number)
          /\ refused' = IF answer' = 0 THEN refused \cup {HalCalls[at]} ELSE refused
      BY <1>3, <1>6 DEF RegisterDevices, Call, Perform, RegisterGpioSysfs
    <2>2. Gpio(number) \notin DOMAIN devices["gpio"]
      BY <1>2, <1>4, GpioInjective DEF GpioPart, GpiosBefore, GpioStart, GpioEnd
    <2>3. /\ devices' = [devices EXCEPT !["gpio"] =
                           Bind(@, Gpio(number), [node |-> GpioBase + number,
                                                  mux |-> NoMux])]
          /\ UNCHANGED <<pins, groups, sources, refused>>
      BY <2>1, <2>2 DEF RegisterDevice, BindIf, Returns
    <2>4. GpiosBefore(at + 1) = GpiosBefore(at) \cup {Gpio(number)}
      BY <1>4, <1>6 DEF GpiosBefore, GpioStart, GpioEnd
    <2>5. GpioPart'
      BY <1>1, <1>2, <2>3, <2>4 DEF GpioPart, Bind, Kind
    <2>6. PinPart' /\ BusPart' /\ SourcePart' /\ UartPart' /\ (refused = RefusedBefore(at))'
      BY <1>1, <1>2, <2>3, PinPartStays, BusPartStays, SourcePartStays, RefusedStay
         DEF UartPart
    <2> QED BY <1>1, <1>2, <2>3, <2>5, <2>6 DEF HalInv
  <1> QED BY <1>5, <1>6

\* What every call of register_devices starts from.
LEMMA HalCallFacts ==
  ASSUME HalInv, RegisterDevices
  PROVE  /\ Serving = 43 /\ Down = -1
         /\ at \in 1 .. 42 /\ at' = at + 1
         /\ UNCHANGED plugged
         /\ PinPart /\ GpioPart /\ BusPart /\ SourcePart /\ UartPart
         /\ refused = RefusedBefore(at)
         /\ DOMAIN devices = Kind /\ plugged \subseteq Adapter
  <1>1. Serving = 43 /\ Down = -1
    BY HalCallAt DEF Serving, Down
  <1>2. at \in 1 .. 42
    BY HalCallAt DEF RegisterDevices
  <1> QED BY <1>1, <1>2 DEF HalInv, RegisterDevices

\* The buses.
LEMMA BusesKeepInv ==
  ASSUME HalInv, RegisterDevices, at \in 23 .. 25
  PROVE  HalInv'
  <1>1. HalCalls[at] = BusCalls[at - 22]
    BY HalCallAt
  <1>2. ASSUME DOMAIN devices' = Kind,
               devices'["gpio"] = devices["gpio"],
               devices'["uart"] = devices["uart"],
               UNCHANGED <<pins, groups, sources, refused>>,
               BusPart'
        PROVE  HalInv'
    BY <1>2, HalCallFacts, PinPartStays, GpioPartStays, SourcePartStays, RefusedStay
       DEF HalInv, UartPart
  <1>3. CASE at = 23
    <2>1. HalCalls[at] = Call("register_i2c_dev_bus", "I2C1", 1)
      BY <1>1, <1>3 DEF BusCalls
    <2>2. /\ RegisterDevice("i2c", "I2C1", 1)
          /\ refused' = IF answer' = 0 THEN refused \cup {HalCalls[at]} ELSE refused
      BY <2>1 DEF RegisterDevices, Call, Perform, RegisterI2cDevBus
    <2>3. "I2C1" \notin DOMAIN devices["i2c"]
      BY <1>3, HalCallFacts DEF BusPart, I2cBefore
    <2>4. /\ devices' = [devices EXCEPT !["i2c"] =
                           Bind(@, "I2C1", [node |-> 1, mux |-> NoMux])]
          /\ UNCHANGED <<pins, groups, sources, refused>>
      BY <2>2, <2>3 DEF RegisterDevice, BindIf, Returns
    <2>5. BusPart'
      BY <1>3, <2>4, HalCallFacts
         DEF BusPart, I2cBefore, I2cEntry, SpiBefore, SpiEntry, Bind, Kind
    <2> QED BY <1>2, <2>4, <2>5, HalCallFacts DEF Kind
  <1>4. CASE at = 24
    <2>1. HalCalls[at] = Call("register_i2c_dev_bus", "I2C4", 4)
      BY <1>1, <1>4 DEF BusCalls
    <2>2. /\ RegisterDevice("i2c", "I2C4", 4)
          /\ refused' = IF answer' = 0 THEN refused \cup {HalCalls[at]} ELSE refused
      BY <2>1 DEF RegisterDevices, Call, Perform, RegisterI2cDevBus
    <2>3. "I2C4" \notin DOMAIN devices["i2c"]
      BY <1>4, HalCallFacts DEF BusPart, I2cBefore
    <2>4. /\ devices' = [devices EXCEPT !["i2c"] =
                           Bind(@, "I2C4", [node |-> 4, mux |-> NoMux])]
          /\ UNCHANGED <<pins, groups, sources, refused>>
      BY <2>2, <2>3 DEF RegisterDevice, BindIf, Returns
    <2>5. BusPart'
      BY <1>4, <2>4, HalCallFacts
         DEF BusPart, I2cBefore, I2cEntry, SpiBefore, SpiEntry, Bind, Kind
    <2> QED BY <1>2, <2>4, <2>5, HalCallFacts DEF Kind
  <1>5. CASE at = 25
    <2>1. HalCalls[at] = Call("register_spi_dev_bus", "SPI00", <<0, 0>>)
      BY <1>1, <1>5 DEF BusCalls
    <2>2. /\ RegisterDevice("spi", "SPI00", <<0, 0>>)
          /\ refused' = IF answer' = 0 THEN refused \cup {HalCalls[at]} ELSE refused
      BY <2>1 DEF RegisterDevices, Call, Perform, RegisterSpiDevBus
    <2>3. "SPI00" \notin DOMAIN devices["spi"]
      BY <1>5, HalCallFacts DEF BusPart, SpiBefore
    <2>4. /\ devices' = [devices EXCEPT !["spi"] =
                           Bind(@, "SPI00", [node |-> <<0, 0>>, mux |-> NoMux])]
          /\ UNCHANGED <<pins, groups, sources, refused>>
      BY <2>2, <2>3 DEF RegisterDevice, BindIf, Returns
    <2>5. BusPart'
      BY <1>5, <2>4, HalCallFacts
         DEF BusPart, I2cBefore, I2cEntry, SpiBefore, SpiEntry, Bind, Kind
    <2> QED BY <1>2, <2>4, <2>5, HalCallFacts DEF Kind
  <1> QED BY <1>3, <1>4, <1>5

\* The header pins.
LEMMA PinsKeepInv ==
  ASSUME HalInv, RegisterDevices, at \in 26 .. 35
  PROVE  HalInv'
  <1> DEFINE pin == HeaderPins[at - 25]
  <1>1. HalCalls[at] = Call("register_pin", Gpio(pin), FALSE)
    <2>1. at - 25 \in 1 .. 10
      OBVIOUS
    <2>2. HalCalls[at] = PinCalls[at - 25]
      BY HalCallAt
    <2> QED BY <2>1, <2>2 DEF PinCalls
  <1> DEFINE call == HalCalls[at]
  <1>2. call.callback = "register_pin" /\ call.name = Gpio(pin) /\ call.arg = FALSE
    BY <1>1 DEF Call
  <1>3. /\ RegisterPin(Gpio(pin), FALSE)
        /\ refused' = IF answer' = 0 THEN refused \cup {HalCalls[at]} ELSE refused
    <2>1. /\ Perform(call)
          /\ refused' = IF answer' = 0 THEN refused \cup {call} ELSE refused
      BY <1>2 DEF RegisterDevices
    <2>2. RegisterPin(call.name, call.arg)
      BY <1>2, <2>1 DEF Perform
    <2>3. RegisterPin(Gpio(pin), FALSE)
      BY <1>2, <2>2, Zenon
    <2> QED BY <2>1, <2>3
  <1>4. /\ \A i \in 1 .. 10 : HeaderPins[i] \in 1 .. 25
        /\ \A i, j \in 1 .. 10 : HeaderPins[i] = HeaderPins[j] => i = j
    BY DEF HeaderPins
  <1>5. Gpio(pin) \notin DOMAIN pins
    BY <1>4, HalCallFacts, GpioInjective DEF PinPart, PinsBefore
  <1>6. /\ pins' = Bind(pins, Gpio(pin), FALSE)
        /\ UNCHANGED <<groups, sources, devices, refused>>
    BY <1>5, <1>3 DEF RegisterPin, BindIf, Returns
  <1>7. PinsBefore(at + 1) = PinsBefore(at) \cup {Gpio(pin)}
    BY DEF PinsBefore
  <1>8. PinPart'
    <2>1. /\ DOMAIN pins' = DOMAIN pins \cup {Gpio(pin)}
          /\ \A name \in DOMAIN pins' :
               pins'[name] = IF name = Gpio(pin) THEN FALSE ELSE pins[name]
      BY <1>6 DEF Bind
    <2> QED BY <1>7, <2>1, HalCallFacts DEF PinPart
  <1> QED
    BY <1>6, <1>8, HalCallFacts, GpioPartStays, BusPartStays, SourcePartStays,
       RefusedStay
       DEF HalInv, UartPart

\* A GPIO this board does not have is given a mux, which is refused.
LEMMA GpioMuxKeepsInv ==
  ASSUME HalInv, RegisterDevices, at = 36
  PROVE  HalInv'
  <1>1. /\ SetDeviceMux("gpio", Gpio(1), Gpio(1))
        /\ refused' = IF answer' = 0 THEN refused \cup {HalCalls[36]} ELSE refused
    BY HalCallAt DEF RegisterDevices, Call, Perform, SetGpioPinMux
  <1>2. Gpio(1) \notin DOMAIN devices["gpio"]
    BY HalCallFacts, GpioInjective DEF GpioPart, GpiosBefore, GpioStart, GpioEnd
  <1>3. UNCHANGED <<pins, groups, sources, devices>>
    BY <1>1, <1>2 DEF SetDeviceMux
  <1>4. refused' = refused \cup {HalCalls[36]}
    BY <1>1, <1>2 DEF SetDeviceMux, Returns
  <1>5. RefusedBefore(at + 1) = RefusedBefore(at) \cup {HalCalls[36]}
    BY DEF RefusedBefore
  <1> QED
    BY <1>3, <1>4, <1>5, HalCallFacts, PinPartStays, GpioPartStays, BusPartStays,
       SourcePartStays
       DEF HalInv, UartPart

\* A source whose pins are all registered, and whose name is new.
LEMMA SourceKeepsInv ==
  ASSUME HalInv, RegisterDevices, at \in {37, 38, 40},
         NEW name \in DOMAIN PinsOfSource,
         HalCalls[at] = Call("register_simple_source", name, PinsOfSource[name]),
         SourcesBefore(at + 1) = SourcesBefore(at) \cup {name},
         name \notin SourcesBefore(at),
         PinsOfSource[name] \subseteq PinsBefore(at)
  PROVE  HalInv'
  <1>1. /\ RegisterSimpleSource(name, PinsOfSource[name])
        /\ refused' = IF answer' = 0 THEN refused \cup {HalCalls[at]} ELSE refused
    BY DEF RegisterDevices, Call, Perform
  <1>2. /\ GroupAccepted(name, PinsOfSource[name])
        /\ name \notin DOMAIN sources
    BY HalCallFacts DEF GroupAccepted, PinPart, SourcePart
  <1>3. /\ groups' = Bind(groups, name, PinsOfSource[name])
        /\ sources' = Bind(sources, name, {name})
        /\ UNCHANGED <<pins, devices, refused>>
    BY <1>1, <1>2 DEF RegisterSimpleSource, BindIf, Returns
  <1>4. SourcePart'
    BY <1>3, HalCallFacts DEF SourcePart, Bind
  <1> QED
    BY <1>3, <1>4, HalCallFacts, PinPartStays, GpioPartStays, BusPartStays,
       RefusedStay
       DEF HalInv, UartPart

\* The sources, of which I2C4 has a pin that was not registered.
LEMMA SourcesKeepInv ==
  ASSUME HalInv, RegisterDevices, at \in 37 .. 40
  PROVE  HalInv'
  <1>1. HalCalls[at] = SourceCalls[at - 36]
    BY HalCallAt
  <1>2. PinsBefore(at) = {Gpio(n) : n \in {1, 2, 3, 7, 8, 9, 10, 11, 14, 15}}
    BY DEF PinsBefore, HeaderPins
  <1>3. CASE at = 37
    <2>1. HalCalls[at] = Call("register_simple_source", "UART1", PinsOfSource["UART1"])
      BY <1>1, <1>3 DEF SourceCalls, PinsOfSource
    <2>2. /\ SourcesBefore(at + 1) = SourcesBefore(at) \cup {"UART1"}
          /\ "UART1" \notin SourcesBefore(at)
      BY <1>3 DEF SourcesBefore
    <2>3. "UART1" \in DOMAIN PinsOfSource /\ PinsOfSource["UART1"] \subseteq PinsBefore(at)
      BY <1>2 DEF PinsOfSource
    <2> QED BY <1>3, <2>1, <2>2, <2>3, SourceKeepsInv
  <1>4. CASE at = 38
    <2>1. HalCalls[at] = Call("register_simple_source", "I2C1", PinsOfSource["I2C1"])
      BY <1>1, <1>4 DEF SourceCalls, PinsOfSource
    <2>2. /\ SourcesBefore(at + 1) = SourcesBefore(at) \cup {"I2C1"}
          /\ "I2C1" \notin SourcesBefore(at)
      BY <1>4 DEF SourcesBefore
    <2>3. "I2C1" \in DOMAIN PinsOfSource /\ PinsOfSource["I2C1"] \subseteq PinsBefore(at)
      BY <1>2 DEF PinsOfSource
    <2> QED BY <1>4, <2>1, <2>2, <2>3, SourceKeepsInv
  <1>5. CASE at = 39
    <2>1. HalCalls[39] = Call("register_simple_source", "I2C4", {Gpio(6), Gpio(7)})
      BY <1>1, <1>5 DEF SourceCalls
    <2>2. /\ RegisterSimpleSource("I2C4", {Gpio(6), Gpio(7)})
          /\ refused' = IF answer' = 0 THEN refused \cup {HalCalls[39]} ELSE refused
      BY <1>5, <2>1 DEF RegisterDevices, Call, Perform
    <2>3. Gpio(6) \notin DOMAIN pins
      BY <1>2, HalCallFacts, GpioInjective DEF PinPart
    <2>4. ~ GroupAccepted("I2C4", {Gpio(6), Gpio(7)})
      BY <2>3 DEF GroupAccepted
    <2>5. /\ UNCHANGED <<pins, groups, sources, devices>>
          /\ refused' = refused \cup {HalCalls[39]}
      BY <2>2, <2>4 DEF RegisterSimpleSource, BindIf, Returns
    <2>6. RefusedBefore(at + 1) = RefusedBefore(at) \cup {HalCalls[39]}
      BY <1>5 DEF RefusedBefore
    <2> QED
      BY <1>5, <2>5, <2>6, HalCallFacts, PinPartStays, GpioPartStays,
         BusPartStays, SourcePartStays
         DEF HalInv, UartPart
  <1>6. CASE at = 40
    <2>1. HalCalls[at] = Call("register_simple_source", "SPI00", PinsOfSource["SPI00"])
      BY <1>1, <1>6 DEF SourceCalls, PinsOfSource
    <2>2. /\ SourcesBefore(at + 1) = SourcesBefore(at) \cup {"SPI00"}
          /\ "SPI00" \notin SourcesBefore(at)
      BY <1>6 DEF SourcesBefore
    <2>3. "SPI00" \in DOMAIN PinsOfSource /\ PinsOfSource["SPI00"] \subseteq PinsBefore(at)
      BY <1>2 DEF PinsOfSource
    <2> QED BY <1>6, <2>1, <2>2, <2>3, SourceKeepsInv
  <1> QED BY <1>3, <1>4, <1>5, <1>6

\* The muxes of the two buses.
LEMMA MuxesKeepInv ==
  ASSUME HalInv, RegisterDevices, at \in 41 .. 42
  PROVE  HalInv'
  <1>1. HalCalls[at] = MuxCalls[at - 40]
    BY HalCallAt
  <1>2. ASSUME DOMAIN devices' = Kind,
               devices'["gpio"] = devices["gpio"],
               devices'["uart"] = devices["uart"],
               UNCHANGED <<pins, groups, sources, refused>>,
               BusPart'
        PROVE  HalInv'
    BY <1>2, HalCallFacts, PinPartStays, GpioPartStays, SourcePartStays, RefusedStay
       DEF HalInv, UartPart
  <1>3. CASE at = 41
    <2>1. HalCalls[at] = Call("set_i2c_pin_mux", "I2C1", "I2C1")
      BY <1>1, <1>3 DEF MuxCalls
    <2>2. /\ SetDeviceMux("i2c", "I2C1", "I2C1")
          /\ refused' = IF answer' = 0 THEN refused \cup {HalCalls[at]} ELSE refused
      BY <2>1 DEF RegisterDevices, Call, Perform, SetI2cPinMux
    <2>3. /\ "I2C1" \in DOMAIN devices["i2c"]
          /\ devices["i2c"]["I2C1"] = [node |-> 1, mux |-> NoMux]
      BY <1>3, HalCallFacts DEF BusPart, I2cBefore, I2cEntry
    <2>4. /\ devices' = [devices EXCEPT !["i2c"]["I2C1"].mux = "I2C1"]
          /\ UNCHANGED <<pins, groups, sources, refused>>
      BY <2>2, <2>3 DEF SetDeviceMux, Returns
    <2>5. BusPart'
      BY <1>3, <2>3, <2>4, HalCallFacts
         DEF BusPart, I2cBefore, I2cEntry, SpiBefore, SpiEntry, Kind
    <2> QED BY <1>2, <2>4, <2>5, HalCallFacts DEF Kind
  <1>4. CASE at = 42
    <2>1. HalCalls[at] = Call("set_spi_pin_mux", "SPI00", "SPI00")
      BY <1>1, <1>4 DEF MuxCalls
    <2>2. /\ SetDeviceMux("spi", "SPI00", "SPI00")
          /\ refused' = IF answer' = 0 THEN refused \cup {HalCalls[at]} ELSE refused
      BY <2>1 DEF RegisterDevices, Call, Perform, SetSpiPinMux
    <2>3. /\ "SPI00" \in DOMAIN devices["spi"]
          /\ devices["spi"]["SPI00"] = [node |-> <<0, 0>>, mux |-> NoMux]
      BY <1>4, HalCallFacts DEF BusPart, SpiBefore, SpiEntry
    <2>4. /\ devices' = [devices EXCEPT !["spi"]["SPI00"].mux = "SPI00"]
          /\ UNCHANGED <<pins, groups, sources, refused>>
      BY <2>2, <2>3 DEF SetDeviceMux, Returns
    <2>5. BusPart'
      BY <1>4, <2>3, <2>4, HalCallFacts
         DEF BusPart, I2cBefore, I2cEntry, SpiBefore, SpiEntry, Kind
    <2> QED BY <1>2, <2>4, <2>5, HalCallFacts DEF Kind
  <1> QED BY <1>3, <1>4

\* The other steps: register_devices is not at work.
LEMMA OtherHalStepsKeepInv ==
  ASSUME HalInv,
         \/ RegisterDrivers \/ GetDevicesList \/ Die \/ Restart
         \/ \E name \in Adapter : Plug(name)
  PROVE  HalInv'
  <1>1. Serving = 43 /\ Down = -1 /\ Drivers = 0
    BY HalCallAt DEF Serving, Down, Drivers
  <1>2. CASE RegisterDrivers
    <2>1. /\ at = 0 /\ at' = at + 1
          /\ UNCHANGED <<pins, groups, sources, devices, refused, plugged>>
      BY <1>1, <1>2 DEF RegisterDrivers, boardVars, registries
    <2>2. /\ PinPart /\ GpioPart /\ BusPart /\ SourcePart /\ UartPart
          /\ refused = RefusedBefore(at)
      BY <1>1, <2>1 DEF HalInv
    <2> QED
      BY <1>1, <2>1, <2>2, PinPartStays, GpioPartStays, BusPartStays,
         SourcePartStays, RefusedStay
         DEF HalInv, UartPart
  <1>3. CASE GetDevicesList
    <2>1. /\ devices'["uart"] =
                [name \in DOMAIN devices["uart"] \cup plugged |->
                   [node |-> IF name \in DOMAIN devices["uart"]
                             THEN devices["uart"][name].node ELSE name,
                    mux  |-> IF name \in plugged THEN name
                             ELSE devices["uart"][name].mux]]
          /\ DOMAIN devices' = Kind
          /\ \A kind \in {"gpio", "i2c", "spi"} : devices'[kind] = devices[kind]
          /\ at = 43
          /\ UNCHANGED <<pins, groups, sources, at, refused, plugged>>
      BY <1>1, <1>3 DEF GetDevicesList, HalInv, Kind
    <2>2. UartPart'
      BY <1>1, <2>1 DEF UartPart, HalInv
    <2> QED
      BY <1>1, <2>1, <2>2 DEF HalInv, PinPart, GpioPart, BusPart, SourcePart
  <1>4. CASE Die
    BY <1>1, <1>4 DEF Die, HalInv, boardVars, registries
  <1>5. CASE Restart
    <2>1. /\ PinsBefore(0) = {} /\ GpiosBefore(0) = {} /\ I2cBefore(0) = {}
          /\ SpiBefore(0) = {} /\ SourcesBefore(0) = {} /\ RefusedBefore(0) = {}
      BY DEF PinsBefore, GpiosBefore, I2cBefore, SpiBefore, SourcesBefore,
             RefusedBefore, GpioStart, GpioEnd
    <2> QED
      BY <1>1, <1>5, <2>1
         DEF Restart, EmptyMap, Kind, HalInv, PinPart, GpioPart, BusPart,
             SourcePart, UartPart
  <1>6. CASE \E name \in Adapter : Plug(name)
    BY <1>6
       DEF Plug, boardVars, registries, HalInv, PinPart, GpioPart, BusPart,
           SourcePart, UartPart
  <1> QED BY <1>2, <1>3, <1>4, <1>5, <1>6

\* The invariant is inductive.
LEMMA HalNextKeepsInv ==
  ASSUME HalInv, [HalNext]_halVars
  PROVE  HalInv'
  <1>1. CASE UNCHANGED halVars
    BY <1>1
       DEF halVars, boardVars, registries, HalInv, PinPart, GpioPart, BusPart,
           SourcePart, UartPart
  <1>2. CASE RegisterDevices
    BY <1>2, HalCallFacts, SysfsKeepsInv, BusesKeepInv, PinsKeepInv, GpioMuxKeepsInv,
       SourcesKeepInv, MuxesKeepInv
  <1> QED BY <1>1, <1>2, OtherHalStepsKeepInv DEF HalNext

\* Between any two calls of the start-up, and after any lists, ends and restarts,
\* the registries hold what the calls so far leave there, and two are refused.
THEOREM HalInvariant == HalSpec => []HalInv
  <1>1. HalInit => HalInv
    BY HalInitInv
  <1>2. HalInv /\ [HalNext]_halVars => HalInv'
    BY HalNextKeepsInv
  <1> QED BY <1>1, <1>2, PTL DEF HalSpec

\* On this board each mux of a bus is a source that claims something, and two
\* calls are refused, whichever adapters there are.
THEOREM HalMuxesCorrect == HalSpec => []HalMuxesResolve
  <1>1. HalInv => HalMuxesResolve
    <2>1. SUFFICES ASSUME HalInv, at = Serving PROVE HalMuxesResolve
      BY DEF HalMuxesResolve
    <2>2. /\ Serving = 43 /\ Down = -1
          /\ PinPart /\ GpioPart /\ BusPart /\ SourcePart
          /\ refused = RefusedBefore(43)
      BY <2>1, HalCallAt DEF HalInv, Serving, Down
    <2>3. refused = {HalCalls[36], HalCalls[39]}
      BY <2>2 DEF RefusedBefore
    <2>4. HalCalls[39] = SourceCalls[3]
      BY HalCallAt
    <2>5. /\ HalCalls[36].callback = "set_gpio_pin_mux" /\ HalCalls[36].name = Gpio(1)
          /\ HalCalls[39].callback = "register_simple_source"
          /\ HalCalls[39].name = "I2C4"
      BY <2>4, HalCallAt DEF SourceCalls, Call
    <2>6. {<<call.callback, call.name>> : call \in refused} =
            {<<"set_gpio_pin_mux", Gpio(1)>>, <<"register_simple_source", "I2C4">>}
      BY <2>3, <2>5
    <2>7. /\ \A name \in DOMAIN devices["i2c"] :
               devices["i2c"][name].mux \in {"I2C1", NoMux}
          /\ \A name \in DOMAIN devices["spi"] :
               devices["spi"][name].mux \in {"SPI00", NoMux}
      <3>1. /\ \A name : I2cEntry(name, at).mux \in {"I2C1", NoMux}
            /\ SpiEntry(at).mux \in {"SPI00", NoMux}
        BY DEF I2cEntry, SpiEntry
      <3> QED BY <2>2, <3>1 DEF BusPart
    <2>8. Muxes("i2c") \subseteq {"I2C1"} /\ Muxes("spi") \subseteq {"SPI00"}
      BY <2>7 DEF Muxes
    <2>9. \A mux \in {"I2C1", "SPI00"} :
            mux \in DOMAIN sources /\ mux \in sources[mux] /\ mux \in DOMAIN groups
      BY <2>1, <2>2 DEF SourcePart, SourcesBefore
    <2> QED BY <2>1, <2>6, <2>8, <2>9 DEF HalMuxesResolve
  <1> QED BY <1>1, HalInvariant, PTL

\* On this board no pin has two uses, whichever adapters there are: it is one of
\* those that PinsHeld and GpioPinsHeld are about.
THEOREM HalPinsCorrect == HalSpec => []HalPinsApart
  <1>1. HalInv => HalPinsApart
    <2>1. SUFFICES ASSUME HalInv, at = Serving PROVE HalPinsApart
      BY DEF HalPinsApart
    <2>2. /\ Serving = 43 /\ Down = -1
          /\ GpioPart /\ SourcePart /\ UartPart
      BY <2>1, HalCallAt DEF HalInv, Serving, Down
    <2>3. /\ DOMAIN groups = {"UART1", "I2C1", "SPI00"}
          /\ DOMAIN sources = {"UART1", "I2C1", "SPI00"}
          /\ \A g \in DOMAIN groups : groups[g] = PinsOfSource[g]
      BY <2>1, <2>2 DEF SourcePart, SourcesBefore
    <2>4. DOMAIN devices["gpio"] = {Gpio(n) : n \in (4 .. 25) \ SkippedGpios}
      BY <2>1, <2>2 DEF GpioPart, GpiosBefore, GpioStart, GpioEnd
    <2>5. /\ groups["UART1"] = {Gpio(14), Gpio(15)}
          /\ groups["I2C1"] = {Gpio(2), Gpio(3)}
          /\ groups["SPI00"] = {Gpio(n) : n \in 7 .. 11}
      BY <2>3 DEF PinsOfSource
    <2>6. \A g, h \in DOMAIN groups : g # h => groups[g] \cap groups[h] = {}
      BY <2>3, <2>5, GpioInjective
    <2>7. \A g \in DOMAIN groups : groups[g] \cap DOMAIN devices["gpio"] = {}
      BY <2>3, <2>4, <2>5, GpioInjective DEF SkippedGpios
    <2>8. Muxes("gpio") = {}
      BY <2>1, <2>2 DEF Muxes, GpioPart
    <2>9. Muxes("uart") \cap DOMAIN sources = {}
      BY <2>2, <2>3, HalAssumption DEF Muxes, UartPart
    <2> QED BY <2>6, <2>7, <2>8, <2>9 DEF HalPinsApart
  <1> QED BY <1>1, HalInvariant, PTL

\* A call leaves the registries closed, whatever it is given.
LEMMA PerformKeepsClosed ==
  ASSUME BoardClosed, NEW call, Perform(call),
         call.callback \in {"register_gpio_sysfs", "register_i2c_dev_bus",
                            "register_spi_dev_bus", "register_pin",
                            "register_simple_source", "set_gpio_pin_mux",
                            "set_i2c_pin_mux", "set_spi_pin_mux"}
  PROVE  BoardClosed'
  <1>1. CASE call.callback = "register_pin"
    <2>1. RegisterPin(call.name, call.arg)
      BY <1>1 DEF Perform
    <2>2. DOMAIN pins \subseteq DOMAIN pins'
      BY <2>1 DEF RegisterPin, BindIf, Bind
    <2> QED BY <2>1, <2>2 DEF RegisterPin, BoardClosed
  <1>2. CASE call.callback = "register_simple_source"
    <2>1. RegisterSimpleSource(call.name, call.arg)
      BY <1>2 DEF Perform
    <2>2. /\ groups' \in [DOMAIN groups' -> SUBSET DOMAIN pins']
          /\ DOMAIN groups \subseteq DOMAIN groups'
          /\ GroupAccepted(call.name, call.arg) => call.name \in DOMAIN groups'
      BY <2>1, NewGroupKeepsClosed DEF RegisterSimpleSource
    <2>3. sources' \in [DOMAIN sources' -> SUBSET DOMAIN groups']
      BY <2>1, <2>2 DEF RegisterSimpleSource, BindIf, Bind, BoardClosed
    <2> QED BY <2>2, <2>3 DEF BoardClosed
  <1>3. CASE call.callback \notin {"register_pin", "register_simple_source"}
    <2>1. UNCHANGED <<pins, groups, sources>>
      BY <1>3
         DEF Perform, RegisterGpioSysfs, RegisterI2cDevBus, RegisterSpiDevBus,
             SetGpioPinMux, SetI2cPinMux, SetSpiPinMux, RegisterDevice, SetDeviceMux
    <2> QED BY <2>1 DEF BoardClosed
  <1> QED BY <1>1, <1>2, <1>3

\* The callbacks register_devices calls.
LEMMA HalCallbacks ==
  \A i \in 1 .. 42 :
    HalCalls[i].callback \in {"none", "register_gpio_sysfs", "register_i2c_dev_bus",
                              "register_spi_dev_bus", "register_pin",
                              "register_simple_source", "set_gpio_pin_mux",
                              "set_i2c_pin_mux", "set_spi_pin_mux"}
  <1>1. \A i \in 1 .. 22 :
          SysfsCalls[i].callback \in {"none", "register_gpio_sysfs"}
    BY DEF SysfsCalls, GpioStart, GpioEnd, Call
  <1>2. \A i \in 1 .. 3 :
          BusCalls[i].callback \in {"register_i2c_dev_bus", "register_spi_dev_bus"}
    BY DEF BusCalls, Call
  <1>3. \A i \in 1 .. 10 : PinCalls[i].callback = "register_pin"
    BY DEF PinCalls, Call
  <1>4. HalCalls[36].callback = "set_gpio_pin_mux"
    BY HalCallAt DEF Call
  <1>5. \A i \in 1 .. 4 : SourceCalls[i].callback = "register_simple_source"
    BY DEF SourceCalls, Call
  <1>6. \A i \in 1 .. 2 :
          MuxCalls[i].callback \in {"set_i2c_pin_mux", "set_spi_pin_mux"}
    BY DEF MuxCalls, Call
  <1>7. ASSUME NEW i \in 1 .. 42
        PROVE  /\ i \in 23 .. 25 => i - 22 \in 1 .. 3
               /\ i \in 26 .. 35 => i - 25 \in 1 .. 10
               /\ i \in 37 .. 40 => i - 36 \in 1 .. 4
               /\ i \in 41 .. 42 => i - 40 \in 1 .. 2
               /\ \/ i \in 1 .. 22 \/ i \in 23 .. 25 \/ i \in 26 .. 35 \/ i = 36
                  \/ i \in 37 .. 40 \/ i \in 41 .. 42
    OBVIOUS
  <1> QED BY <1>1, <1>2, <1>3, <1>4, <1>5, <1>6, <1>7, HalCallAt

\* BoardClosed holds of this board at every point of its start-up, whatever its
\* names are taken to be, and of a service that runs, died or starts again.
THEOREM HalStaysClosed == HalSpec => []BoardClosed
  <1>1. HalInit => BoardClosed
    BY DEF HalInit, BoardInit, BoardClosed, EmptyMap
  <1>2. BoardClosed /\ [HalNext]_halVars => BoardClosed'
    <2>1. SUFFICES ASSUME BoardClosed, [HalNext]_halVars PROVE BoardClosed'
      OBVIOUS
    <2>2. CASE UNCHANGED <<pins, groups, sources>>
      BY <2>1, <2>2 DEF BoardClosed
    <2>3. CASE RegisterDevices
      <3>1. at \in 1 .. 42
        BY <2>3, HalCallAt DEF RegisterDevices
      <3>2. CASE HalCalls[at].callback = "none"
        BY <2>2, <2>3, <3>2 DEF RegisterDevices, boardVars, registries
      <3>3. CASE HalCalls[at].callback # "none"
        BY <2>1, <2>3, <3>1, <3>3, HalCallbacks, PerformKeepsClosed
           DEF RegisterDevices
      <3> QED BY <3>2, <3>3
    <2>4. CASE Restart
      BY <2>4 DEF Restart, BoardClosed, EmptyMap
    <2>5. CASE \/ RegisterDrivers \/ GetDevicesList \/ Die \/ UNCHANGED halVars
               \/ \E name \in Adapter : Plug(name)
      BY <2>2, <2>5
         DEF RegisterDrivers, GetDevicesList, Die, Plug, halVars, boardVars,
             registries
    <2> QED BY <2>1, <2>3, <2>4, <2>5 DEF HalNext
  <1> QED BY <1>1, <1>2, PTL DEF HalSpec
-----------------------------------------------------------------------------
(***************************************************************************)
(* What is registered stays while there is a process.                      *)
(***************************************************************************)
\* What each call of this board adds.
LEMMA PerformGrows ==
  ASSUME DevicesAreRecords, NEW call, Perform(call),
         call.callback \in {"register_gpio_sysfs", "register_i2c_dev_bus",
                            "register_spi_dev_bus", "register_pin",
                            "register_simple_source", "set_gpio_pin_mux",
                            "set_i2c_pin_mux", "set_spi_pin_mux"}
  PROVE  PinRegistriesGrow /\ DeviceRegistriesGrow /\ DevicesAreRecords'
  <1>1. CASE call.callback = "register_pin"
    <2>1. RegisterPin(call.name, call.arg)
      BY <1>1 DEF Perform
    <2> QED
      BY <2>1 DEF RegisterPin, BindIf, Bind, PinRegistriesGrow, DeviceRegistriesGrow,
                  DevicesAreRecords
  <1>2. CASE call.callback = "register_simple_source"
    <2>1. RegisterSimpleSource(call.name, call.arg)
      BY <1>2 DEF Perform
    <2> QED
      BY <2>1 DEF RegisterSimpleSource, GroupAccepted, BindIf, Bind, PinRegistriesGrow,
                  DeviceRegistriesGrow, DevicesAreRecords
  <1>3. CASE call.callback \in {"register_gpio_sysfs", "register_i2c_dev_bus",
                                "register_spi_dev_bus"}
    <2>1. \E kind \in Kind : RegisterDevice(kind, call.name, call.arg)
      BY <1>3 DEF Perform, Kind, RegisterGpioSysfs, RegisterI2cDevBus, RegisterSpiDevBus
    <2>2. PinRegistriesGrow
      BY <2>1 DEF RegisterDevice, PinRegistriesGrow
    <2> QED BY <2>1, <2>2, RegisterDeviceGrows
  <1>4. CASE call.callback \in {"set_gpio_pin_mux", "set_i2c_pin_mux", "set_spi_pin_mux"}
    <2>1. \E kind \in Kind : SetDeviceMux(kind, call.name, call.arg)
      BY <1>4 DEF Perform, Kind, SetGpioPinMux, SetI2cPinMux, SetSpiPinMux
    <2>2. PinRegistriesGrow
      BY <2>1 DEF SetDeviceMux, PinRegistriesGrow
    <2> QED BY <2>1, <2>2, SetDeviceMuxGrows
  <1> QED BY <1>1, <1>2, <1>3, <1>4

\* And what a step of the process adds, a list of the adapters included.
LEMMA HalStepGrows ==
  ASSUME DevicesAreRecords, [HalNext]_halVars
  PROVE  /\ DevicesAreRecords'
         /\ at # Down => PinRegistriesGrow /\ DeviceRegistriesGrow
  <1>1. CASE UNCHANGED <<pins, groups, sources, devices>>
    BY <1>1 DEF DevicesAreRecords, PinRegistriesGrow, DeviceRegistriesGrow
  <1>2. CASE RegisterDevices
    <2>1. at \in 1 .. 42
      BY <1>2, HalCallAt DEF RegisterDevices
    <2>2. CASE HalCalls[at].callback = "none"
      BY <1>1, <1>2, <2>2 DEF RegisterDevices, boardVars, registries
    <2>3. CASE HalCalls[at].callback # "none"
      BY <1>2, <2>1, <2>3, HalCallbacks, PerformGrows DEF RegisterDevices
    <2> QED BY <2>2, <2>3
  <1>3. CASE GetDevicesList
    <2> DEFINE old == devices["uart"]
    <2>1. /\ DOMAIN devices' = Kind
          /\ \A kind \in Kind \ {"uart"} : devices'[kind] = devices[kind]
          /\ devices'["uart"] =
               [name \in DOMAIN old \cup plugged |->
                  [node |-> IF name \in DOMAIN old THEN old[name].node ELSE name,
                   mux  |-> IF name \in plugged THEN name ELSE old[name].mux]]
          /\ UNCHANGED <<pins, groups, sources>>
      BY <1>3 DEF GetDevicesList, DevicesAreRecords, Kind
    <2>2. PinRegistriesGrow
      BY <2>1 DEF PinRegistriesGrow
    <2> QED BY <2>1, <2>2 DEF DeviceRegistriesGrow, DevicesAreRecords
  <1>4. CASE Restart
    BY <1>4 DEF Restart, EmptyMap, DevicesAreRecords
  <1> QED
    BY <1>1, <1>2, <1>3, <1>4
       DEF HalNext, RegisterDrivers, Plug, Die, halVars, boardVars, registries

\* From the first call of register_devices to the end of the process nothing that is
\* registered goes or is replaced, by the rest of the start-up or by a list of the
\* adapters, which registers uarts behind the back of their open handles; only the
\* end of the process empties the registries.
THEOREM HalRegistrationsStay ==
  HalSpec => [][at # Down => PinRegistriesGrow /\ DeviceRegistriesGrow]_halVars
  <1>1. HalInit => DevicesAreRecords
    BY DEF HalInit, BoardInit, EmptyMap, DevicesAreRecords
  <1>2. DevicesAreRecords /\ [HalNext]_halVars => DevicesAreRecords'
    BY HalStepGrows
  <1>3. DevicesAreRecords /\ [HalNext]_halVars
          => [at # Down => PinRegistriesGrow /\ DeviceRegistriesGrow]_halVars
    BY HalStepGrows
  <1> QED BY <1>1, <1>2, <1>3, PTL DEF HalSpec
-----------------------------------------------------------------------------
(***************************************************************************)
(* What the modules of the running service suppose of a board.             *)
(***************************************************************************)
\* Closed registries are what PinMux assumes.
LEMMA ClosedSuitsPinMux == BoardClosed => BoardSuitsPinMux
  BY DEF BoardClosed, BoardSuitsPinMux, PinsRegistered, Running!RegistriesClosed

\* The assumption of PinMux holds of the registries that any board leaves behind,
\* whatever it calls in whatever order and whichever of its calls are refused.
THEOREM AnyBoardSuitsPinMux == BoardSpec => []BoardSuitsPinMux
  BY ClosedSuitsPinMux, BoardStaysClosed, PTL

\* The pins that the devices of this board claim, and that its GPIOs claim none.
LEMMA PinsAtServing ==
  ASSUME HalInv, at = Serving, DOMAIN devices["uart"] = {},
         PinsRegistered, DevicesRegistered
  PROVE  /\ Running!NamesApart
         /\ \A pin \in GpioPin : GpioMux[pin] = NoMux
         /\ MuxCallback = {}
         /\ \A d \in Running!SpiDevices : Running!PinsOf(d) = PinsOfSource["SPI00"]
         /\ \A d \in Running!I2cDevices :
              Running!PinsOf(d) = IF d[2] = "I2C1" THEN PinsOfSource["I2C1"] ELSE {}
         /\ \A d \in Running!UartDevices : Running!PinsOf(d) = {}
         /\ \A d, e \in Running!SpiDevices : d = e
  <1> USE DEF PinsRegistered, DevicesRegistered, MuxesOf
  <1>1. /\ at = 43 /\ PinPart /\ GpioPart /\ BusPart /\ SourcePart
    BY HalCallAt DEF HalInv, Serving, Down
  <1>2. /\ Source = {"UART1", "I2C1", "SPI00"} /\ Group = Source
        /\ \A s \in Source : SourceGroups[s] = {s} /\ GroupPins[s] = PinsOfSource[s]
    BY <1>1 DEF SourcePart, SourcesBefore
  <1>3. \A mux : Running!SourcePins(mux) = IF mux \in Source THEN PinsOfSource[mux] ELSE {}
    BY <1>2 DEF Running!SourcePins, Running!Registered
  <1>4. /\ I2cBus = {"I2C1", "I2C4"} /\ I2cMux["I2C1"] = "I2C1" /\ I2cMux["I2C4"] = NoMux
        /\ SpiBus = {"SPI00"} /\ SpiMux["SPI00"] = "SPI00"
    <2>1. /\ I2cBefore(43) = {"I2C1", "I2C4"} /\ SpiBefore(43) = {"SPI00"}
          /\ I2cEntry("I2C1", 43).mux = "I2C1" /\ I2cEntry("I2C4", 43).mux = NoMux
          /\ SpiEntry(43).mux = "SPI00"
      BY DEF I2cBefore, SpiBefore, I2cEntry, SpiEntry
    <2> QED BY <1>1, <2>1 DEF BusPart
  <1>5. BspUartMux = [name \in {} |-> devices["uart"][name].mux] /\ Running!BspUart = {}
    BY DEF Running!BspUart
  <1>6. \A pin \in GpioPin : GpioMux[pin] = NoMux
    BY <1>1 DEF GpioPart
  <1>7. NoMux \notin Pin
    <2>1. \A i \in 1 .. 10 : HeaderPins[i] \in 1 .. 25
      BY DEF HeaderPins
    <2> QED BY <1>1, <2>1, GpioNamed DEF PinPart, PinsBefore
  <1>8. Running!NamesApart
    BY <1>2, <1>5, <1>7 DEF Running!NamesApart, Running!NoMux, NoMux
  <1>9. ASSUME NEW d \in Running!SpiDevices
        PROVE  Running!PinsOf(d) = PinsOfSource["SPI00"] /\ d = Running!SpiDev("SPI00")
    <2>1. /\ d = Running!SpiDev("SPI00") /\ d[2] = "SPI00"
          /\ d \notin Running!I2cDevices \cup Running!UartDevices
      BY <1>4 DEF Running!SpiDevices, Running!SpiDev, Running!I2cDevices, Running!I2cDev,
                  Running!UartDevices, Running!Tty
    <2>2. Running!MuxOf(d) = SpiMux[d[2]]
      BY <2>1 DEF Running!MuxOf
    <2> QED BY <1>2, <1>3, <1>4, <2>1, <2>2 DEF Running!PinsOf
  <1>10. ASSUME NEW d \in Running!I2cDevices
         PROVE  Running!PinsOf(d) = IF d[2] = "I2C1" THEN PinsOfSource["I2C1"] ELSE {}
    <2>1. /\ d \notin Running!SpiDevices \cup Running!UartDevices
          /\ d[2] \in I2cBus
      BY DEF Running!SpiDevices, Running!SpiDev, Running!I2cDevices, Running!I2cDev,
             Running!UartDevices, Running!Tty
    <2>2. Running!MuxOf(d) = I2cMux[d[2]]
      BY <2>1 DEF Running!MuxOf
    <2> QED
      BY <1>2, <1>3, <1>4, <2>1, <2>2 DEF Running!PinsOf, NoMux
  <1>11. ASSUME NEW d \in Running!UartDevices
         PROVE  Running!PinsOf(d) = {}
    <2>1. /\ d \notin Running!SpiDevices \cup Running!I2cDevices
          /\ d[2] \in Adapter
      BY <1>5 DEF Running!SpiDevices, Running!SpiDev, Running!I2cDevices, Running!I2cDev,
                  Running!UartDevices, Running!Tty, Running!UartDevice
    <2>2. Running!MuxOf(d) = d[2]
      BY <1>5, <2>1 DEF Running!MuxOf, Running!UartMuxOf
    <2> QED BY <1>2, <1>3, <2>1, <2>2, HalAssumption DEF Running!PinsOf
  <1>12. MuxCallback = {}
    BY <1>1 DEF PinPart
  <1> QED BY <1>6, <1>8, <1>9, <1>10, <1>11, <1>12

\* So they are apart.
LEMMA BoardAtServingSuits ==
  ASSUME HalInv, BoardClosed, at = Serving, DOMAIN devices["uart"] = {}
  PROVE  BoardSuitsService
  <1> SUFFICES ASSUME PinsRegistered, DevicesRegistered
               PROVE  Running!RegistriesClosed /\ Running!PinsApart /\ MuxCallback = {}
    BY DEF BoardSuitsService
  <1>1. PinsOfSource["SPI00"] \cap PinsOfSource["I2C1"] = {}
    BY GpioInjective DEF PinsOfSource
  <1>2. \A s \in {"SPI00", "I2C1"} : NoMux \notin PinsOfSource[s]
    BY GpioNamed DEF PinsOfSource
  <1>3. /\ \A d \in Running!SourceDevices : \A pin \in GpioPin :
             GpioMux[pin] \notin Running!PinsOf(d)
    BY <1>2, PinsAtServing DEF Running!SourceDevices
  <1>4. \A d \in Running!SpiDevices \cup Running!UartDevices : Running!OwnPins(d)
    BY <1>1, <1>3, PinsAtServing DEF Running!SourceDevices, Running!OwnPins
  <1>5. \A d \in Running!I2cDevices : Running!SharedPins(d)
    BY <1>1, <1>3, PinsAtServing DEF Running!SourceDevices, Running!SharedPins
  <1>6. Running!PinsApart
    BY <1>4, <1>5, PinsAtServing DEF Running!PinsApart, Running!NoMux, NoMux
  <1> QED BY <1>6, PinsAtServing, ClosedSuitsPinMux DEF BoardSuitsPinMux

\* Only the last call of register_devices leads to the loop, and no uart is
\* registered by then: lists of adapters come later.
LEMMA LoopIsEnteredWithoutUarts ==
  ASSUME HalInv, [HalNext]_halVars, LoopEntered
  PROVE  at' = Serving /\ DOMAIN devices'["uart"] = {}
  <1>1. Serving = 43 /\ Down = -1 /\ Drivers = 0 /\ Serving' = Serving
    BY HalCallAt DEF Serving, Down, Drivers
  <1>2. RegisterDevices
    BY <1>1
       DEF LoopEntered, HalNext, RegisterDrivers, GetDevicesList, Plug, Die, Restart,
           halVars
  <1>3. HalInv'
    BY HalNextKeepsInv
  <1>4. at = 42 /\ at' = 43
    BY <1>1, <1>2, HalCallFacts DEF LoopEntered
  <1>5. HalCalls[42].callback = "set_spi_pin_mux"
    BY HalCallAt DEF MuxCalls, Call
  <1>6. SetDeviceMux("spi", HalCalls[42].name, HalCalls[42].arg)
    BY <1>2, <1>4, <1>5 DEF RegisterDevices, Perform, SetSpiPinMux
  <1>7. devices'["uart"] = devices["uart"]
    BY <1>2, <1>6, HalCallFacts DEF SetDeviceMux, Kind
  <1> QED BY <1>1, <1>2, <1>4, <1>7, HalCallFacts DEF UartPart

\* Whichever adapters there are, and however often the process ended on its way, when
\* main enters its loop the registries are those of a board whose names and pins are
\* as apart as the theorems about pins of the running service ask.
THEOREM HalStartsSuitedService == HalSpec => StartupSuitsService
  <1>1. HalInv /\ BoardClosed /\ at = Serving /\ DOMAIN devices["uart"] = {}
          => BoardSuitsService
    BY BoardAtServingSuits
  <1>2. HalInv /\ [HalNext]_halVars /\ LoopEntered
          => (at = Serving /\ DOMAIN devices["uart"] = {})'
    BY LoopIsEnteredWithoutUarts
  <1> QED
    BY <1>1, <1>2, HalInvariant, HalStaysClosed, PTL DEF HalSpec, StartupSuitsService
=============================================================================
