------------------------------- MODULE Board --------------------------------
(***************************************************************************)
(* What a board support package registers: the callbacks that              *)
(* PeripheralManager::InitHal hands to register_devices, each with the     *)
(* manager's function behind it.  A board may make any calls in any order; *)
(* each is refused or takes effect at once, and nothing is unregistered.   *)
(* The registries of a finished board are constants in the modules of the  *)
(* running service.                                                        *)
(***************************************************************************)
EXTENDS Maps, Integers

CONSTANTS PinName,     \* the names a board may give its pins ...
          SourceName,  \*   ... its groups and its sources ...
          DeviceName,  \*   ... and its devices
          Node         \* what a device stands for: a sysfs index, a bus, a path

VARIABLES pins,        \* pins_: [registered pin -> it has a mux_cb]
          groups,      \* groups_: [registered group -> its pins]
          sources,     \* sources_: [registered source -> its groups]
          devices,     \* of each kind, [registered device -> its node and mux]
          answer       \* what the last callback returned to the board

registries == <<pins, groups, sources, devices>>
boardVars == <<registries, answer>>

Kind == {"gpio", "spi", "i2c", "uart"}

\* The empty string: the device has no pin mux.
NoMux == ""

BoardInit == /\ pins = EmptyMap
             /\ groups = EmptyMap
             /\ sources = EmptyMap
             /\ devices = [kind \in Kind |-> EmptyMap]
             /\ answer = 0

\* The managers' bool, as the callback's int.
Returns(done) == answer' = IF done THEN 1 ELSE 0

BindIf(done, f, x, v) == IF done THEN Bind(f, x, v) ELSE f
-----------------------------------------------------------------------------
\* A mistake for TLC to find: a pin registered again replaces the first.
RegisterPinAgain(name, callback) ==
  /\ pins' = Bind(pins, name, callback)
  /\ Returns(TRUE)
  /\ UNCHANGED <<groups, sources, devices>>

RegisterPin(name, callback) ==
  LET done == name \notin DOMAIN pins IN
  /\ pins' = BindIf(done, pins, name, callback)
  /\ Returns(done)
  /\ UNCHANGED <<groups, sources, devices>>

\* A mistake for TLC to find: the pins are not looked up.
GroupAcceptedUnchecked(name, members) == name \notin DOMAIN groups

\* The two refusals of RegisterPinGroup.
GroupAccepted(name, members) ==
  name \notin DOMAIN groups /\ members \subseteq DOMAIN pins

RegisterPinGroup(name, members) ==
  LET done == GroupAccepted(name, members) IN
  /\ groups' = BindIf(done, groups, name, members)
  /\ Returns(done)
  /\ UNCHANGED <<pins, sources, devices>>

\* A mistake for TLC to find: the source is stored before its groups are checked.
RegisterSourceFirst(name, members) ==
  LET fresh == name \notin DOMAIN sources IN
  /\ sources' = BindIf(fresh, sources, name, members \cap DOMAIN groups)
  /\ Returns(fresh /\ members \subseteq DOMAIN groups)
  /\ UNCHANGED <<pins, groups, devices>>

RegisterSource(name, members) ==
  LET done == name \notin DOMAIN sources /\ members \subseteq DOMAIN groups IN
  /\ sources' = BindIf(done, sources, name, members)
  /\ Returns(done)
  /\ UNCHANGED <<pins, groups, devices>>

\* The group first, then the source; the group stays when the source is refused.
RegisterSimpleSource(name, members) ==
  LET grouped == GroupAccepted(name, members)
      done == grouped /\ name \notin DOMAIN sources
  IN  /\ groups' = BindIf(grouped, groups, name, members)
      /\ sources' = BindIf(done, sources, name, {name})
      /\ Returns(done)
      /\ UNCHANGED <<pins, devices>>
-----------------------------------------------------------------------------
(***************************************************************************)
(* The four managers keep their devices alike: a name is registered once,  *)
(* a mux is set of any registered device, as often as the board likes, and *)
(* nobody asks whether the mux is a registered source.                     *)
(***************************************************************************)
\* A mistake for TLC to find: a device's mux is its name to begin with.
RegisterDeviceMuxed(kind, name, node) ==
  LET done == name \notin DOMAIN devices[kind] IN
  /\ devices' = [devices EXCEPT
                   ![kind] = BindIf(done, @, name, [node |-> node, mux |-> name])]
  /\ Returns(done)
  /\ UNCHANGED <<pins, groups, sources>>

RegisterDevice(kind, name, node) ==
  LET done == name \notin DOMAIN devices[kind] IN
  /\ devices' = [devices EXCEPT
                   ![kind] = BindIf(done, @, name, [node |-> node, mux |-> NoMux])]
  /\ Returns(done)
  /\ UNCHANGED <<pins, groups, sources>>

SetDeviceMux(kind, name, mux) ==
  LET done == name \in DOMAIN devices[kind] IN
  /\ devices' = IF done THEN [devices EXCEPT ![kind][name].mux = mux] ELSE devices
  /\ Returns(done)
  /\ UNCHANGED <<pins, groups, sources>>

RegisterGpioSysfs(name, index) == RegisterDevice("gpio", name, index)
SetGpioPinMux(name, mux) == SetDeviceMux("gpio", name, mux)

RegisterSpiDevBus(name, busAndCs) == RegisterDevice("spi", name, busAndCs)
SetSpiPinMux(name, mux) == SetDeviceMux("spi", name, mux)

RegisterUartDevice(name, path) == RegisterDevice("uart", name, path)
SetUartPinMux(name, mux) == SetDeviceMux("uart", name, mux)

RegisterI2cDevBus(name, bus) == RegisterDevice("i2c", name, bus)
SetI2cPinMux(name, mux) == SetDeviceMux("i2c", name, mux)
-----------------------------------------------------------------------------
BoardNext ==
  \/ \E name \in PinName, callback \in BOOLEAN : RegisterPin(name, callback)
  \/ \E name \in SourceName, members \in SUBSET PinName :
       \/ RegisterPinGroup(name, members)
       \/ RegisterSimpleSource(name, members)
  \/ \E name \in SourceName, members \in SUBSET SourceName :
       RegisterSource(name, members)
  \/ \E name \in DeviceName, node \in Node :
       \/ RegisterGpioSysfs(name, node)
       \/ RegisterSpiDevBus(name, node)
       \/ RegisterUartDevice(name, node)
       \/ RegisterI2cDevBus(name, node)
  \/ \E name \in DeviceName, mux \in SourceName \cup PinName :
       \/ SetGpioPinMux(name, mux)
       \/ SetSpiPinMux(name, mux)
       \/ SetUartPinMux(name, mux)
       \/ SetI2cPinMux(name, mux)

\* Any board.
BoardSpec == BoardInit /\ [][BoardNext]_boardVars
-----------------------------------------------------------------------------
\* The variables hold what the code's types let them hold.
BoardTypeOK ==
  /\ pins \in [DOMAIN pins -> BOOLEAN] /\ DOMAIN pins \subseteq PinName
  /\ DOMAIN groups \subseteq SourceName
  /\ DOMAIN sources \subseteq SourceName
  /\ devices = [kind \in Kind |-> devices[kind]]
  /\ \A kind \in Kind :
       /\ DOMAIN devices[kind] \subseteq DeviceName
       /\ devices[kind] \in
            [DOMAIN devices[kind] ->
               [node : Node, mux : SourceName \cup PinName \cup {NoMux}]]
  /\ answer \in {0, 1}

\* Whatever a board registers, in whatever order, and however much of it is
\* refused: a group's pins are registered pins and a source's groups registered
\* groups.  SetSource and ReleaseSource index pins_ and groups_ with those names
\* without looking, which would make a pin that is not there.  This is what
\* PinMuxAssumption assumes of a finished board.
BoardClosed ==
  /\ groups \in [DOMAIN groups -> SUBSET DOMAIN pins]
  /\ sources \in [DOMAIN sources -> SUBSET DOMAIN groups]

\* What was registered first stays: no later call, accepted, refused or half
\* done, removes a name or changes what it stands for, but for a device's mux.
\* A pin that were replaced would come back idle while a device holds it.
RegistrationsStay ==
  [][/\ \A p \in DOMAIN pins : p \in DOMAIN pins' /\ pins'[p] = pins[p]
     /\ \A g \in DOMAIN groups : g \in DOMAIN groups' /\ groups'[g] = groups[g]
     /\ \A s \in DOMAIN sources : s \in DOMAIN sources' /\ sources'[s] = sources[s]
     /\ \A kind \in Kind : \A d \in DOMAIN devices[kind] :
          /\ d \in DOMAIN devices'[kind]
          /\ devices'[kind][d].node = devices[kind][d].node
    ]_boardVars

\* A call that is refused leaves nothing behind but what the TODO of
\* RegisterSimpleSource owns up to: a group that has a source's name, and that
\* the source of that name cannot be routed to unless it names the group.
RefusedLeavesGroupAtMost ==
  [][answer' = 0 =>
       /\ UNCHANGED <<pins, sources, devices>>
       /\ \A g \in DOMAIN groups' \ DOMAIN groups : g \in DOMAIN sources
    ]_boardVars
=============================================================================
