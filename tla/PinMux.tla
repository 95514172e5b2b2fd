------------------------------- MODULE PinMux -------------------------------
(***************************************************************************)
(* PinMuxManager: the one registry of the board's pins that the GPIO, SPI, *)
(* I2C and UART managers share.  The registries (pins_, groups_, sources_) *)
(* are filled while the board support package registers and never change   *)
(* afterwards: they are constants here.  What changes is Pin::in_use, and  *)
(* what the board was last told to route to a pin through its callback.    *)
(*                                                                         *)
(* No claim has an owner: SetSource and SetGpio tell their caller whether  *)
(* the pins were free, ReleaseSource and ReleaseGpio believe theirs.       *)
(***************************************************************************)
EXTENDS Integers

CONSTANTS Pin,           \* pins_: the registered pins
          Group,         \* groups_: the registered pin groups ...
          GroupPins,     \*   ... and the pins of each
          Source,        \* sources_: the registered sources ...
          SourceGroups,  \*   ... and the groups each may be routed to
          MuxCallback    \* the pins registered with a mux_cb

\* RegisterPinGroup and RegisterSource refuse names that are not registered.
RegistriesClosed ==
  /\ GroupPins \in [Group -> SUBSET Pin]
  /\ SourceGroups \in [Source -> SUBSET Group]
  /\ MuxCallback \subseteq Pin

ASSUME PinMuxAssumption == RegistriesClosed

VARIABLES inUse,         \* the pins whose in_use is true
          route          \* what the board routed each pin to

muxVars == <<inUse, route>>

\* The empty string: the device has no pin mux.
NoMux == ""

Unrouted == "unrouted"
RoutedToGpio == "gpio"

MuxInit == /\ inUse = {}
           /\ route = [p \in Pin |-> Unrouted]

MuxTypeOK == /\ inUse \subseteq Pin
             /\ route \in [Pin -> Source \cup {Unrouted, RoutedToGpio}]

\* What SetSource and ReleaseSource check of the names they are given.
Registered(source, group) == source \in Source /\ group \in SourceGroups[source]

\* SetSource: all the pins of the group, or none.  The callback of each pin
\* may fail; nothing looks at its result.
SetSource(source, group) ==
  IF Registered(source, group) /\ GroupPins[group] \cap inUse = {}
  THEN /\ inUse' = inUse \cup GroupPins[group]
       /\ \E done \in SUBSET (GroupPins[group] \cap MuxCallback) :
            route' = [p \in Pin |-> IF p \in done THEN source ELSE route[p]]
  ELSE UNCHANGED muxVars

\* ReleaseSource: the pins are idle afterwards, whoever had claimed them.
ReleaseSource(source, group) ==
  /\ inUse' = IF Registered(source, group) THEN inUse \ GroupPins[group]
                                           ELSE inUse
  /\ UNCHANGED route

\* SetGpio: a callback says 0 when it has routed the pin and an errno when
\* it has not (peripheral_io.h); SetGpio takes 0 for a failure.
SetGpio(pin) ==
  \E status \in {0, 1} :
    LET free == pin \in Pin /\ pin \notin inUse
        asks == free /\ pin \in MuxCallback
    IN  /\ inUse' = IF free /\ (asks => status # 0) THEN inUse \cup {pin}
                                                    ELSE inUse
        /\ route' = IF asks /\ status = 0
                    THEN [route EXCEPT ![pin] = RoutedToGpio]
                    ELSE route

\* ReleaseGpio.
ReleaseGpioMux(pin) ==
  /\ inUse' = IF pin \in Pin THEN inUse \ {pin} ELSE inUse
  /\ UNCHANGED route

\* The managers' use of the above: a device without a mux leaves it alone, one
\* with a mux names the source and the group alike (SetPinMux).
ClaimMux(mux) ==
  IF mux = NoMux THEN UNCHANGED muxVars ELSE SetSource(mux, mux)

DropMux(mux) ==
  IF mux = NoMux THEN UNCHANGED muxVars ELSE ReleaseSource(mux, mux)

ClaimGpioMux(mux) ==
  IF mux = NoMux THEN UNCHANGED muxVars ELSE SetGpio(mux)

DropGpioMux(mux) ==
  IF mux = NoMux THEN UNCHANGED muxVars ELSE ReleaseGpioMux(mux)

\* The pins a device with this mux claims.
SourcePins(mux) == IF Registered(mux, mux) THEN GroupPins[mux] ELSE {}
=============================================================================
