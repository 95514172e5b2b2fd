-------------------------------- MODULE Gpio --------------------------------
(***************************************************************************)
(* GPIO, from the service's handlers through PeripheralManagerClient,      *)
(* GpioManager and GpioPin to GpioDriverSysfs.  A pin is open when its     *)
(* handle is in the client's map; the manager keeps the driver, the driver *)
(* a descriptor of the pin's sysfs directory through which value and       *)
(* direction files are opened for the time of one access.                  *)
(***************************************************************************)
EXTENDS Service

CONSTANTS GpioPin,    \* sysfs_pins_: the pins the board registered
          GpioName,   \* the names a call may use
          GpioMux     \* the mux of each pin, NoMux for none

ASSUME GpioAssumption == /\ GpioPin \subseteq GpioName
                         /\ DOMAIN GpioMux = GpioPin

VARIABLES gpioDriver,  \* [pins with a driver_ -> its fd_]
          gpios,       \* the keys of the client's gpios_
          exported,    \* the pins the kernel has a sysfs directory for
          line         \* what the kernel drives on each pin

gpioVars == <<gpioDriver, gpios, exported, line>>
gpioUnchanged == UNCHANGED <<gpioDriver, gpios, exported, line>>

\* An input, or an output at a level.
Level == {"high", "low"}
Line == {"in"} \cup Level

GpioInit == /\ gpioDriver = EmptyMap
            /\ gpios = {}
            /\ exported \in SUBSET GpioPin
            /\ line \in [GpioPin -> Line]

(***************************************************************************)
(* GpioDriverSysfs.  ExportGpio first looks whether the pin's directory is *)
(* there: the kernel refuses to export a pin twice, and directories        *)
(* outlive the process.                                                    *)
(***************************************************************************)
KernelExports(pin) == pin \notin exported /\ TransientFd

\* A mistake for TLC to find: no look before the export.
ExportAlways(pin) == KernelExports(pin)

ExportGpio(pin) == pin \in exported \/ KernelExports(pin)

GpioDir(pin) == <<"gpio", pin>>
GpioValueFile(pin) == <<"gpiovalue", pin>>

\* An openat on the driver's descriptor reaches the files of some pin.
ReachesLine(pin) == Leads(gpioDriver[pin], "gpio") /\ TransientFd

\* Which pin's.
LineOf(pin) == fdTable[gpioDriver[pin]][2]

(***************************************************************************)
(* GpioManager::OpenGpioPin, and the handle's destructor.  The mux is      *)
(* claimed before the driver is initialised, and is not given back when    *)
(* that fails.                                                             *)
(***************************************************************************)
\* A mistake for TLC to find: the mux is not claimed.
OpenGpioPinUnclaimed(pin) ==
  \E fd \in FreeFds :
    /\ ExportGpio(pin)
    /\ exported' = exported \cup {pin}
    /\ OpenFd(fd, GpioDir(pin))
    /\ gpioDriver' = Bind(gpioDriver, pin, fd)
    /\ UNCHANGED muxVars

OpenGpioPin(pin) ==
  \E fd \in FreeFds :
    /\ ExportGpio(pin)
    /\ exported' = exported \cup {pin}
    /\ OpenFd(fd, GpioDir(pin))
    /\ gpioDriver' = Bind(gpioDriver, pin, fd)
    /\ ClaimGpioMux(GpioMux[pin])

OpenGpioPinFails(pin) ==
  /\ exported' \in IF KernelExports(pin) THEN {exported, exported \cup {pin}}
                                         ELSE {exported}
  /\ ClaimGpioMux(GpioMux[pin])
  /\ UNCHANGED <<fdTable, gpioDriver>>

\* A mistake for TLC to find: the handle is gone, driver_ was not reset.
CloseGpioPinKeepsDriver(pin) ==
  /\ DropGpioMux(GpioMux[pin])
  /\ UNCHANGED <<fdTable, gpioDriver>>

CloseGpioPin(pin) ==
  /\ DropGpioMux(GpioMux[pin])
  /\ CloseFd(gpioDriver[pin])
  /\ gpioDriver' = Unbind(gpioDriver, pin)

(***************************************************************************)
(* PeripheralManagerClient.  Every way an open can fail is EBUSY.          *)
(***************************************************************************)
ClientOpenGpio(pin) ==
  \/ /\ pin \notin GpioPin
     /\ Reply("OpenGpio", <<pin>>, "ENODEV", "none")
     /\ UNCHANGED muxVars /\ UNCHANGED fdTable /\ gpioUnchanged
  \/ /\ pin \in DOMAIN gpioDriver
     /\ Reply("OpenGpio", <<pin>>, "EBUSY", "none")
     /\ UNCHANGED muxVars /\ UNCHANGED fdTable /\ gpioUnchanged
  \/ /\ pin \in GpioPin \ DOMAIN gpioDriver
     /\ OpenGpioPinFails(pin)
     /\ Reply("OpenGpio", <<pin>>, "EBUSY", "none")
     /\ UNCHANGED <<gpios, line>>
  \/ /\ pin \in GpioPin \ DOMAIN gpioDriver
     /\ OpenGpioPin(pin)
     /\ gpios' = gpios \cup {pin}
     /\ Reply("OpenGpio", <<pin>>, "ok", "none")
     /\ UNCHANGED line

\* A mistake for TLC to find: the descriptor is closed, the handle stays.
ClientReleaseGpioClosesOnly(pin) ==
  /\ IF pin \in gpios THEN CloseFd(gpioDriver[pin]) ELSE UNCHANGED fdTable
  /\ Reply("ReleaseGpio", <<pin>>,
           IF pin \in GpioPin THEN "ok" ELSE "ENODEV", "none")
  /\ UNCHANGED muxVars /\ gpioUnchanged

\* Releasing a pin that is not open is no error.
ClientReleaseGpio(pin) ==
  /\ \/ /\ pin \notin GpioPin
        /\ Reply("ReleaseGpio", <<pin>>, "ENODEV", "none")
        /\ UNCHANGED muxVars /\ UNCHANGED <<fdTable, gpioDriver, gpios>>
     \/ /\ pin \in GpioPin
        /\ IF pin \in gpios
           THEN CloseGpioPin(pin) /\ gpios' = gpios \ {pin}
           ELSE UNCHANGED muxVars /\ UNCHANGED <<fdTable, gpioDriver, gpios>>
        /\ Reply("ReleaseGpio", <<pin>>, "ok", "none")
  /\ UNCHANGED <<exported, line>>

\* The codes of an access to an open pin's files: each opens a file first.
GpioAccess(pin) ==
  IF pin \notin gpios THEN {"EPERM"}
  ELSE {"EREMOTEIO"} \cup (IF ReachesLine(pin) THEN {"ok"} ELSE {})

ClientSetGpioDirection(pin, direction) ==
  \E code \in GpioAccess(pin) :
    /\ Reply("SetGpioDirection", <<pin>>, code, "none")
    /\ line' = IF code = "ok" THEN [line EXCEPT ![LineOf(pin)] = direction]
                              ELSE line

\* The kernel refuses a value for an input.
ClientSetGpioValue(pin, value) ==
  \E code \in GpioAccess(pin) :
    /\ code = "ok" => line[LineOf(pin)] # "in"
    /\ Reply("SetGpioValue", <<pin>>, code, "none")
    /\ line' = IF code = "ok" THEN [line EXCEPT ![LineOf(pin)] = value] ELSE line

\* Every call opens the value file once more, for the caller to poll; when it
\* cannot be opened the answer is still "ok", with the number the handler's
\* variable started with.  Nothing closes these descriptors.
ClientGetGpioPollingFd(pin) ==
  \/ /\ pin \notin gpios
     /\ Reply("GetGpioPollingFd", <<pin>>, "EPERM", "none")
     /\ UNCHANGED fdTable
  \/ /\ pin \in gpios
     /\ Reply("GetGpioPollingFd", <<pin>>, "ok", Stdin)
     /\ UNCHANGED fdTable
  \/ /\ pin \in gpios /\ ReachesLine(pin)
     /\ \E fd \in FreeFds :
          /\ OpenFd(fd, GpioValueFile(LineOf(pin)))
          /\ Reply("GetGpioPollingFd", <<pin>>, "ok", fd)
-----------------------------------------------------------------------------
(***************************************************************************)
(* The handlers.                                                           *)
(***************************************************************************)
ListGpio(request) ==
  /\ Answer("ListGpio", <<>>, Verdict(request, {"subscribe"}, {}),
            {"ok"}, "none")
  /\ UNCHANGED baseVars /\ gpioUnchanged

OpenGpio(request, pin) ==
  LET verdict == Verdict(request, {"pin"}, {"pin"}) IN
  /\ \/ verdict # "ok" /\ Reply("OpenGpio", <<pin>>, verdict, "none")
        /\ UNCHANGED muxVars /\ UNCHANGED fdTable /\ gpioUnchanged
     \/ verdict = "ok" /\ ClientOpenGpio(pin)
  /\ UNCHANGED loop

ReleaseGpio(request, pin) ==
  LET verdict == Verdict(request, {"pin"}, {"pin"}) IN
  /\ \/ verdict # "ok" /\ Reply("ReleaseGpio", <<pin>>, verdict, "none")
        /\ UNCHANGED muxVars /\ UNCHANGED fdTable /\ gpioUnchanged
     \/ verdict = "ok" /\ ClientReleaseGpio(pin)
  /\ UNCHANGED loop

\* A mistake for TLC to find: the request's word is passed on as it is.
DirectionsUntranslated == [in |-> "in", outHigh |-> "outHigh",
                           outLow |-> "outLow"]

\* direction is "in", "outHigh" or "outLow", or no direction at all.
Directions == [in |-> "in", outHigh |-> "high", outLow |-> "low"]

SetGpioDirection(request, pin, direction) ==
  LET verdict == Verdict(request, {"pin", "direction"}, {"pin", "direction"})
      known == direction \in DOMAIN Directions
  IN
  /\ \/ verdict # "ok" /\ UNCHANGED line
        /\ Reply("SetGpioDirection", <<pin>>, verdict, "none")
     \/ verdict = "ok" /\ ~ known /\ UNCHANGED line
        /\ Reply("SetGpioDirection", <<pin>>, "badValue", "none")
     \/ verdict = "ok" /\ known
        /\ ClientSetGpioDirection(pin, Directions[direction])
  /\ UNCHANGED baseVars /\ UNCHANGED <<gpioDriver, gpios, exported>>

SetGpioValue(request, pin, value) ==
  LET verdict == Verdict(request, {"pin", "value"}, {"pin", "value"}) IN
  /\ \/ verdict # "ok" /\ UNCHANGED line
        /\ Reply("SetGpioValue", <<pin>>, verdict, "none")
     \/ verdict = "ok" /\ value \notin Level /\ UNCHANGED line
        /\ Reply("SetGpioValue", <<pin>>, "badValue", "none")
     \/ verdict = "ok" /\ value \in Level /\ ClientSetGpioValue(pin, value)
  /\ UNCHANGED baseVars /\ UNCHANGED <<gpioDriver, gpios, exported>>

GetGpioValue(request, pin) ==
  /\ Answer("GetGpioValue", <<pin>>, Verdict(request, {"pin"}, {"pin"}),
            GpioAccess(pin), "received")
  /\ UNCHANGED baseVars /\ gpioUnchanged

GetDirection(request, pin) ==
  /\ Answer("getDirection", <<pin>>, Verdict(request, {"pin"}, {"pin"}),
            GpioAccess(pin), "received")
  /\ UNCHANGED baseVars /\ gpioUnchanged

GetGpioPollingFd(request, pin) ==
  LET verdict == Verdict(request, {"id"}, {"id"}) IN
  /\ \/ verdict # "ok" /\ UNCHANGED fdTable
        /\ Reply("GetGpioPollingFd", <<pin>>, verdict, "none")
     \/ verdict = "ok" /\ ClientGetGpioPollingFd(pin)
  /\ UNCHANGED muxVars /\ UNCHANGED loop /\ gpioUnchanged

GpioNext ==
  /\ running
  /\ \/ \E request \in Payloads({"subscribe"}, {}) : ListGpio(request)
     \/ \E pin \in GpioName :
          \/ \E request \in Payloads({"pin"}, {"pin"}) :
               \/ OpenGpio(request, pin)
               \/ ReleaseGpio(request, pin)
               \/ GetGpioValue(request, pin)
               \/ GetDirection(request, pin)
          \/ \E request \in Payloads({"id"}, {"id"}) :
               GetGpioPollingFd(request, pin)
          \/ \E request \in Payloads({"pin", "direction"}, {"pin", "direction"}),
                direction \in DOMAIN Directions \cup {"up"} :
               SetGpioDirection(request, pin, direction)
          \/ \E request \in Payloads({"pin", "value"}, {"pin", "value"}),
                value \in Level \cup {"up"} :
               SetGpioValue(request, pin, value)

\* What a restart does to this part: the process's maps are gone, the kernel's
\* directories and levels are not.
GpioReboot == /\ gpioDriver' = EmptyMap
              /\ gpios' = {}
              /\ UNCHANGED <<exported, line>>
-----------------------------------------------------------------------------
GpioSpecVars == <<baseVars, reply, gpioVars>>

GpioDie == Die /\ UNCHANGED <<fdTable, inUse, route, reply>> /\ gpioUnchanged

GpioSpecNext == GpioNext \/ GpioDie \/ (Reboot /\ GpioReboot)

GpioSpecInit == ServiceInit /\ GpioInit

\* The service with no other kind of device.
GpioSpec == GpioSpecInit /\ [][GpioSpecNext]_GpioSpecVars
-----------------------------------------------------------------------------
\* The variables hold what the code's types let them hold.
GpioTypeOK == /\ ServiceTypeOK
              /\ DOMAIN gpioDriver \subseteq GpioPin
              /\ \A pin \in DOMAIN gpioDriver : gpioDriver[pin] \in Fd
              /\ gpios \subseteq GpioPin
              /\ exported \subseteq GpioPin
              /\ line \in [GpioPin -> Line]

\* The client holds a handle for exactly the pins whose manager entry has a
\* driver.  GpioPin follows a raw pointer into that entry without a check: a
\* handle without a driver is a crash, a driver without a handle a pin that
\* nobody can release and every open finds busy.
GpioHandlesMatchDrivers == gpios = DOMAIN gpioDriver

\* The descriptor a driver keeps leads to its own pin's directory, at every
\* point of any mix of opens, releases, polling descriptors and restarts.
GpioDriversOwnDescriptors ==
  \A pin \in DOMAIN gpioDriver :
    /\ gpioDriver[pin] \in DOMAIN fdTable
    /\ fdTable[gpioDriver[pin]] = GpioDir(pin)

\* The level or direction of a pin changes only in a call that names that pin
\* while the pin is open: not by a release, an open, a restart, nor through
\* a descriptor that has come to lead elsewhere.
GpioLineOnlyByHolder ==
  [][\A pin \in GpioPin :
       line'[pin] # line[pin] => pin \in gpios /\ reply'.dev = <<pin>>
    ]_GpioSpecVars

\* A registered pin that is not open can be opened as long as a descriptor is
\* left: whatever a release, a failed open or a restart left behind (an
\* exported directory, a claimed mux) is no obstacle.
GpioReopenable ==
  \A pin \in GpioPin :
    running /\ pin \notin gpios /\ FreeFds # {}
      => ENABLED (OpenGpio(Object({"pin"}), pin) /\ reply'.code = "ok")

\* What an open that was answered with an error may have left behind: its pin's
\* directory, and its pin's mux.
FailedOpenLeaves ==
  \E pin \in GpioPin \ DOMAIN gpioDriver :
    /\ reply'.call = "OpenGpio" /\ reply'.dev = <<pin>>
    /\ exported' \in {exported, exported \cup {pin}}
    /\ ClaimGpioMux(GpioMux[pin])

\* A board that gives each of its GPIOs a pin of its own, with no callback.
GpioPinsApart ==
  /\ NoMux \notin Pin
  /\ \A pin \in GpioPin : GpioMux[pin] \notin MuxCallback
  /\ \A one, other \in GpioPin :
       one # other /\ GpioMux[one] \in Pin => GpioMux[one] # GpioMux[other]

\* On such a board the pin of an open GPIO stays claimed until its release,
\* whichever other opens fail and leave their own pin claimed.
GpioPinsHeld ==
  \A pin \in DOMAIN gpioDriver :
    GpioMux[pin] \in Pin => GpioMux[pin] \in inUse

\* peripheral_io.h lets a board route its pins in mux_cb and says that the
\* callback returns 0 on success: a pin the board has routed to its GPIO for a
\* device that is open is then claimed, so that no other device takes it.
GpioRoutedIsClaimed ==
  \A pin \in DOMAIN gpioDriver :
    GpioMux[pin] \in Pin /\ route[GpioMux[pin]] = RoutedToGpio
      => GpioMux[pin] \in inUse
=============================================================================
