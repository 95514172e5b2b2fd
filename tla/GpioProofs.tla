----------------------------- MODULE GpioProofs -----------------------------
(***************************************************************************)
(* For any set of pins, muxes and descriptors: the handles of the client   *)
(* and the drivers of the manager are the same pins, every driver's        *)
(* descriptor leads to its own pin, and so a pin's line changes only in a  *)
(* call that names it while it is open.                                    *)
(***************************************************************************)
EXTENDS Gpio, ServiceProofs

\* The three are inductive together: that a driver's descriptor leads to its own
\* pin is why closing one pin's cannot close another's, and that the handles
\* are the drivers is why a release closes a descriptor that is open.
GpioInv == /\ GpioTypeOK
           /\ GpioHandlesMatchDrivers
           /\ GpioDriversOwnDescriptors

\* A sysfs directory is the directory of one pin.
LEMMA GpioDirInjective ==
  ASSUME NEW p, NEW q, GpioDir(p) = GpioDir(q)
  PROVE  p = q
  BY DEF GpioDir

\* The invariant holds when the process starts for the first time.
LEMMA GpioInitInv == GpioSpecInit => GpioInv
  <1> SUFFICES ASSUME ServiceInit, GpioInit PROVE GpioInv
    BY DEF GpioSpecInit
  <1>1. KernelTypeOK
    BY EmptyMapLemma DEF ServiceInit, KernelTypeOK, EmptyMap
  <1>2. MuxTypeOK
    BY DEF ServiceInit, MuxInit, MuxTypeOK
  <1>3. ReplyTypeOK
    BY DEF ServiceInit, ReplyTypeOK, Code, Payload
  <1>4. GpioTypeOK
    BY <1>1, <1>2, <1>3, EmptyMapLemma
       DEF GpioTypeOK, ServiceTypeOK, ServiceInit, GpioInit
  <1> QED
    BY <1>4, EmptyMapLemma
       DEF GpioInv, GpioInit, GpioHandlesMatchDrivers, GpioDriversOwnDescriptors

\* A call that only answers keeps the invariant.
LEMMA GpioAnswerKeepsInv ==
  ASSUME GpioInv, ReplyTypeOK', UNCHANGED baseVars, UNCHANGED gpioVars
  PROVE  GpioInv'
  BY DEF GpioInv, GpioTypeOK, ServiceTypeOK, KernelTypeOK, MuxTypeOK,
         GpioHandlesMatchDrivers, GpioDriversOwnDescriptors, baseVars, gpioVars

\* So does one that changes a line or the pin registry.
LEMMA GpioLineKeepsInv ==
  ASSUME GpioInv, ReplyTypeOK', MuxTypeOK', exported' \subseteq GpioPin,
         line' \in [GpioPin -> Line],
         UNCHANGED <<fdTable, loop, gpioDriver, gpios>>
  PROVE  GpioInv'
  BY DEF GpioInv, GpioTypeOK, ServiceTypeOK, KernelTypeOK,
         GpioHandlesMatchDrivers, GpioDriversOwnDescriptors

\* A driver's descriptor leads to its own pin's files.
LEMMA LineOfOwn ==
  ASSUME GpioInv, NEW pin \in gpios
  PROVE  LineOf(pin) = pin
  BY DEF GpioInv, GpioHandlesMatchDrivers, GpioDriversOwnDescriptors, LineOf,
         GpioDir

\* An access to a pin's files ends in one of the codes.
LEMMA GpioAccessType ==
  ASSUME NEW pin PROVE GpioAccess(pin) \in SUBSET Code
  BY DEF GpioAccess, Code
-----------------------------------------------------------------------------
\* A successful open: the descriptor is a new one.
LEMMA OpenGpioPinKeepsInv ==
  ASSUME GpioInv, NEW pin \in GpioPin \ DOMAIN gpioDriver,
         OpenGpioPin(pin), gpios' = gpios \cup {pin}, ReplyTypeOK',
         UNCHANGED <<line, loop>>
  PROVE  GpioInv'
  <1>1. PICK fd \in FreeFds :
          /\ exported' = exported \cup {pin}
          /\ OpenFd(fd, GpioDir(pin))
          /\ gpioDriver' = Bind(gpioDriver, pin, fd)
          /\ ClaimGpioMux(GpioMux[pin])
    BY DEF OpenGpioPin
  <1>2. KernelTypeOK /\ MuxTypeOK
    BY DEF GpioInv, GpioTypeOK, ServiceTypeOK
  <1>3. /\ KernelTypeOK'
        /\ fd \in Fd /\ fd \notin DOMAIN fdTable
        /\ DOMAIN fdTable' = DOMAIN fdTable \cup {fd}
        /\ fdTable'[fd] = GpioDir(pin)
        /\ \A other \in DOMAIN fdTable : fdTable'[other] = fdTable[other]
    BY <1>1, <1>2, OpenFdLemma
  <1>4. MuxTypeOK'
    BY <1>1, <1>2, MuxStepType
  <1>5. /\ DOMAIN gpioDriver' = DOMAIN gpioDriver \cup {pin}
        /\ gpioDriver'[pin] = fd
        /\ \A p \in DOMAIN gpioDriver : gpioDriver'[p] = gpioDriver[p]
    BY <1>1 DEF Bind
  <1>6. GpioTypeOK'
    BY <1>1, <1>3, <1>4, <1>5 DEF GpioInv, GpioTypeOK, ServiceTypeOK
  <1>7. GpioHandlesMatchDrivers'
    BY <1>5 DEF GpioInv, GpioHandlesMatchDrivers
  <1>8. GpioDriversOwnDescriptors'
    <2> SUFFICES ASSUME NEW p \in DOMAIN gpioDriver'
                 PROVE  /\ gpioDriver'[p] \in DOMAIN fdTable'
                        /\ fdTable'[gpioDriver'[p]] = GpioDir(p)
      BY DEF GpioDriversOwnDescriptors
    <2>1. CASE p = pin
      BY <2>1, <1>3, <1>5
    <2>2. CASE p # pin
      <3>1. p \in DOMAIN gpioDriver /\ gpioDriver'[p] = gpioDriver[p]
        BY <2>2, <1>5
      <3> QED
        BY <3>1, <1>3 DEF GpioInv, GpioDriversOwnDescriptors
    <2> QED BY <2>1, <2>2
  <1> QED BY <1>6, <1>7, <1>8 DEF GpioInv

\* A release closes its own pin's descriptor and no other's.
LEMMA CloseGpioPinKeepsInv ==
  ASSUME GpioInv, NEW pin \in gpios,
         CloseGpioPin(pin), gpios' = gpios \ {pin}, ReplyTypeOK',
         UNCHANGED <<exported, line, loop>>
  PROVE  GpioInv'
  <1> DEFINE fd == gpioDriver[pin]
  <1>1. KernelTypeOK /\ MuxTypeOK /\ pin \in DOMAIN gpioDriver
    BY DEF GpioInv, GpioTypeOK, ServiceTypeOK, GpioHandlesMatchDrivers
  <1>2. /\ KernelTypeOK'
        /\ DOMAIN fdTable' = DOMAIN fdTable \ {fd}
        /\ \A other \in DOMAIN fdTable \ {fd} : fdTable'[other] = fdTable[other]
    BY <1>1, CloseFdLemma DEF CloseGpioPin
  <1>3. MuxTypeOK'
    BY <1>1, MuxStepType DEF CloseGpioPin
  <1>4. /\ DOMAIN gpioDriver' = DOMAIN gpioDriver \ {pin}
        /\ \A p \in DOMAIN gpioDriver \ {pin} : gpioDriver'[p] = gpioDriver[p]
    BY DEF CloseGpioPin, Unbind, Restrict
  <1>5. GpioTypeOK'
    BY <1>2, <1>3, <1>4 DEF GpioInv, GpioTypeOK, ServiceTypeOK
  <1>6. GpioHandlesMatchDrivers'
    BY <1>4 DEF GpioInv, GpioHandlesMatchDrivers
  <1>7. GpioDriversOwnDescriptors'
    <2> SUFFICES ASSUME NEW p \in DOMAIN gpioDriver'
                 PROVE  /\ gpioDriver'[p] \in DOMAIN fdTable'
                        /\ fdTable'[gpioDriver'[p]] = GpioDir(p)
      BY DEF GpioDriversOwnDescriptors
    <2>1. p \in DOMAIN gpioDriver /\ p # pin /\ gpioDriver'[p] = gpioDriver[p]
      BY <1>4
    <2>2. /\ gpioDriver[p] \in DOMAIN fdTable
          /\ fdTable[gpioDriver[p]] = GpioDir(p)
          /\ fdTable[fd] = GpioDir(pin)
      BY <1>1, <2>1 DEF GpioInv, GpioDriversOwnDescriptors
    <2>3. gpioDriver[p] # fd
      BY <2>1, <2>2, GpioDirInjective
    <2> QED BY <1>2, <2>1, <2>2, <2>3
  <1> QED BY <1>5, <1>6, <1>7 DEF GpioInv

\* A descriptor handed out to poll is a new one.
LEMMA PollingFdKeepsInv ==
  ASSUME GpioInv, NEW fd, NEW file, OpenFd(fd, file), ReplyTypeOK',
         UNCHANGED muxVars, UNCHANGED loop, UNCHANGED gpioVars
  PROVE  GpioInv'
  <1>1. /\ KernelTypeOK'
        /\ DOMAIN fdTable \subseteq DOMAIN fdTable'
        /\ \A other \in DOMAIN fdTable : fdTable'[other] = fdTable[other]
    BY OpenFdLemma DEF GpioInv, GpioTypeOK, ServiceTypeOK
  <1>2. MuxTypeOK'
    BY MuxUnchangedType DEF GpioInv, GpioTypeOK, ServiceTypeOK
  <1>3. GpioTypeOK' /\ GpioHandlesMatchDrivers'
    BY <1>1, <1>2
       DEF GpioInv, GpioTypeOK, ServiceTypeOK, GpioHandlesMatchDrivers, gpioVars
  <1>4. GpioDriversOwnDescriptors'
    BY <1>1 DEF GpioInv, GpioDriversOwnDescriptors, gpioVars
  <1> QED BY <1>3, <1>4 DEF GpioInv
-----------------------------------------------------------------------------
(***************************************************************************)
(* One lemma per handler.                                                  *)
(***************************************************************************)
\* PeripheralManagerService::ListGpio.
LEMMA ListGpioKeepsInv ==
  ASSUME GpioInv, NEW request, ListGpio(request)
  PROVE  GpioInv'
  <1>1. ReplyTypeOK'
    <2>1. {"ok"} \in SUBSET Code /\ "none" \in Payload
      BY DEF Code, Payload
    <2> QED BY <2>1, AnswerType DEF ListGpio
  <1> QED BY <1>1, GpioAnswerKeepsInv DEF ListGpio, gpioVars, gpioUnchanged

\* OpenGpio: refused, busy, failed half-way, or done.
LEMMA OpenGpioKeepsInv ==
  ASSUME GpioInv, NEW request, NEW pin, OpenGpio(request, pin)
  PROVE  GpioInv'
  <1> DEFINE verdict == Verdict(request, {"pin"}, {"pin"})
  <1>1. verdict \in Code /\ {"ok", "ENODEV", "EBUSY"} \subseteq Code
        /\ "none" \in Payload
    BY VerdictType DEF Code, Payload
  <1>2. CASE verdict # "ok"
    <2>1. ReplyTypeOK'
      BY <1>1, <1>2, ReplyType DEF OpenGpio
    <2> QED BY <1>2, <2>1, GpioAnswerKeepsInv DEF OpenGpio, baseVars, muxVars, gpioVars, gpioUnchanged
  <1>3. CASE verdict = "ok"
    <2>1. ClientOpenGpio(pin) /\ UNCHANGED loop
      BY <1>3 DEF OpenGpio
    <2>2. ReplyTypeOK'
      BY <1>1, <2>1, ReplyType DEF ClientOpenGpio
    <2>3. CASE UNCHANGED muxVars /\ UNCHANGED fdTable /\ gpioUnchanged
      BY <2>1, <2>2, <2>3, GpioAnswerKeepsInv
         DEF baseVars, muxVars, gpioVars, gpioUnchanged
    <2>4. CASE /\ pin \in GpioPin \ DOMAIN gpioDriver
               /\ OpenGpioPinFails(pin) /\ UNCHANGED <<gpios, line>>
      <3>1. MuxTypeOK'
        BY <2>4, MuxStepType DEF OpenGpioPinFails, GpioInv, GpioTypeOK, ServiceTypeOK
      <3>2. exported' \subseteq GpioPin
        BY <2>4 DEF OpenGpioPinFails, GpioInv, GpioTypeOK
      <3> QED
        BY <2>1, <2>2, <2>4, <3>1, <3>2, GpioLineKeepsInv
           DEF OpenGpioPinFails, GpioInv, GpioTypeOK
    <2>5. CASE /\ pin \in GpioPin \ DOMAIN gpioDriver /\ OpenGpioPin(pin)
               /\ gpios' = gpios \cup {pin} /\ UNCHANGED line
      BY <2>1, <2>2, <2>5, OpenGpioPinKeepsInv
    <2> QED BY <2>1, <2>3, <2>4, <2>5 DEF ClientOpenGpio
  <1> QED BY <1>2, <1>3

\* ReleaseGpio, of an open pin or of one that is not.
LEMMA ReleaseGpioKeepsInv ==
  ASSUME GpioInv, NEW request, NEW pin, ReleaseGpio(request, pin)
  PROVE  GpioInv'
  <1> DEFINE verdict == Verdict(request, {"pin"}, {"pin"})
  <1>1. verdict \in Code /\ {"ok", "ENODEV"} \subseteq Code /\ "none" \in Payload
    BY VerdictType DEF Code, Payload
  <1>2. CASE verdict # "ok"
    <2>1. ReplyTypeOK'
      BY <1>1, <1>2, ReplyType DEF ReleaseGpio
    <2> QED
      BY <1>2, <2>1, GpioAnswerKeepsInv DEF ReleaseGpio, baseVars, muxVars, gpioVars, gpioUnchanged
  <1>3. CASE verdict = "ok"
    <2>1. ClientReleaseGpio(pin) /\ UNCHANGED loop
      BY <1>3 DEF ReleaseGpio
    <2>2. ReplyTypeOK'
      BY <1>1, <2>1, ReplyType DEF ClientReleaseGpio
    <2>3. CASE pin \in gpios /\ CloseGpioPin(pin) /\ gpios' = gpios \ {pin}
      BY <2>1, <2>2, <2>3, CloseGpioPinKeepsInv DEF ClientReleaseGpio
    <2>4. CASE UNCHANGED muxVars /\ UNCHANGED <<fdTable, gpioDriver, gpios>>
      BY <2>1, <2>2, <2>4, GpioAnswerKeepsInv
         DEF ClientReleaseGpio, baseVars, muxVars, gpioVars, gpioUnchanged
    <2> QED BY <2>1, <2>3, <2>4 DEF ClientReleaseGpio
  <1> QED BY <1>2, <1>3

\* SetGpioDirection.
LEMMA SetGpioDirectionKeepsInv ==
  ASSUME GpioInv, NEW request, NEW pin, NEW direction,
         SetGpioDirection(request, pin, direction)
  PROVE  GpioInv'
  <1> DEFINE verdict == Verdict(request, {"pin", "direction"}, {"pin", "direction"})
  <1>1. verdict \in Code /\ "badValue" \in Code /\ "none" \in Payload
    BY VerdictType DEF Code, Payload
  <1>2. ReplyTypeOK' /\ line' \in [GpioPin -> Line]
    <2>1. CASE UNCHANGED line /\ ( \/ Reply("SetGpioDirection", <<pin>>, verdict, "none")
                                  \/ Reply("SetGpioDirection", <<pin>>, "badValue", "none"))
      BY <1>1, <2>1, ReplyType DEF GpioInv, GpioTypeOK
    <2>2. CASE /\ direction \in DOMAIN Directions
               /\ ClientSetGpioDirection(pin, Directions[direction])
      <3>1. Directions[direction] \in Line
        BY <2>2 DEF Directions, Line, Level
      <3> QED
        BY <1>1, <2>2, <3>1, ReplyType, GpioAccessType
           DEF ClientSetGpioDirection, GpioInv, GpioTypeOK
    <2> QED BY <2>1, <2>2 DEF SetGpioDirection
  <1>3. MuxTypeOK'
    BY MuxUnchangedType
       DEF SetGpioDirection, baseVars, muxVars, GpioInv, GpioTypeOK, ServiceTypeOK
  <1> QED
    BY <1>2, <1>3, GpioLineKeepsInv
       DEF SetGpioDirection, baseVars, GpioInv, GpioTypeOK

\* SetGpioValue.
LEMMA SetGpioValueKeepsInv ==
  ASSUME GpioInv, NEW request, NEW pin, NEW value,
         SetGpioValue(request, pin, value)
  PROVE  GpioInv'
  <1> DEFINE verdict == Verdict(request, {"pin", "value"}, {"pin", "value"})
  <1>1. verdict \in Code /\ "badValue" \in Code /\ "none" \in Payload
    BY VerdictType DEF Code, Payload
  <1>2. ReplyTypeOK' /\ line' \in [GpioPin -> Line]
    <2>1. CASE UNCHANGED line /\ ( \/ Reply("SetGpioValue", <<pin>>, verdict, "none")
                                  \/ Reply("SetGpioValue", <<pin>>, "badValue", "none"))
      BY <1>1, <2>1, ReplyType DEF GpioInv, GpioTypeOK
    <2>2. CASE value \in Level /\ ClientSetGpioValue(pin, value)
      BY <1>1, <2>2, ReplyType, GpioAccessType
         DEF ClientSetGpioValue, GpioInv, GpioTypeOK, Line
    <2> QED BY <2>1, <2>2 DEF SetGpioValue
  <1>3. MuxTypeOK'
    BY MuxUnchangedType
       DEF SetGpioValue, baseVars, muxVars, GpioInv, GpioTypeOK, ServiceTypeOK
  <1> QED
    BY <1>2, <1>3, GpioLineKeepsInv
       DEF SetGpioValue, baseVars, GpioInv, GpioTypeOK

\* GetGpioValue.
LEMMA GetGpioValueKeepsInv ==
  ASSUME GpioInv, NEW request, NEW pin, GetGpioValue(request, pin)
  PROVE  GpioInv'
  <1>1. ReplyTypeOK'
    BY AnswerType, GpioAccessType DEF GetGpioValue, Payload
  <1> QED BY <1>1, GpioAnswerKeepsInv DEF GetGpioValue, gpioVars, gpioUnchanged

\* getDirection.
LEMMA GetDirectionKeepsInv ==
  ASSUME GpioInv, NEW request, NEW pin, GetDirection(request, pin)
  PROVE  GpioInv'
  <1>1. ReplyTypeOK'
    BY AnswerType, GpioAccessType DEF GetDirection, Payload
  <1> QED BY <1>1, GpioAnswerKeepsInv DEF GetDirection, gpioVars, gpioUnchanged

\* GetGpioPollingFd, with a new descriptor or without one.
LEMMA GetGpioPollingFdKeepsInv ==
  ASSUME GpioInv, NEW request, NEW pin, GetGpioPollingFd(request, pin)
  PROVE  GpioInv'
  <1> DEFINE verdict == Verdict(request, {"id"}, {"id"})
  <1>1. /\ verdict \in Code /\ {"ok", "EPERM"} \subseteq Code
        /\ {"none", Stdin} \subseteq Payload /\ Fd \subseteq Payload
    BY VerdictType DEF Code, Payload
  <1>2. CASE \E fd \in FreeFds : /\ OpenFd(fd, GpioValueFile(LineOf(pin)))
                                /\ Reply("GetGpioPollingFd", <<pin>>, "ok", fd)
    <2>1. PICK fd \in FreeFds : /\ OpenFd(fd, GpioValueFile(LineOf(pin)))
                                /\ Reply("GetGpioPollingFd", <<pin>>, "ok", fd)
      BY <1>2
    <2>2. ReplyTypeOK'
      BY <1>1, <2>1, ReplyType DEF FreeFds
    <2> QED
      BY <2>1, <2>2, PollingFdKeepsInv DEF GetGpioPollingFd, gpioVars, gpioUnchanged
  <1>3. CASE /\ UNCHANGED fdTable
             /\ \/ Reply("GetGpioPollingFd", <<pin>>, verdict, "none")
                \/ Reply("GetGpioPollingFd", <<pin>>, "EPERM", "none")
                \/ Reply("GetGpioPollingFd", <<pin>>, "ok", Stdin)
    <2>1. ReplyTypeOK'
      BY <1>1, <1>3, ReplyType
    <2> QED
      BY <1>3, <2>1, GpioAnswerKeepsInv
         DEF GetGpioPollingFd, baseVars, muxVars, gpioVars, gpioUnchanged
  <1> QED BY <1>2, <1>3 DEF GetGpioPollingFd, ClientGetGpioPollingFd
-----------------------------------------------------------------------------
\* The end of the process leaves the maps to be read; its restart empties them.
LEMMA GpioRestartKeepsInv ==
  ASSUME GpioInv, GpioDie \/ (Reboot /\ GpioReboot)
  PROVE  GpioInv'
  <1>1. CASE GpioDie
    BY <1>1
       DEF GpioDie, Die, gpioUnchanged, GpioInv, GpioTypeOK, ServiceTypeOK,
           KernelTypeOK, MuxTypeOK, ReplyTypeOK, GpioHandlesMatchDrivers,
           GpioDriversOwnDescriptors
  <1>2. CASE Reboot /\ GpioReboot
    <2>1. KernelTypeOK'
      BY <1>2 DEF Reboot, KernelTypeOK, EmptyMap
    <2>2. MuxTypeOK' /\ ReplyTypeOK'
      BY <1>2 DEF Reboot, MuxTypeOK, ReplyTypeOK, GpioInv, GpioTypeOK, ServiceTypeOK
    <2>3. DOMAIN gpioDriver' = {} /\ gpios' = {} /\ UNCHANGED <<exported, line>>
      BY <1>2, EmptyMapLemma DEF GpioReboot
    <2>4. GpioTypeOK'
      BY <1>2, <2>1, <2>2, <2>3 DEF Reboot, GpioInv, GpioTypeOK, ServiceTypeOK
    <2> QED
      BY <2>3, <2>4
         DEF GpioInv, GpioHandlesMatchDrivers, GpioDriversOwnDescriptors
  <1> QED BY <1>1, <1>2

\* Every step of GPIO keeps the invariant, whatever the pins and muxes.
LEMMA GpioStepKeepsInv ==
  ASSUME GpioInv, GpioNext
  PROVE  GpioInv'
  <1>1. CASE \E request : ListGpio(request)
    BY <1>1, ListGpioKeepsInv
  <1>2. CASE \E request, pin : OpenGpio(request, pin)
    BY <1>2, OpenGpioKeepsInv
  <1>3. CASE \E request, pin : ReleaseGpio(request, pin)
    BY <1>3, ReleaseGpioKeepsInv
  <1>4. CASE \E request, pin : GetGpioValue(request, pin)
    BY <1>4, GetGpioValueKeepsInv
  <1>5. CASE \E request, pin : GetDirection(request, pin)
    BY <1>5, GetDirectionKeepsInv
  <1>6. CASE \E request, pin : GetGpioPollingFd(request, pin)
    BY <1>6, GetGpioPollingFdKeepsInv
  <1>7. CASE \E request, pin, direction : SetGpioDirection(request, pin, direction)
    BY <1>7, SetGpioDirectionKeepsInv
  <1>8. CASE \E request, pin, value : SetGpioValue(request, pin, value)
    BY <1>8, SetGpioValueKeepsInv
  <1> QED
    BY <1>1, <1>2, <1>3, <1>4, <1>5, <1>6, <1>7, <1>8 DEF GpioNext

\* The invariant is inductive: a step or a stutter keeps it.
LEMMA GpioNextKeepsInv ==
  ASSUME GpioInv, [GpioSpecNext]_GpioSpecVars
  PROVE  GpioInv'
  <1>1. CASE UNCHANGED GpioSpecVars
    BY <1>1
       DEF GpioSpecVars, baseVars, gpioVars, GpioInv, GpioTypeOK, ServiceTypeOK,
           KernelTypeOK, MuxTypeOK, ReplyTypeOK, GpioHandlesMatchDrivers,
           GpioDriversOwnDescriptors
  <1> QED
    BY <1>1, GpioStepKeepsInv, GpioRestartKeepsInv DEF GpioSpecNext

\* The invariant holds throughout: of every board and every number of
\* descriptors, what MCGpio shows of one.
THEOREM GpioInvariant == GpioSpec => []GpioInv
  <1>1. GpioSpecInit => GpioInv
    BY GpioInitInv
  <1>2. GpioInv /\ [GpioSpecNext]_GpioSpecVars => GpioInv'
    BY GpioNextKeepsInv
  <1> QED BY <1>1, <1>2, PTL DEF GpioSpec

\* GPIO's variables keep their types.
THEOREM GpioTypeCorrect == GpioSpec => []GpioTypeOK
  <1>1. GpioInv => GpioTypeOK
    BY DEF GpioInv
  <1> QED BY <1>1, GpioInvariant, PTL

\* The client's handles are the manager's drivers: the raw pointer GpioPin
\* follows without a check always leads to a driver.
THEOREM GpioHandlesCorrect == GpioSpec => []GpioHandlesMatchDrivers
  <1>1. GpioInv => GpioHandlesMatchDrivers
    BY DEF GpioInv
  <1> QED BY <1>1, GpioInvariant, PTL

\* The descriptor of a driver leads to its own pin's directory, however many
\* pins are opened, released and polled over however few descriptors.
THEOREM GpioDescriptorsCorrect == GpioSpec => []GpioDriversOwnDescriptors
  <1>1. GpioInv => GpioDriversOwnDescriptors
    BY DEF GpioInv
  <1> QED BY <1>1, GpioInvariant, PTL
-----------------------------------------------------------------------------
\* What GpioLineOnlyByHolder says of one step.
LineStep ==
  \A pin \in GpioPin :
    line'[pin] # line[pin] => pin \in gpios /\ reply'.dev = <<pin>>

\* A call that sets a line sets the one of the pin it names, which is open:
\* the access has succeeded, so there is a handle, and the handle's driver has
\* the descriptor of its own pin.
LEMMA LineSetByHolder ==
  ASSUME GpioInv, NEW call, NEW p, NEW v, NEW code \in GpioAccess(p),
         Reply(call, <<p>>, code, "none"),
         line' = IF code = "ok" THEN [line EXCEPT ![LineOf(p)] = v] ELSE line
  PROVE  LineStep
  <1>1. CASE code # "ok"
    BY <1>1 DEF LineStep
  <1>2. CASE code = "ok"
    <2>1. p \in gpios
      BY <1>2 DEF GpioAccess
    <2>2. line' = [line EXCEPT ![p] = v]
      BY <1>2, <2>1, LineOfOwn
    <2>3. \A pin \in GpioPin : pin # p => line'[pin] = line[pin]
      BY <2>2 DEF GpioInv, GpioTypeOK
    <2>4. reply'.dev = <<p>>
      BY DEF Reply
    <2> QED BY <2>1, <2>3, <2>4 DEF LineStep
  <1> QED BY <1>1, <1>2

\* Only SetGpioDirection and SetGpioValue set a line; no other step does.
LEMMA GpioNextLineStep ==
  ASSUME GpioInv, [GpioSpecNext]_GpioSpecVars
  PROVE  LineStep
  <1>1. CASE UNCHANGED line
    BY <1>1 DEF LineStep
  <1>2. CASE \E request, pin, direction : SetGpioDirection(request, pin, direction)
    <2>1. PICK request, pin, direction : SetGpioDirection(request, pin, direction)
      BY <1>2
    <2>2. UNCHANGED line \/ ClientSetGpioDirection(pin, Directions[direction])
      BY <2>1 DEF SetGpioDirection
    <2> QED
      BY <1>1, <2>2, LineSetByHolder DEF ClientSetGpioDirection
  <1>3. CASE \E request, pin, value : SetGpioValue(request, pin, value)
    <2>1. PICK request, pin, value : SetGpioValue(request, pin, value)
      BY <1>3
    <2>2. UNCHANGED line \/ ClientSetGpioValue(pin, value)
      BY <2>1 DEF SetGpioValue
    <2> QED
      BY <1>1, <2>2, LineSetByHolder DEF ClientSetGpioValue
  <1>4. CASE \E request : ListGpio(request)
    BY <1>1, <1>4 DEF ListGpio, gpioUnchanged
  <1>5. CASE \E request, pin : OpenGpio(request, pin)
    BY <1>1, <1>5 DEF OpenGpio, ClientOpenGpio, gpioUnchanged
  <1>6. CASE \E request, pin : ReleaseGpio(request, pin)
    BY <1>1, <1>6 DEF ReleaseGpio, ClientReleaseGpio, gpioUnchanged
  <1>7. CASE \E request, pin : \/ GetGpioValue(request, pin)
                               \/ GetDirection(request, pin)
                               \/ GetGpioPollingFd(request, pin)
    BY <1>1, <1>7 DEF GetGpioValue, GetDirection, GetGpioPollingFd, gpioUnchanged
  <1>8. CASE GpioDie \/ (Reboot /\ GpioReboot) \/ UNCHANGED GpioSpecVars
    BY <1>1, <1>8 DEF GpioDie, GpioReboot, gpioUnchanged, GpioSpecVars, gpioVars
  <1> QED
    BY <1>2, <1>3, <1>4, <1>5, <1>6, <1>7, <1>8 DEF GpioSpecNext, GpioNext

\* A pin's level and direction change only in a call that names the pin while it
\* is open: for every board, what GpioLineOnlyByHolder says.
THEOREM GpioLinesCorrect == GpioSpec => GpioLineOnlyByHolder
  <1>1. GpioInv /\ [GpioSpecNext]_GpioSpecVars => [LineStep]_GpioSpecVars
    BY GpioNextLineStep
  <1> QED BY <1>1, GpioInvariant, PTL DEF GpioSpec, GpioLineOnlyByHolder, LineStep
-----------------------------------------------------------------------------
\* What a call may do to the pins, on a board that shares none: an open, which
\* may fail, claims its own; a release gives up its own.
LEMMA GpioPinEffects ==
  ASSUME GpioInv, GpioNext
  PROVE  \/ UNCHANGED <<inUse, gpioDriver>>
         \/ \E pin \in GpioPin : /\ ClaimGpioMux(GpioMux[pin])
                               /\ DOMAIN gpioDriver' \subseteq DOMAIN gpioDriver \cup {pin}
         \/ \E pin \in GpioPin : /\ DropGpioMux(GpioMux[pin])
                               /\ DOMAIN gpioDriver' = DOMAIN gpioDriver \ {pin}
  <1>1. CASE \E request, pin : OpenGpio(request, pin)
    BY <1>1 DEF OpenGpio, ClientOpenGpio, OpenGpioPin, OpenGpioPinFails, Bind, muxVars,
                gpioUnchanged
  <1>2. CASE \E request, pin : ReleaseGpio(request, pin)
    BY <1>2 DEF ReleaseGpio, ClientReleaseGpio, CloseGpioPin, Unbind, Restrict, muxVars,
                gpioUnchanged, GpioInv, GpioTypeOK
  <1>3. CASE \E request, pin : GetGpioPollingFd(request, pin)
    BY <1>3 DEF GetGpioPollingFd, ClientGetGpioPollingFd, muxVars, gpioUnchanged
  <1>4. CASE \/ \E request : ListGpio(request)
             \/ \E request, pin : GetGpioValue(request, pin) \/ GetDirection(request, pin)
    BY <1>4 DEF ListGpio, GetGpioValue, GetDirection, baseVars, gpioUnchanged
  <1>5. CASE \/ \E request, pin, direction : SetGpioDirection(request, pin, direction)
             \/ \E request, pin, value : SetGpioValue(request, pin, value)
    BY <1>5 DEF SetGpioDirection, SetGpioValue, baseVars
  <1> QED BY <1>1, <1>2, <1>3, <1>4, <1>5 DEF GpioNext

\* An open GPIO has its pin: the pins of others are others.
LEMMA GpioNextKeepsPins ==
  ASSUME GpioPinsApart, GpioInv, GpioPinsHeld, [GpioSpecNext]_GpioSpecVars
  PROVE  GpioPinsHeld'
  <1>1. CASE UNCHANGED <<inUse, gpioDriver>>
    BY <1>1 DEF GpioPinsHeld
  <1>2. ASSUME NEW pin \in GpioPin, ClaimGpioMux(GpioMux[pin]),
               DOMAIN gpioDriver' \subseteq DOMAIN gpioDriver \cup {pin}
        PROVE  GpioPinsHeld'
    <2>1. inUse \subseteq inUse' /\ (GpioMux[pin] \in Pin => GpioMux[pin] \in inUse')
      BY <1>2 DEF ClaimGpioMux, SetGpio, GpioPinsApart, muxVars
    <2> QED BY <1>2, <2>1 DEF GpioPinsHeld
  <1>3. ASSUME NEW pin \in GpioPin, DropGpioMux(GpioMux[pin]),
               DOMAIN gpioDriver' = DOMAIN gpioDriver \ {pin}
        PROVE  GpioPinsHeld'
    <2>1. inUse \ {GpioMux[pin]} \subseteq inUse'
      BY <1>3 DEF DropGpioMux, ReleaseGpioMux, muxVars
    <2>2. \A other \in DOMAIN gpioDriver \ {pin} :
            GpioMux[other] \in Pin => GpioMux[other] # GpioMux[pin]
      BY DEF GpioPinsApart, GpioInv, GpioTypeOK
    <2> QED BY <1>3, <2>1, <2>2 DEF GpioPinsHeld
  <1>4. CASE Reboot /\ GpioReboot
    BY <1>4, EmptyMapLemma DEF GpioReboot, GpioPinsHeld
  <1>5. CASE GpioDie \/ UNCHANGED GpioSpecVars
    BY <1>1, <1>5 DEF GpioDie, gpioUnchanged, GpioSpecVars, baseVars, gpioVars
  <1> QED
    BY <1>1, <1>2, <1>3, <1>4, <1>5, GpioPinEffects DEF GpioSpecNext

\* On every board whose GPIOs share no pins, an open GPIO has its pin, although
\* a failed open leaves its own claimed and releases give pins up unasked.
THEOREM GpioPinsKept ==
  ASSUME GpioPinsApart
  PROVE  GpioSpec => []GpioPinsHeld
  <1>1. GpioSpecInit => GpioPinsHeld
    BY EmptyMapLemma DEF GpioSpecInit, GpioInit, GpioPinsHeld
  <1>2. GpioInv /\ GpioPinsHeld /\ [GpioSpecNext]_GpioSpecVars => GpioPinsHeld'
    BY GpioNextKeepsPins
  <1> QED BY <1>1, <1>2, GpioInvariant, PTL DEF GpioSpec
-----------------------------------------------------------------------------
\* A step that ends in an answer with an error: no handle, driver, descriptor
\* or line has changed, and only an open may have left something behind.
GpioFailureStep ==
  running /\ running' /\ reply'.code # "ok"
    => /\ UNCHANGED <<fdTable, gpioDriver, gpios, line>>
       /\ UNCHANGED <<muxVars, exported>> \/ FailedOpenLeaves

\* OpenGpio: each way to fail comes before the driver is stored, and all but a
\* failure of the driver before anything is done.
LEMMA OpenGpioFailureStep ==
  ASSUME NEW request, NEW pin, OpenGpio(request, pin)
  PROVE  GpioFailureStep
  <1>1. CASE UNCHANGED muxVars /\ UNCHANGED fdTable /\ gpioUnchanged
    BY <1>1 DEF GpioFailureStep, gpioUnchanged
  <1>2. CASE /\ pin \in GpioPin \ DOMAIN gpioDriver /\ OpenGpioPinFails(pin)
             /\ Reply("OpenGpio", <<pin>>, "EBUSY", "none")
             /\ UNCHANGED <<gpios, line>>
    <2>1. reply'.call = "OpenGpio" /\ reply'.dev = <<pin>>
      BY <1>2 DEF Reply
    <2>2. /\ exported' \in {exported, exported \cup {pin}}
          /\ ClaimGpioMux(GpioMux[pin]) /\ UNCHANGED <<fdTable, gpioDriver>>
      BY <1>2 DEF OpenGpioPinFails
    <2>3. FailedOpenLeaves
      BY <1>2, <2>1, <2>2 DEF FailedOpenLeaves
    <2> QED BY <1>2, <2>2, <2>3 DEF GpioFailureStep
  <1>3. CASE Reply("OpenGpio", <<pin>>, "ok", "none")
    BY <1>3 DEF Reply, GpioFailureStep
  <1> QED BY <1>1, <1>2, <1>3 DEF OpenGpio, ClientOpenGpio

\* ReleaseGpio: a name that is no pin is refused before a handle is looked for.
LEMMA ReleaseGpioFailureStep ==
  ASSUME NEW request, NEW pin, ReleaseGpio(request, pin)
  PROVE  GpioFailureStep
  <1>1. CASE /\ UNCHANGED muxVars /\ UNCHANGED <<fdTable, gpioDriver, gpios>>
             /\ UNCHANGED <<exported, line>>
    BY <1>1 DEF GpioFailureStep
  <1>2. CASE Reply("ReleaseGpio", <<pin>>, "ok", "none")
    BY <1>2 DEF Reply, GpioFailureStep
  <1> QED BY <1>1, <1>2 DEF ReleaseGpio, ClientReleaseGpio, gpioUnchanged

\* SetGpioDirection, SetGpioValue and GetGpioPollingFd change something where
\* they answer "ok".
LEMMA GpioAccessFailureStep ==
  ASSUME NEW request, NEW pin, NEW v,
         \/ SetGpioDirection(request, pin, v)
         \/ SetGpioValue(request, pin, v)
         \/ GetGpioPollingFd(request, pin)
  PROVE  GpioFailureStep
  <1>1. CASE SetGpioDirection(request, pin, v)
    <2>1. reply'.code = "ok" \/ UNCHANGED line
      BY <1>1 DEF SetGpioDirection, ClientSetGpioDirection, Reply
    <2> QED
      BY <1>1, <2>1 DEF SetGpioDirection, GpioFailureStep, baseVars, muxVars
  <1>2. CASE SetGpioValue(request, pin, v)
    <2>1. reply'.code = "ok" \/ UNCHANGED line
      BY <1>2 DEF SetGpioValue, ClientSetGpioValue, Reply
    <2> QED
      BY <1>2, <2>1 DEF SetGpioValue, GpioFailureStep, baseVars, muxVars
  <1>3. CASE GetGpioPollingFd(request, pin)
    <2>1. reply'.code = "ok" \/ UNCHANGED fdTable
      BY <1>3 DEF GetGpioPollingFd, ClientGetGpioPollingFd, Reply
    <2> QED
      BY <1>3, <2>1 DEF GetGpioPollingFd, GpioFailureStep, gpioUnchanged
  <1> QED BY <1>1, <1>2, <1>3

\* Every step of GPIO, with the end of the process and its restart.
LEMMA GpioNextFailureStep ==
  ASSUME [GpioSpecNext]_GpioSpecVars
  PROVE  GpioFailureStep
  <1>1. CASE UNCHANGED GpioSpecVars
    BY <1>1 DEF GpioSpecVars, baseVars, muxVars, gpioVars, GpioFailureStep
  <1>2. CASE \E request, pin : OpenGpio(request, pin)
    BY <1>2, OpenGpioFailureStep
  <1>3. CASE \E request, pin : ReleaseGpio(request, pin)
    BY <1>3, ReleaseGpioFailureStep
  <1>4. CASE \E request, pin, v : \/ SetGpioDirection(request, pin, v)
                                  \/ SetGpioValue(request, pin, v)
                                  \/ GetGpioPollingFd(request, pin)
    BY <1>4, GpioAccessFailureStep
  <1>5. CASE \/ \E request : ListGpio(request)
             \/ \E request, pin : \/ GetGpioValue(request, pin)
                                  \/ GetDirection(request, pin)
    BY <1>5 DEF ListGpio, GetGpioValue, GetDirection, baseVars, muxVars,
                gpioUnchanged, GpioFailureStep
  <1>6. CASE GpioDie \/ Reboot
    BY <1>6 DEF GpioDie, Die, Reboot, GpioFailureStep, running, alive
  <1> QED
    BY <1>1, <1>2, <1>3, <1>4, <1>5, <1>6 DEF GpioSpecNext, GpioNext

\* A GPIO call that is answered with an error has changed no handle, driver,
\* descriptor or line, on any board; if it was an open it may have exported its
\* own pin and claimed its own mux, and nothing else is left behind.
THEOREM GpioFailureCorrect == GpioSpec => [][GpioFailureStep]_GpioSpecVars
  <1>1. [GpioSpecNext]_GpioSpecVars => [GpioFailureStep]_GpioSpecVars
    BY GpioNextFailureStep
  <1> QED BY <1>1, PTL DEF GpioSpec
=============================================================================
