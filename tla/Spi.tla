-------------------------------- MODULE Spi --------------------------------
(***************************************************************************)
(* SPI, from the service's handlers through PeripheralManagerClient,       *)
(* SpiManager and SpiDevice to SpiDriverSpiDev.  The driver keeps the      *)
(* clock, the delay and the word size, which go to the kernel with every   *)
(* transfer; the mode and the bit order are kept by the kernel.            *)
(***************************************************************************)
EXTENDS Service

CONSTANTS SpiBus,       \* spidev_buses_: the buses the board registered
          SpiName,      \* the names a call may use
          SpiMux,       \* the mux of each bus, NoMux for none
          MaxHz,        \* what the kernel answers to SPI_IOC_RD_MAX_SPEED_HZ
          SpiNumbers,   \* the numbers a call may carry: frequencies, delays,
                        \* word sizes, modes, transfer sizes
          SpiLengths    \* the lengths of the data a call may carry

ASSUME SpiAssumption == /\ SpiBus \subseteq SpiName
                        /\ DOMAIN SpiMux = SpiBus
                        /\ MaxHz \in Nat \ {0}
                        /\ SpiNumbers \subseteq Int
                        /\ SpiLengths \subseteq Nat

VARIABLES spiDriver,  \* [buses with a driver_ -> the driver]
          spis,       \* the keys of the client's spi_devices_
          spiChip     \* [buses -> what the kernel keeps for the chip]

spiVars == <<spiDriver, spis, spiChip>>
spiUnchanged == UNCHANGED <<spiDriver, spis, spiChip>>

SpiMode == 0 .. 3
Int16Max == 32767

SpiInit == /\ spiDriver = EmptyMap
           /\ spis = {}
           /\ spiChip \in [SpiBus -> [mode : SpiMode, lsb : BOOLEAN]]

SpiDev(bus) == <<"spi", bus>>

(***************************************************************************)
(* SpiDriverSpiDev::Init opens the device and asks for the clock limit; it *)
(* closes the device again when there is no answer.                        *)
(***************************************************************************)
FreshDriver(fd) == [fd |-> fd, hz |-> MaxHz, delay |-> 0, bits |-> 8]

SpiDriverInit(bus, fd) ==
  /\ OpenFd(fd, SpiDev(bus))
  /\ spiDriver' = Bind(spiDriver, bus, FreshDriver(fd))

\* A mistake for TLC to find: no answer, and the device stays open.
SpiDriverInitFailsOpen ==
  \E fd \in FreeFds : OpenFd(fd, <<"spi", "lost">>) /\ UNCHANGED spiDriver

SpiDriverInitFails == UNCHANGED <<fdTable, spiDriver>>

(***************************************************************************)
(* SpiManager::OpenSpiDevice, and the handle's destructor.                 *)
(***************************************************************************)
\* A mistake for TLC to find: the pins are not claimed.
OpenSpiBusUnclaimed(bus) ==
  (\E fd \in FreeFds : SpiDriverInit(bus, fd)) /\ UNCHANGED muxVars

OpenSpiBus(bus) ==
  /\ \E fd \in FreeFds : SpiDriverInit(bus, fd)
  /\ ClaimMux(SpiMux[bus])

\* A mistake for TLC to find: the descriptor is closed, driver_ was not reset.
CloseSpiBusKeepsDriver(bus) ==
  /\ DropMux(SpiMux[bus])
  /\ CloseFd(spiDriver[bus].fd)
  /\ UNCHANGED spiDriver

CloseSpiBus(bus) ==
  /\ DropMux(SpiMux[bus])
  /\ CloseFd(spiDriver[bus].fd)
  /\ spiDriver' = Unbind(spiDriver, bus)

(***************************************************************************)
(* PeripheralManagerClient.                                                *)
(***************************************************************************)
ClientOpenSpiDevice(bus) ==
  \/ /\ bus \notin SpiBus
     /\ Reply("OpenSpiDevice", <<bus>>, "ENODEV", "none")
     /\ UNCHANGED muxVars /\ UNCHANGED <<fdTable, spiDriver, spis>>
  \/ /\ bus \in DOMAIN spiDriver
     /\ Reply("OpenSpiDevice", <<bus>>, "EBUSY", "none")
     /\ UNCHANGED muxVars /\ UNCHANGED <<fdTable, spiDriver, spis>>
  \/ /\ bus \in SpiBus \ DOMAIN spiDriver
     /\ SpiDriverInitFails
     /\ Reply("OpenSpiDevice", <<bus>>, "EBUSY", "none")
     /\ UNCHANGED muxVars /\ UNCHANGED spis
  \/ /\ bus \in SpiBus \ DOMAIN spiDriver
     /\ OpenSpiBus(bus)
     /\ spis' = spis \cup {bus}
     /\ Reply("OpenSpiDevice", <<bus>>, "ok", "none")

\* A mistake for TLC to find: the descriptor is closed, the handle stays.
ClientReleaseSpiDeviceClosesOnly(bus) ==
  /\ IF bus \in spis
     THEN /\ CloseFd(spiDriver[bus].fd)
          /\ Reply("ReleaseSpiDevice", <<bus>>, "ok", "none")
     ELSE /\ Reply("ReleaseSpiDevice", <<bus>>, "EPERM", "none")
          /\ UNCHANGED fdTable
  /\ UNCHANGED muxVars /\ UNCHANGED <<spiDriver, spis>>

ClientReleaseSpiDevice(bus) ==
  \/ /\ bus \in spis
     /\ CloseSpiBus(bus)
     /\ spis' = spis \ {bus}
     /\ Reply("ReleaseSpiDevice", <<bus>>, "ok", "none")
  \/ /\ bus \notin spis
     /\ Reply("ReleaseSpiDevice", <<bus>>, "EPERM", "none")
     /\ UNCHANGED muxVars /\ UNCHANGED <<fdTable, spiDriver, spis>>

\* The codes of an ioctl on an open device.
SpiAccess(bus) ==
  IF bus \notin spis THEN {"EPERM"}
  ELSE {"EREMOTEIO"}
         \cup (IF Leads(spiDriver[bus].fd, "spi") THEN {"ok"} ELSE {})

\* The bus whose chip an ioctl on the driver's descriptor reaches.
ChipOf(bus) == fdTable[spiDriver[bus].fd][2]

\* A value SpiMode does not name selects mode 0.  spidev keeps the bit order
\* in the word that holds the mode: a new mode may reset it.
ClientSetMode(bus, mode) ==
  \E code \in SpiAccess(bus), keeps \in BOOLEAN :
    /\ Reply("SpiDeviceSetMode", <<bus>>, code, "none")
    /\ spiChip' =
         IF code = "ok"
         THEN [spiChip EXCEPT ![ChipOf(bus)] =
                 [mode |-> IF mode \in SpiMode THEN mode ELSE 0,
                  lsb |-> keeps /\ @.lsb]]
         ELSE spiChip

ClientSetBitJustification(bus, lsbFirst) ==
  \E code \in SpiAccess(bus) :
    /\ Reply("SpiDeviceSetBitJustification", <<bus>>, code, "none")
    /\ spiChip' = IF code = "ok"
                  THEN [spiChip EXCEPT ![ChipOf(bus)].lsb = lsbFirst]
                  ELSE spiChip

\* A mistake for TLC to find: the limit is not applied.
ClientSetFrequencyUncapped(bus, hz) ==
  \E code \in SpiAccess(bus) :
    /\ code = "ok" => hz > 0
    /\ Reply("SpiDeviceSetFrequency", <<bus>>, code, "none")
    /\ spiDriver' = IF code = "ok"
                    THEN [spiDriver EXCEPT ![bus].hz = hz]
                    ELSE spiDriver

\* The clock is capped by the limit; one that is not positive is EREMOTEIO.
ClientSetFrequency(bus, hz) ==
  \E code \in SpiAccess(bus) :
    /\ code = "ok" => hz > 0
    /\ Reply("SpiDeviceSetFrequency", <<bus>>, code, "none")
    /\ spiDriver' = IF code = "ok"
                    THEN [spiDriver EXCEPT ![bus].hz =
                            IF hz > MaxHz THEN MaxHz ELSE hz]
                    ELSE spiDriver

\* A mistake for TLC to find: a word size is not cut to its byte.
ClientSetBitsPerWordWide(bus, nbits) ==
  \E code \in SpiAccess(bus) :
    /\ Reply("SpiDeviceSetBitsPerWord", <<bus>>, code, "none")
    /\ spiDriver' = IF code = "ok"
                    THEN [spiDriver EXCEPT ![bus].bits = nbits]
                    ELSE spiDriver

\* The word size is a byte.
ClientSetBitsPerWord(bus, nbits) ==
  \E code \in SpiAccess(bus) :
    /\ Reply("SpiDeviceSetBitsPerWord", <<bus>>, code, "none")
    /\ spiDriver' = IF code = "ok"
                    THEN [spiDriver EXCEPT ![bus].bits = nbits % 256]
                    ELSE spiDriver

ClientSetDelay(bus, usecs) ==
  LET code == CASE bus \notin spis                 -> "EPERM"
                [] ~ (usecs \in 0 .. Int16Max) -> "EINVAL"
                [] OTHER                           -> "ok"
  IN  /\ Reply("SpiDeviceSetDelay", <<bus>>, code, "none")
      /\ spiDriver' = IF code = "ok"
                      THEN [spiDriver EXCEPT ![bus].delay = usecs]
                      ELSE spiDriver

\* What is answered for the bytes that came back is the first size bytes of
\* the request's own data; past their end the handler reads memory it does
\* not own, and may die of it.
ClientTransfer(bus, sent, size) ==
  \/ \E code \in SpiAccess(bus) \ {"ok"} :
       Reply("SpiDeviceTransfer", <<bus>>, code, "none") /\ UNCHANGED loop
  \/ /\ "ok" \in SpiAccess(bus) /\ size <= sent
     /\ Reply("SpiDeviceTransfer", <<bus>>, "ok",
              IF size = 0 THEN "none" ELSE "sent")
     /\ UNCHANGED loop
  \/ /\ "ok" \in SpiAccess(bus) /\ size > sent
     /\ \/ /\ Reply("SpiDeviceTransfer", <<bus>>, "ok", "garbage")
           /\ UNCHANGED loop
        \/ loop' = "down" /\ UNCHANGED reply
-----------------------------------------------------------------------------
(***************************************************************************)
(* The handlers.                                                           *)
(***************************************************************************)
ListSpiBuses(request) ==
  /\ Answer("ListSpiBuses", <<>>, Verdict(request, {"subscribe"}, {}),
            {"ok"}, "none")
  /\ UNCHANGED baseVars /\ spiUnchanged

OpenSpiDevice(request, bus) ==
  LET verdict == Verdict(request, {"name"}, {"name"}) IN
  /\ \/ verdict # "ok" /\ Reply("OpenSpiDevice", <<bus>>, verdict, "none")
        /\ UNCHANGED muxVars /\ UNCHANGED <<fdTable, spiDriver, spis>>
     \/ verdict = "ok" /\ ClientOpenSpiDevice(bus)
  /\ UNCHANGED <<loop, spiChip>>

ReleaseSpiDevice(request, bus) ==
  LET verdict == Verdict(request, {"name"}, {"name"}) IN
  /\ \/ verdict # "ok" /\ Reply("ReleaseSpiDevice", <<bus>>, verdict, "none")
        /\ UNCHANGED muxVars /\ UNCHANGED <<fdTable, spiDriver, spis>>
     \/ verdict = "ok" /\ ClientReleaseSpiDevice(bus)
  /\ UNCHANGED <<loop, spiChip>>

SpiDeviceSetMode(request, bus, mode) ==
  LET verdict == Verdict(request, {"name", "mode"}, {"name", "mode"}) IN
  /\ \/ verdict # "ok" /\ Reply("SpiDeviceSetMode", <<bus>>, verdict, "none")
        /\ UNCHANGED spiChip
     \/ verdict = "ok" /\ ClientSetMode(bus, mode)
  /\ UNCHANGED baseVars /\ UNCHANGED <<spiDriver, spis>>

SpiDeviceSetFrequency(request, bus, hz) ==
  LET verdict == Verdict(request, {"name", "frequency"}, {"name", "frequency"})
  IN
  /\ \/ verdict # "ok" /\ UNCHANGED spiDriver
        /\ Reply("SpiDeviceSetFrequency", <<bus>>, verdict, "none")
     \/ verdict = "ok" /\ ClientSetFrequency(bus, hz)
  /\ UNCHANGED baseVars /\ UNCHANGED <<spis, spiChip>>

SpiDeviceSetBitJustification(request, bus, lsbFirst) ==
  LET verdict == Verdict(request, {"name", "lsb_first"}, {"name", "lsb_first"})
  IN
  /\ \/ verdict # "ok" /\ UNCHANGED spiChip
        /\ Reply("SpiDeviceSetBitJustification", <<bus>>, verdict, "none")
     \/ verdict = "ok" /\ ClientSetBitJustification(bus, lsbFirst)
  /\ UNCHANGED baseVars /\ UNCHANGED <<spiDriver, spis>>

SpiDeviceSetBitsPerWord(request, bus, nbits) ==
  LET verdict == Verdict(request, {"name", "nbits"}, {"name", "nbits"}) IN
  /\ \/ verdict # "ok" /\ UNCHANGED spiDriver
        /\ Reply("SpiDeviceSetBitsPerWord", <<bus>>, verdict, "none")
     \/ verdict = "ok" /\ ClientSetBitsPerWord(bus, nbits)
  /\ UNCHANGED baseVars /\ UNCHANGED <<spis, spiChip>>

SpiDeviceSetDelay(request, bus, usecs) ==
  LET verdict == Verdict(request, {"name", "delay_usecs"}, {"name", "delay_usecs"})
  IN
  /\ \/ verdict # "ok" /\ UNCHANGED spiDriver
        /\ Reply("SpiDeviceSetDelay", <<bus>>, verdict, "none")
     \/ verdict = "ok" /\ ClientSetDelay(bus, usecs)
  /\ UNCHANGED baseVars /\ UNCHANGED <<spis, spiChip>>

\* A size below zero leaves the handler as an exception before its try: no
\* answer, and the process ends.
SpiDeviceTransfer(request, bus, sent, size) ==
  LET verdict == Verdict(request, {"size", "name", "data"}, {"name", "size"})
  IN
  /\ \/ verdict # "ok" /\ UNCHANGED loop
        /\ Reply("SpiDeviceTransfer", <<bus>>, verdict, "none")
     \/ verdict = "ok" /\ size < 0 /\ loop' = "down" /\ UNCHANGED reply
     \/ verdict = "ok" /\ size >= 0
        /\ ClientTransfer(bus, IF "data" \in request.keys THEN sent ELSE 0, size)
  /\ UNCHANGED muxVars /\ UNCHANGED fdTable /\ spiUnchanged

SpiDeviceWriteByte(request, bus) ==
  /\ Answer("SpiDeviceWriteByte", <<bus>>,
            Verdict(request, {"name", "data"}, {"name", "data"}),
            SpiAccess(bus), "none")
  /\ UNCHANGED baseVars /\ spiUnchanged

SpiDeviceWriteBuffer(request, bus) ==
  /\ Answer("SpiDeviceWriteBuffer", <<bus>>,
            Verdict(request, {"name", "data"}, {"name", "data"}),
            SpiAccess(bus), "none")
  /\ UNCHANGED baseVars /\ spiUnchanged

SpiNext ==
  /\ running
  /\ \/ \E request \in Payloads({"subscribe"}, {}) : ListSpiBuses(request)
     \/ \E bus \in SpiName :
          \/ \E request \in Payloads({"name"}, {"name"}) :
               \/ OpenSpiDevice(request, bus)
               \/ ReleaseSpiDevice(request, bus)
          \/ \E request \in Payloads({"name", "mode"}, {"name", "mode"}),
                mode \in SpiNumbers : SpiDeviceSetMode(request, bus, mode)
          \/ \E request \in Payloads({"name", "frequency"}, {"name", "frequency"}),
                hz \in SpiNumbers : SpiDeviceSetFrequency(request, bus, hz)
          \/ \E request \in Payloads({"name", "lsb_first"}, {"name", "lsb_first"}),
                lsbFirst \in BOOLEAN :
               SpiDeviceSetBitJustification(request, bus, lsbFirst)
          \/ \E request \in Payloads({"name", "nbits"}, {"name", "nbits"}),
                nbits \in SpiNumbers : SpiDeviceSetBitsPerWord(request, bus, nbits)
          \/ \E request \in Payloads({"name", "delay_usecs"},
                                     {"name", "delay_usecs"}),
                usecs \in SpiNumbers : SpiDeviceSetDelay(request, bus, usecs)
          \/ \E request \in Payloads({"size", "name", "data"}, {"name", "size"}),
                sent \in SpiLengths, size \in SpiNumbers :
               SpiDeviceTransfer(request, bus, sent, size)
          \/ \E request \in Payloads({"name", "data"}, {"name", "data"}) :
               \/ SpiDeviceWriteByte(request, bus)
               \/ SpiDeviceWriteBuffer(request, bus)

\* A restart forgets the drivers; the kernel keeps the chips' modes.
SpiReboot == /\ spiDriver' = EmptyMap
             /\ spis' = {}
             /\ UNCHANGED spiChip
-----------------------------------------------------------------------------
SpiSpecVars == <<baseVars, reply, spiVars>>

SpiDie == Die /\ UNCHANGED <<fdTable, inUse, route, reply>> /\ spiUnchanged

SpiSpecNext == SpiNext \/ SpiDie \/ (Reboot /\ SpiReboot)

SpiSpecInit == ServiceInit /\ SpiInit

\* The service with no other kind of device.
SpiSpec == SpiSpecInit /\ [][SpiSpecNext]_SpiSpecVars
-----------------------------------------------------------------------------
\* The variables hold what the code's types let them hold.
SpiTypeOK ==
  /\ ServiceTypeOK
  /\ DOMAIN spiDriver \subseteq SpiBus
  /\ \A bus \in DOMAIN spiDriver :
       spiDriver[bus] \in [fd : Fd, hz : Nat, delay : 0 .. Int16Max, bits : 0 .. 255]
  /\ spis \subseteq SpiBus
  /\ spiChip \in [SpiBus -> [mode : SpiMode, lsb : BOOLEAN]]

\* The client holds a handle for exactly the buses whose manager entry has a
\* driver: SpiDevice follows a raw pointer into that entry without a check.
SpiHandlesMatchDrivers == spis = DOMAIN spiDriver

\* The descriptor a driver keeps leads to its own bus.
SpiDriversOwnDescriptors ==
  \A bus \in DOMAIN spiDriver :
    /\ spiDriver[bus].fd \in DOMAIN fdTable
    /\ fdTable[spiDriver[bus].fd] = SpiDev(bus)

\* No transfer is sent faster than the kernel allows or with no clock at all,
\* after any mix of opens, settings and releases.
SpiSpeedCapped ==
  \A bus \in DOMAIN spiDriver : spiDriver[bus].hz \in 1 .. MaxHz

\* A chip's mode and bit order change only in a call that names its bus while
\* the bus is open: not by a release, a restart or a stale descriptor.
SpiChipOnlyByHolder ==
  [][\A bus \in SpiBus :
       spiChip'[bus] # spiChip[bus] => bus \in spis /\ reply'.dev = <<bus>>
    ]_SpiSpecVars

\* A call that is answered with an error has changed nothing: no handle, no
\* driver or setting, no descriptor, no pin.
SpiFailureChangesNothing ==
  [][running /\ running' /\ reply'.code # "ok" => UNCHANGED <<baseVars, spiVars>>
    ]_SpiSpecVars
=============================================================================
