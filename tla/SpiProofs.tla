----------------------------- MODULE SpiProofs -----------------------------
(***************************************************************************)
(* For any set of buses, muxes and descriptors, any clock limit and any    *)
(* numbers a call may carry: handles, drivers and descriptors agree, no    *)
(* driver's clock is above the limit, a chip's mode changes only in a call *)
(* that names its bus while it is open, and an error has changed nothing.  *)
(***************************************************************************)
EXTENDS Spi, ServiceProofs

\* Inductive together: see GpioProofs of the first three; the limit is the
\* value of every fresh driver and the cap of every later one.
SpiInv == /\ SpiTypeOK
          /\ SpiHandlesMatchDrivers
          /\ SpiDriversOwnDescriptors
          /\ SpiSpeedCapped

Chip == [mode : SpiMode, lsb : BOOLEAN]
DriverRecord == [fd : Fd, hz : Nat, delay : 0 .. Int16Max, bits : 0 .. 255]

\* The invariant holds when the process starts for the first time.
LEMMA SpiInitInv == SpiSpecInit => SpiInv
  <1> SUFFICES ASSUME ServiceInit, SpiInit PROVE SpiInv
    BY DEF SpiSpecInit
  <1>1. KernelTypeOK
    BY EmptyMapLemma DEF ServiceInit, KernelTypeOK, EmptyMap
  <1>2. MuxTypeOK
    BY DEF ServiceInit, MuxInit, MuxTypeOK
  <1>3. ReplyTypeOK
    BY DEF ServiceInit, ReplyTypeOK, Code, Payload
  <1>4. SpiTypeOK
    BY <1>1, <1>2, <1>3, EmptyMapLemma
       DEF SpiTypeOK, ServiceTypeOK, ServiceInit, SpiInit
  <1> QED
    BY <1>4, EmptyMapLemma
       DEF SpiInv, SpiInit, SpiHandlesMatchDrivers, SpiDriversOwnDescriptors,
           SpiSpeedCapped

\* A call that only answers, or dies of its answer, keeps the invariant.
LEMMA SpiAnswerKeepsInv ==
  ASSUME SpiInv, ReplyTypeOK', loop' \in {loop, "down"}, UNCHANGED fdTable,
         UNCHANGED muxVars, UNCHANGED spiVars
  PROVE  SpiInv'
  BY DEF SpiInv, SpiTypeOK, ServiceTypeOK, KernelTypeOK, MuxTypeOK, muxVars,
         SpiHandlesMatchDrivers, SpiDriversOwnDescriptors, SpiSpeedCapped, spiVars

\* So does one that sets what the kernel keeps for a chip.
LEMMA SpiChipKeepsInv ==
  ASSUME SpiInv, ReplyTypeOK', spiChip' \in [SpiBus -> Chip],
         UNCHANGED baseVars, UNCHANGED <<spiDriver, spis>>
  PROVE  SpiInv'
  BY DEF SpiInv, SpiTypeOK, ServiceTypeOK, KernelTypeOK, MuxTypeOK, baseVars,
         SpiHandlesMatchDrivers, SpiDriversOwnDescriptors, SpiSpeedCapped, Chip

\* And one that sets what a driver keeps, but not its descriptor.
LEMMA SpiSettingKeepsInv ==
  ASSUME SpiInv, ReplyTypeOK', DOMAIN spiDriver' = DOMAIN spiDriver,
         \A bus \in DOMAIN spiDriver :
           /\ spiDriver'[bus] \in DriverRecord
           /\ spiDriver'[bus].fd = spiDriver[bus].fd
           /\ spiDriver'[bus].hz \in 1 .. MaxHz,
         UNCHANGED baseVars, UNCHANGED <<spis, spiChip>>
  PROVE  SpiInv'
  <1>1. SpiTypeOK'
    BY DEF SpiInv, SpiTypeOK, ServiceTypeOK, KernelTypeOK, MuxTypeOK, baseVars,
           DriverRecord
  <1>2. SpiHandlesMatchDrivers' /\ SpiSpeedCapped'
    BY DEF SpiInv, SpiHandlesMatchDrivers, SpiSpeedCapped
  <1>3. SpiDriversOwnDescriptors'
    BY DEF SpiInv, SpiDriversOwnDescriptors, baseVars
  <1> QED BY <1>1, <1>2, <1>3 DEF SpiInv

\* An ioctl on an open device ends in one of the codes.
LEMMA SpiAccessType ==
  ASSUME NEW bus PROVE SpiAccess(bus) \in SUBSET Code
  BY DEF SpiAccess, Code

\* A driver's descriptor leads to its own bus's chip.
LEMMA ChipOfOwn ==
  ASSUME SpiInv, NEW bus \in spis
  PROVE  ChipOf(bus) = bus /\ bus \in DOMAIN spiDriver /\ bus \in SpiBus
  BY DEF SpiInv, SpiTypeOK, SpiHandlesMatchDrivers, SpiDriversOwnDescriptors,
         ChipOf, SpiDev

\* A device file is the file of one bus.
LEMMA SpiDevInjective ==
  ASSUME NEW b, NEW c, SpiDev(b) = SpiDev(c)
  PROVE  b = c
  BY DEF SpiDev
-----------------------------------------------------------------------------
\* A successful open: the descriptor is a new one, the clock is the limit.
LEMMA OpenSpiBusKeepsInv ==
  ASSUME SpiInv, NEW bus \in SpiBus \ DOMAIN spiDriver,
         OpenSpiBus(bus), spis' = spis \cup {bus}, ReplyTypeOK',
         UNCHANGED <<loop, spiChip>>
  PROVE  SpiInv'
  <1>1. PICK fd \in FreeFds : SpiDriverInit(bus, fd)
    BY DEF OpenSpiBus
  <1>2. KernelTypeOK /\ MuxTypeOK
    BY DEF SpiInv, SpiTypeOK, ServiceTypeOK
  <1>3. /\ KernelTypeOK'
        /\ fd \in Fd /\ fd \notin DOMAIN fdTable
        /\ DOMAIN fdTable' = DOMAIN fdTable \cup {fd}
        /\ fdTable'[fd] = SpiDev(bus)
        /\ \A other \in DOMAIN fdTable : fdTable'[other] = fdTable[other]
    BY <1>1, <1>2, OpenFdLemma DEF SpiDriverInit
  <1>4. MuxTypeOK'
    BY <1>2, MuxStepType DEF OpenSpiBus
  <1>5. /\ DOMAIN spiDriver' = DOMAIN spiDriver \cup {bus}
        /\ spiDriver'[bus] = FreshDriver(fd)
        /\ \A b \in DOMAIN spiDriver : spiDriver'[b] = spiDriver[b]
    BY <1>1 DEF SpiDriverInit, Bind
  <1>6. /\ FreshDriver(fd) \in DriverRecord
        /\ FreshDriver(fd).fd = fd
        /\ FreshDriver(fd).hz \in 1 .. MaxHz
    BY <1>3, SpiAssumption DEF FreshDriver, DriverRecord, Int16Max
  <1>7. SpiTypeOK'
    BY <1>3, <1>4, <1>5, <1>6
       DEF SpiInv, SpiTypeOK, ServiceTypeOK, DriverRecord
  <1>8. SpiHandlesMatchDrivers'
    BY <1>5 DEF SpiInv, SpiHandlesMatchDrivers
  <1>9. SpiDriversOwnDescriptors' /\ SpiSpeedCapped'
    <2> SUFFICES ASSUME NEW b \in DOMAIN spiDriver'
                 PROVE  /\ spiDriver'[b].fd \in DOMAIN fdTable'
                        /\ fdTable'[spiDriver'[b].fd] = SpiDev(b)
                        /\ spiDriver'[b].hz \in 1 .. MaxHz
      BY DEF SpiDriversOwnDescriptors, SpiSpeedCapped
    <2>1. CASE b = bus
      BY <2>1, <1>3, <1>5, <1>6
    <2>2. CASE b # bus
      <3>1. b \in DOMAIN spiDriver /\ spiDriver'[b] = spiDriver[b]
        BY <2>2, <1>5
      <3> QED
        BY <3>1, <1>3 DEF SpiInv, SpiDriversOwnDescriptors, SpiSpeedCapped
    <2> QED BY <2>1, <2>2
  <1> QED BY <1>7, <1>8, <1>9 DEF SpiInv

\* A release closes its own bus's descriptor and no other's.
LEMMA CloseSpiBusKeepsInv ==
  ASSUME SpiInv, NEW bus \in spis, CloseSpiBus(bus), spis' = spis \ {bus},
         ReplyTypeOK', UNCHANGED <<loop, spiChip>>
  PROVE  SpiInv'
  <1> DEFINE fd == spiDriver[bus].fd
  <1>1. KernelTypeOK /\ MuxTypeOK /\ bus \in DOMAIN spiDriver
    BY DEF SpiInv, SpiTypeOK, ServiceTypeOK, SpiHandlesMatchDrivers
  <1>2. /\ KernelTypeOK'
        /\ DOMAIN fdTable' = DOMAIN fdTable \ {fd}
        /\ \A other \in DOMAIN fdTable \ {fd} : fdTable'[other] = fdTable[other]
    BY <1>1, CloseFdLemma DEF CloseSpiBus
  <1>3. MuxTypeOK'
    BY <1>1, MuxStepType DEF CloseSpiBus
  <1>4. /\ DOMAIN spiDriver' = DOMAIN spiDriver \ {bus}
        /\ \A b \in DOMAIN spiDriver \ {bus} : spiDriver'[b] = spiDriver[b]
    BY DEF CloseSpiBus, Unbind, Restrict
  <1>5. SpiTypeOK'
    BY <1>2, <1>3, <1>4 DEF SpiInv, SpiTypeOK, ServiceTypeOK
  <1>6. SpiHandlesMatchDrivers' /\ SpiSpeedCapped'
    BY <1>4 DEF SpiInv, SpiHandlesMatchDrivers, SpiSpeedCapped
  <1>7. SpiDriversOwnDescriptors'
    <2> SUFFICES ASSUME NEW b \in DOMAIN spiDriver'
                 PROVE  /\ spiDriver'[b].fd \in DOMAIN fdTable'
                        /\ fdTable'[spiDriver'[b].fd] = SpiDev(b)
      BY DEF SpiDriversOwnDescriptors
    <2>1. b \in DOMAIN spiDriver /\ b # bus /\ spiDriver'[b] = spiDriver[b]
      BY <1>4
    <2>2. /\ spiDriver[b].fd \in DOMAIN fdTable
          /\ fdTable[spiDriver[b].fd] = SpiDev(b)
          /\ fdTable[fd] = SpiDev(bus)
      BY <1>1, <2>1 DEF SpiInv, SpiDriversOwnDescriptors
    <2>3. spiDriver[b].fd # fd
      BY <2>1, <2>2, SpiDevInjective
    <2> QED BY <1>2, <2>1, <2>2, <2>3
  <1> QED BY <1>5, <1>6, <1>7 DEF SpiInv
-----------------------------------------------------------------------------
(***************************************************************************)
(* One lemma per handler.                                                  *)
(***************************************************************************)
\* PeripheralManagerService::ListSpiBuses.
LEMMA ListSpiBusesKeepsInv ==
  ASSUME SpiInv, NEW request, ListSpiBuses(request)
  PROVE  SpiInv'
  <1>1. ReplyTypeOK'
    <2>1. {"ok"} \in SUBSET Code /\ "none" \in Payload
      BY DEF Code, Payload
    <2> QED BY <2>1, AnswerType DEF ListSpiBuses
  <1> QED
    BY <1>1, SpiAnswerKeepsInv
       DEF ListSpiBuses, baseVars, muxVars, spiVars, spiUnchanged

\* OpenSpiDevice: refused, busy, failed half-way, or done.
LEMMA OpenSpiDeviceKeepsInv ==
  ASSUME SpiInv, NEW request, NEW bus, OpenSpiDevice(request, bus)
  PROVE  SpiInv'
  <1> DEFINE verdict == Verdict(request, {"name"}, {"name"})
  <1>1. verdict \in Code /\ {"ok", "ENODEV", "EBUSY"} \subseteq Code
        /\ "none" \in Payload
    BY VerdictType DEF Code, Payload
  <1>2. ReplyTypeOK' /\ UNCHANGED <<loop, spiChip>>
    BY <1>1, ReplyType DEF OpenSpiDevice, ClientOpenSpiDevice
  <1>3. CASE UNCHANGED muxVars /\ UNCHANGED <<fdTable, spiDriver, spis>>
    BY <1>2, <1>3, SpiAnswerKeepsInv DEF spiVars
  <1>4. CASE /\ bus \in SpiBus \ DOMAIN spiDriver
             /\ OpenSpiBus(bus) /\ spis' = spis \cup {bus}
    BY <1>2, <1>4, OpenSpiBusKeepsInv
  <1> QED
    BY <1>3, <1>4 DEF OpenSpiDevice, ClientOpenSpiDevice, SpiDriverInitFails

\* ReleaseSpiDevice, of an open bus or of one that is not.
LEMMA ReleaseSpiDeviceKeepsInv ==
  ASSUME SpiInv, NEW request, NEW bus, ReleaseSpiDevice(request, bus)
  PROVE  SpiInv'
  <1> DEFINE verdict == Verdict(request, {"name"}, {"name"})
  <1>1. verdict \in Code /\ {"ok", "EPERM"} \subseteq Code /\ "none" \in Payload
    BY VerdictType DEF Code, Payload
  <1>2. ReplyTypeOK' /\ UNCHANGED <<loop, spiChip>>
    BY <1>1, ReplyType DEF ReleaseSpiDevice, ClientReleaseSpiDevice
  <1>3. CASE UNCHANGED muxVars /\ UNCHANGED <<fdTable, spiDriver, spis>>
    BY <1>2, <1>3, SpiAnswerKeepsInv DEF spiVars
  <1>4. CASE bus \in spis /\ CloseSpiBus(bus) /\ spis' = spis \ {bus}
    BY <1>2, <1>4, CloseSpiBusKeepsInv
  <1> QED BY <1>3, <1>4 DEF ReleaseSpiDevice, ClientReleaseSpiDevice

\* SpiDeviceSetMode: a mode SpiMode does not name is mode 0.
LEMMA SpiDeviceSetModeKeepsInv ==
  ASSUME SpiInv, NEW request, NEW bus, NEW mode,
         SpiDeviceSetMode(request, bus, mode)
  PROVE  SpiInv'
  <1> DEFINE verdict == Verdict(request, {"name", "mode"}, {"name", "mode"})
  <1>1. verdict \in Code /\ "none" \in Payload /\ spiChip \in [SpiBus -> Chip]
    BY VerdictType DEF Code, Payload, SpiInv, SpiTypeOK, Chip
  <1>2. ReplyTypeOK' /\ spiChip' \in [SpiBus -> Chip]
    <2>1. CASE verdict # "ok"
      BY <1>1, <2>1, ReplyType DEF SpiDeviceSetMode
    <2>2. CASE verdict = "ok"
      <3>1. PICK code \in SpiAccess(bus), keeps \in BOOLEAN :
              /\ Reply("SpiDeviceSetMode", <<bus>>, code, "none")
              /\ spiChip' =
                   IF code = "ok"
                   THEN [spiChip EXCEPT ![ChipOf(bus)] =
                           [mode |-> IF mode \in SpiMode THEN mode ELSE 0,
                            lsb |-> keeps /\ @.lsb]]
                   ELSE spiChip
        BY <2>2 DEF SpiDeviceSetMode, ClientSetMode
      <3>2. ReplyTypeOK'
        BY <1>1, <3>1, ReplyType, SpiAccessType
      <3>3. CASE code = "ok"
        <4>1. bus \in spis
          BY <3>3 DEF SpiAccess
        <4>2. ChipOf(bus) = bus /\ bus \in SpiBus
          BY <4>1, ChipOfOwn
        <4>3. [mode |-> IF mode \in SpiMode THEN mode ELSE 0,
               lsb |-> keeps /\ spiChip[bus].lsb] \in Chip
          BY DEF Chip, SpiMode
        <4> QED BY <1>1, <3>1, <3>2, <3>3, <4>2, <4>3
      <3>4. CASE code # "ok"
        BY <1>1, <3>1, <3>2, <3>4
      <3> QED BY <3>3, <3>4
    <2> QED BY <2>1, <2>2
  <1> QED BY <1>2, SpiChipKeepsInv DEF SpiDeviceSetMode

\* SpiDeviceSetBitJustification.
LEMMA SpiDeviceSetBitJustificationKeepsInv ==
  ASSUME SpiInv, NEW request, NEW bus, NEW lsbFirst \in BOOLEAN,
         SpiDeviceSetBitJustification(request, bus, lsbFirst)
  PROVE  SpiInv'
  <1> DEFINE verdict == Verdict(request, {"name", "lsb_first"},
                                         {"name", "lsb_first"})
  <1>1. verdict \in Code /\ "none" \in Payload /\ spiChip \in [SpiBus -> Chip]
    BY VerdictType DEF Code, Payload, SpiInv, SpiTypeOK, Chip
  <1>2. ReplyTypeOK' /\ spiChip' \in [SpiBus -> Chip]
    <2>1. CASE verdict # "ok"
      BY <1>1, <2>1, ReplyType DEF SpiDeviceSetBitJustification
    <2>2. CASE verdict = "ok"
      <3>1. PICK code \in SpiAccess(bus) :
              /\ Reply("SpiDeviceSetBitJustification", <<bus>>, code, "none")
              /\ spiChip' = IF code = "ok"
                            THEN [spiChip EXCEPT ![ChipOf(bus)].lsb = lsbFirst]
                            ELSE spiChip
        BY <2>2 DEF SpiDeviceSetBitJustification, ClientSetBitJustification
      <3>2. ReplyTypeOK'
        BY <1>1, <3>1, ReplyType, SpiAccessType
      <3>3. CASE code = "ok"
        <4>1. bus \in spis
          BY <3>3 DEF SpiAccess
        <4>2. ChipOf(bus) = bus /\ bus \in SpiBus
          BY <4>1, ChipOfOwn
        <4> QED BY <1>1, <3>1, <3>2, <3>3, <4>2 DEF Chip
      <3>4. CASE code # "ok"
        BY <1>1, <3>1, <3>2, <3>4
      <3> QED BY <3>3, <3>4
    <2> QED BY <2>1, <2>2
  <1> QED BY <1>2, SpiChipKeepsInv DEF SpiDeviceSetBitJustification
-----------------------------------------------------------------------------
\* A setting of an open driver's that leaves its descriptor and is in range.
LEMMA SpiDriverSet ==
  ASSUME SpiInv, ReplyTypeOK', NEW bus \in spis, NEW driver \in DriverRecord,
         driver.fd = spiDriver[bus].fd, driver.hz \in 1 .. MaxHz,
         spiDriver' = [spiDriver EXCEPT ![bus] = driver],
         UNCHANGED baseVars, UNCHANGED <<spis, spiChip>>
  PROVE  SpiInv'
  <1>1. DOMAIN spiDriver' = DOMAIN spiDriver /\ bus \in DOMAIN spiDriver
    BY ChipOfOwn
  <1>2. ASSUME NEW b \in DOMAIN spiDriver
        PROVE  /\ spiDriver'[b] \in DriverRecord
               /\ spiDriver'[b].fd = spiDriver[b].fd
               /\ spiDriver'[b].hz \in 1 .. MaxHz
    <2>1. CASE b = bus
      BY <1>1, <2>1
    <2>2. CASE b # bus
      <3>1. spiDriver'[b] = spiDriver[b]
        BY <2>2
      <3> QED
        BY <3>1 DEF SpiInv, SpiTypeOK, SpiSpeedCapped, DriverRecord
    <2> QED BY <2>1, <2>2
  <1> QED BY <1>1, <1>2, SpiSettingKeepsInv

\* SpiDeviceSetFrequency: the clock is positive and capped.
LEMMA SpiDeviceSetFrequencyKeepsInv ==
  ASSUME SpiInv, NEW request, NEW bus, NEW hz \in SpiNumbers,
         SpiDeviceSetFrequency(request, bus, hz)
  PROVE  SpiInv'
  <1> DEFINE verdict == Verdict(request, {"name", "frequency"},
                                         {"name", "frequency"})
             capped == IF hz > MaxHz THEN MaxHz ELSE hz
             driver == [spiDriver[bus] EXCEPT !.hz = capped]
  <1>1. verdict \in Code /\ "none" \in Payload
    BY VerdictType DEF Code, Payload
  <1>2. UNCHANGED baseVars /\ UNCHANGED <<spis, spiChip>>
    BY DEF SpiDeviceSetFrequency
  <1>3. CASE verdict # "ok"
    <2>1. ReplyTypeOK' /\ UNCHANGED spiDriver
      BY <1>1, <1>3, ReplyType DEF SpiDeviceSetFrequency
    <2> QED BY <1>2, <2>1, SpiAnswerKeepsInv DEF baseVars, muxVars, spiVars
  <1>4. CASE verdict = "ok"
    <2>1. PICK code \in SpiAccess(bus) :
            /\ code = "ok" => hz > 0
            /\ Reply("SpiDeviceSetFrequency", <<bus>>, code, "none")
            /\ spiDriver' = IF code = "ok" THEN [spiDriver EXCEPT ![bus] = driver]
                                           ELSE spiDriver
      BY <1>4 DEF SpiDeviceSetFrequency, ClientSetFrequency
    <2>2. ReplyTypeOK'
      BY <1>1, <2>1, ReplyType, SpiAccessType
    <2>3. CASE code # "ok"
      BY <1>2, <2>1, <2>2, <2>3, SpiAnswerKeepsInv DEF baseVars, muxVars, spiVars
    <2>4. CASE code = "ok"
      <3>1. bus \in spis
        BY <2>4 DEF SpiAccess
      <3>2. capped \in 1 .. MaxHz
        BY <2>1, <2>4, SpiAssumption
      <3>3. spiDriver[bus] \in DriverRecord
        BY <3>1, ChipOfOwn DEF SpiInv, SpiTypeOK, DriverRecord
      <3>4. /\ driver \in DriverRecord /\ driver.fd = spiDriver[bus].fd
            /\ driver.hz \in 1 .. MaxHz
        BY <3>2, <3>3, SpiAssumption DEF DriverRecord
      <3> HIDE DEF driver
      <3> QED BY <1>2, <2>1, <2>2, <2>4, <3>1, <3>4, SpiDriverSet
    <2> QED BY <2>3, <2>4
  <1> QED BY <1>3, <1>4

\* SpiDeviceSetBitsPerWord: what is left of the number is a byte.
LEMMA SpiDeviceSetBitsPerWordKeepsInv ==
  ASSUME SpiInv, NEW request, NEW bus, NEW nbits \in SpiNumbers,
         SpiDeviceSetBitsPerWord(request, bus, nbits)
  PROVE  SpiInv'
  <1> DEFINE verdict == Verdict(request, {"name", "nbits"}, {"name", "nbits"})
             driver == [spiDriver[bus] EXCEPT !.bits = nbits % 256]
  <1>1. verdict \in Code /\ "none" \in Payload
    BY VerdictType DEF Code, Payload
  <1>2. UNCHANGED baseVars /\ UNCHANGED <<spis, spiChip>>
    BY DEF SpiDeviceSetBitsPerWord
  <1>3. CASE verdict # "ok"
    <2>1. ReplyTypeOK' /\ UNCHANGED spiDriver
      BY <1>1, <1>3, ReplyType DEF SpiDeviceSetBitsPerWord
    <2> QED BY <1>2, <2>1, SpiAnswerKeepsInv DEF baseVars, muxVars, spiVars
  <1>4. CASE verdict = "ok"
    <2>1. PICK code \in SpiAccess(bus) :
            /\ Reply("SpiDeviceSetBitsPerWord", <<bus>>, code, "none")
            /\ spiDriver' = IF code = "ok" THEN [spiDriver EXCEPT ![bus] = driver]
                                           ELSE spiDriver
      BY <1>4 DEF SpiDeviceSetBitsPerWord, ClientSetBitsPerWord
    <2>2. ReplyTypeOK'
      BY <1>1, <2>1, ReplyType, SpiAccessType
    <2>3. CASE code # "ok"
      BY <1>2, <2>1, <2>2, <2>3, SpiAnswerKeepsInv DEF baseVars, muxVars, spiVars
    <2>4. CASE code = "ok"
      <3>1. bus \in spis
        BY <2>4 DEF SpiAccess
      <3>2. nbits % 256 \in 0 .. 255
        BY SpiAssumption
      <3>3. spiDriver[bus] \in DriverRecord /\ spiDriver[bus].hz \in 1 .. MaxHz
        BY <3>1, ChipOfOwn DEF SpiInv, SpiTypeOK, SpiSpeedCapped, DriverRecord
      <3>4. /\ driver \in DriverRecord /\ driver.fd = spiDriver[bus].fd
            /\ driver.hz \in 1 .. MaxHz
        BY <3>2, <3>3 DEF DriverRecord
      <3> HIDE DEF driver
      <3> QED BY <1>2, <2>1, <2>2, <2>4, <3>1, <3>4, SpiDriverSet
    <2> QED BY <2>3, <2>4
  <1> QED BY <1>3, <1>4

\* SpiDeviceSetDelay: an accepted delay is in range.
LEMMA SpiDeviceSetDelayKeepsInv ==
  ASSUME SpiInv, NEW request, NEW bus, NEW usecs \in SpiNumbers,
         SpiDeviceSetDelay(request, bus, usecs)
  PROVE  SpiInv'
  <1> DEFINE verdict == Verdict(request, {"name", "delay_usecs"},
                                         {"name", "delay_usecs"})
             code == CASE bus \notin spis                 -> "EPERM"
                       [] ~ (usecs \in 0 .. Int16Max) -> "EINVAL"
                       [] OTHER                           -> "ok"
             driver == [spiDriver[bus] EXCEPT !.delay = usecs]
  <1>1. /\ verdict \in Code /\ "none" \in Payload
        /\ code \in {"EPERM", "EINVAL", "ok"} /\ code \in Code
    BY VerdictType DEF Code, Payload
  <1>2. UNCHANGED baseVars /\ UNCHANGED <<spis, spiChip>>
    BY DEF SpiDeviceSetDelay
  <1>3. CASE verdict # "ok"
    <2>1. ReplyTypeOK' /\ UNCHANGED spiDriver
      BY <1>1, <1>3, ReplyType DEF SpiDeviceSetDelay
    <2> QED BY <1>2, <2>1, SpiAnswerKeepsInv DEF baseVars, muxVars, spiVars
  <1>4. CASE verdict = "ok"
    <2>1. /\ Reply("SpiDeviceSetDelay", <<bus>>, code, "none")
          /\ spiDriver' = IF code = "ok" THEN [spiDriver EXCEPT ![bus] = driver]
                                         ELSE spiDriver
      BY <1>4 DEF SpiDeviceSetDelay, ClientSetDelay
    <2>2. ReplyTypeOK'
      BY <1>1, <2>1, ReplyType
    <2>3. CASE code # "ok"
      BY <1>2, <2>1, <2>2, <2>3, SpiAnswerKeepsInv DEF baseVars, muxVars, spiVars
    <2>4. CASE code = "ok"
      <3>1. bus \in spis /\ usecs \in 0 .. Int16Max
        BY <2>4
      <3>3. spiDriver[bus] \in DriverRecord /\ spiDriver[bus].hz \in 1 .. MaxHz
        BY <3>1, ChipOfOwn DEF SpiInv, SpiTypeOK, SpiSpeedCapped, DriverRecord
      <3>4. /\ driver \in DriverRecord /\ driver.fd = spiDriver[bus].fd
            /\ driver.hz \in 1 .. MaxHz
        BY <3>1, <3>3 DEF DriverRecord
      <3>5. spiDriver' = [spiDriver EXCEPT ![bus] = driver]
        BY <2>1, <2>4
      <3> HIDE DEF driver, code
      <3> QED BY <1>2, <2>2, <3>1, <3>4, <3>5, SpiDriverSet
    <2> QED BY <2>3, <2>4
  <1> QED BY <1>3, <1>4

\* SpiDeviceTransfer: an answer, or the end of the process.
LEMMA SpiDeviceTransferKeepsInv ==
  ASSUME SpiInv, NEW request, NEW bus, NEW sent, NEW size,
         SpiDeviceTransfer(request, bus, sent, size)
  PROVE  SpiInv'
  <1> DEFINE verdict == Verdict(request, {"size", "name", "data"}, {"name", "size"})
             data == IF "data" \in request.keys THEN sent ELSE 0
  <1>1. /\ verdict \in Code /\ "ok" \in Code
        /\ {"none", "sent", "garbage"} \subseteq Payload
    BY VerdictType DEF Code, Payload
  <1>2. UNCHANGED fdTable /\ UNCHANGED muxVars /\ UNCHANGED spiVars
    BY DEF SpiDeviceTransfer, spiUnchanged, spiVars
  <1>3. ReplyTypeOK
    BY DEF SpiInv, SpiTypeOK, ServiceTypeOK
  <1>4. CASE verdict # "ok"
    BY <1>1, <1>2, <1>4, ReplyType, SpiAnswerKeepsInv DEF SpiDeviceTransfer
  <1>5. CASE loop' = "down" /\ UNCHANGED reply
    BY <1>2, <1>3, <1>5, SpiAnswerKeepsInv DEF ReplyTypeOK
  <1>6. CASE ClientTransfer(bus, data, size)
    <2>1. CASE \E code \in SpiAccess(bus) \ {"ok"} :
                 Reply("SpiDeviceTransfer", <<bus>>, code, "none") /\ UNCHANGED loop
      BY <1>1, <1>2, <2>1, ReplyType, SpiAccessType, SpiAnswerKeepsInv
    <2>2. CASE /\ \/ Reply("SpiDeviceTransfer", <<bus>>, "ok", "none")
                  \/ Reply("SpiDeviceTransfer", <<bus>>, "ok", "sent")
                  \/ Reply("SpiDeviceTransfer", <<bus>>, "ok", "garbage")
               /\ UNCHANGED loop
      BY <1>1, <1>2, <2>2, ReplyType, SpiAnswerKeepsInv
    <2> QED BY <1>5, <1>6, <2>1, <2>2 DEF ClientTransfer
  <1> QED BY <1>4, <1>5, <1>6 DEF SpiDeviceTransfer

\* SpiDeviceWriteByte only answers.
LEMMA SpiDeviceWriteByteKeepsInv ==
  ASSUME SpiInv, NEW request, NEW bus, SpiDeviceWriteByte(request, bus)
  PROVE  SpiInv'
  <1>1. ReplyTypeOK'
    BY AnswerType, SpiAccessType DEF SpiDeviceWriteByte, Payload
  <1> QED BY <1>1, SpiAnswerKeepsInv
             DEF SpiDeviceWriteByte, baseVars, muxVars, spiVars, spiUnchanged

\* So does SpiDeviceWriteBuffer.
LEMMA SpiDeviceWriteBufferKeepsInv ==
  ASSUME SpiInv, NEW request, NEW bus, SpiDeviceWriteBuffer(request, bus)
  PROVE  SpiInv'
  <1>1. ReplyTypeOK'
    BY AnswerType, SpiAccessType DEF SpiDeviceWriteBuffer, Payload
  <1> QED BY <1>1, SpiAnswerKeepsInv
             DEF SpiDeviceWriteBuffer, baseVars, muxVars, spiVars, spiUnchanged
-----------------------------------------------------------------------------
\* The end of the process leaves the maps to be read; its restart empties them.
LEMMA SpiRestartKeepsInv ==
  ASSUME SpiInv, SpiDie \/ (Reboot /\ SpiReboot)
  PROVE  SpiInv'
  <1>1. CASE SpiDie
    BY <1>1, SpiAnswerKeepsInv
       DEF SpiDie, Die, spiUnchanged, spiVars, muxVars, SpiInv, SpiTypeOK,
           ServiceTypeOK, ReplyTypeOK
  <1>2. CASE Reboot /\ SpiReboot
    <2>1. KernelTypeOK'
      BY <1>2 DEF Reboot, KernelTypeOK, EmptyMap
    <2>2. MuxTypeOK' /\ ReplyTypeOK'
      BY <1>2 DEF Reboot, MuxTypeOK, ReplyTypeOK, SpiInv, SpiTypeOK, ServiceTypeOK
    <2>3. DOMAIN spiDriver' = {} /\ spis' = {} /\ UNCHANGED spiChip
      BY <1>2, EmptyMapLemma DEF SpiReboot
    <2>4. SpiTypeOK'
      BY <1>2, <2>1, <2>2, <2>3 DEF Reboot, SpiInv, SpiTypeOK, ServiceTypeOK
    <2> QED
      BY <2>3, <2>4
         DEF SpiInv, SpiHandlesMatchDrivers, SpiDriversOwnDescriptors, SpiSpeedCapped
  <1> QED BY <1>1, <1>2

\* Every step of SPI keeps the invariant, whatever the buses, muxes and numbers.
LEMMA SpiStepKeepsInv ==
  ASSUME SpiInv, SpiNext
  PROVE  SpiInv'
  <1>1. CASE \E request : ListSpiBuses(request)
    BY <1>1, ListSpiBusesKeepsInv
  <1>2. CASE \E request, bus : OpenSpiDevice(request, bus)
    BY <1>2, OpenSpiDeviceKeepsInv
  <1>3. CASE \E request, bus : ReleaseSpiDevice(request, bus)
    BY <1>3, ReleaseSpiDeviceKeepsInv
  <1>4. CASE \E request, bus, mode : SpiDeviceSetMode(request, bus, mode)
    BY <1>4, SpiDeviceSetModeKeepsInv
  <1>5. CASE \E request, bus : \E hz \in SpiNumbers :
               SpiDeviceSetFrequency(request, bus, hz)
    BY <1>5, SpiDeviceSetFrequencyKeepsInv
  <1>6. CASE \E request, bus : \E lsbFirst \in BOOLEAN :
               SpiDeviceSetBitJustification(request, bus, lsbFirst)
    BY <1>6, SpiDeviceSetBitJustificationKeepsInv
  <1>7. CASE \E request, bus : \E nbits \in SpiNumbers :
               SpiDeviceSetBitsPerWord(request, bus, nbits)
    BY <1>7, SpiDeviceSetBitsPerWordKeepsInv
  <1>8. CASE \E request, bus : \E usecs \in SpiNumbers :
               SpiDeviceSetDelay(request, bus, usecs)
    BY <1>8, SpiDeviceSetDelayKeepsInv
  <1>9. CASE \E request, bus, sent, size : SpiDeviceTransfer(request, bus, sent, size)
    BY <1>9, SpiDeviceTransferKeepsInv
  <1>10. CASE \E request, bus : SpiDeviceWriteByte(request, bus)
    BY <1>10, SpiDeviceWriteByteKeepsInv
  <1>11. CASE \E request, bus : SpiDeviceWriteBuffer(request, bus)
    BY <1>11, SpiDeviceWriteBufferKeepsInv
  <1> QED
    BY <1>1, <1>2, <1>3, <1>4, <1>5, <1>6, <1>7, <1>8, <1>9, <1>10, <1>11
       DEF SpiNext

\* The invariant is inductive: a step or a stutter keeps it.
LEMMA SpiNextKeepsInv ==
  ASSUME SpiInv, [SpiSpecNext]_SpiSpecVars
  PROVE  SpiInv'
  <1>1. CASE UNCHANGED SpiSpecVars
    BY <1>1, SpiAnswerKeepsInv
       DEF SpiSpecVars, baseVars, spiVars, muxVars, SpiInv, SpiTypeOK,
           ServiceTypeOK, ReplyTypeOK
  <1> QED
    BY <1>1, SpiStepKeepsInv, SpiRestartKeepsInv DEF SpiSpecNext

\* The invariant holds throughout: of every board and every number of
\* descriptors, what MCSpi shows of one.
THEOREM SpiInvariant == SpiSpec => []SpiInv
  <1>1. SpiSpecInit => SpiInv
    BY SpiInitInv
  <1>2. SpiInv /\ [SpiSpecNext]_SpiSpecVars => SpiInv'
    BY SpiNextKeepsInv
  <1> QED BY <1>1, <1>2, PTL DEF SpiSpec

\* SPI's variables keep their types: a delay fits 16 bits, a word size a byte.
THEOREM SpiTypeCorrect == SpiSpec => []SpiTypeOK
  <1>1. SpiInv => SpiTypeOK
    BY DEF SpiInv
  <1> QED BY <1>1, SpiInvariant, PTL

\* The client's handles are the manager's drivers: the raw pointer SpiDevice
\* follows without a check always leads to a driver.
THEOREM SpiHandlesCorrect == SpiSpec => []SpiHandlesMatchDrivers
  <1>1. SpiInv => SpiHandlesMatchDrivers
    BY DEF SpiInv
  <1> QED BY <1>1, SpiInvariant, PTL

\* The descriptor of a driver leads to its own bus.
THEOREM SpiDescriptorsCorrect == SpiSpec => []SpiDriversOwnDescriptors
  <1>1. SpiInv => SpiDriversOwnDescriptors
    BY DEF SpiInv
  <1> QED BY <1>1, SpiInvariant, PTL

\* No driver's clock is above the kernel's limit or stopped, for every limit
\* and every number a call may ask for.
THEOREM SpiSpeedCorrect == SpiSpec => []SpiSpeedCapped
  <1>1. SpiInv => SpiSpeedCapped
    BY DEF SpiInv
  <1> QED BY <1>1, SpiInvariant, PTL
-----------------------------------------------------------------------------
\* What SpiChipOnlyByHolder says of one step.
ChipStep ==
  \A bus \in SpiBus :
    spiChip'[bus] # spiChip[bus] => bus \in spis /\ reply'.dev = <<bus>>

\* A call that sets a chip sets the one of the bus it names, which is open.
LEMMA ChipSetByHolder ==
  ASSUME SpiInv, NEW call, NEW b, NEW v, NEW code \in SpiAccess(b),
         Reply(call, <<b>>, code, "none"),
         spiChip' = IF code = "ok" THEN [spiChip EXCEPT ![ChipOf(b)] = v]
                                   ELSE spiChip
  PROVE  ChipStep
  <1>1. CASE code # "ok"
    BY <1>1 DEF ChipStep
  <1>2. CASE code = "ok"
    <2>1. b \in spis
      BY <1>2 DEF SpiAccess
    <2>2. spiChip' = [spiChip EXCEPT ![b] = v]
      BY <1>2, <2>1, ChipOfOwn
    <2>3. \A bus \in SpiBus : bus # b => spiChip'[bus] = spiChip[bus]
      BY <2>2 DEF SpiInv, SpiTypeOK
    <2>4. reply'.dev = <<b>>
      BY DEF Reply
    <2> QED BY <2>1, <2>3, <2>4 DEF ChipStep
  <1> QED BY <1>1, <1>2

\* Only SpiDeviceSetMode and SpiDeviceSetBitJustification set a chip.
LEMMA SpiNextChipStep ==
  ASSUME SpiInv, [SpiSpecNext]_SpiSpecVars
  PROVE  ChipStep
  <1>1. CASE UNCHANGED spiChip
    BY <1>1 DEF ChipStep
  <1>2. CASE \E request, bus, mode : SpiDeviceSetMode(request, bus, mode)
    <2>1. PICK request, bus, mode : SpiDeviceSetMode(request, bus, mode)
      BY <1>2
    <2>2. CASE ClientSetMode(bus, mode)
      <3>1. PICK code \in SpiAccess(bus), keeps \in BOOLEAN :
              /\ Reply("SpiDeviceSetMode", <<bus>>, code, "none")
              /\ spiChip' = IF code = "ok"
                            THEN [spiChip EXCEPT ![ChipOf(bus)] =
                                    [mode |-> IF mode \in SpiMode THEN mode ELSE 0,
                                     lsb |-> keeps /\ spiChip[ChipOf(bus)].lsb]]
                            ELSE spiChip
        BY <2>2 DEF ClientSetMode
      <3> QED BY <3>1, ChipSetByHolder
    <2> QED BY <1>1, <2>1, <2>2 DEF SpiDeviceSetMode
  <1>3. CASE \E request, bus, lsbFirst :
               SpiDeviceSetBitJustification(request, bus, lsbFirst)
    <2>1. PICK request, bus, lsbFirst :
            SpiDeviceSetBitJustification(request, bus, lsbFirst)
      BY <1>3
    <2>2. CASE ClientSetBitJustification(bus, lsbFirst)
      <3>1. PICK code \in SpiAccess(bus) :
              /\ Reply("SpiDeviceSetBitJustification", <<bus>>, code, "none")
              /\ spiChip' = IF code = "ok"
                            THEN [spiChip EXCEPT ![ChipOf(bus)] =
                                    [spiChip[ChipOf(bus)] EXCEPT !.lsb = lsbFirst]]
                            ELSE spiChip
        BY <2>2 DEF ClientSetBitJustification
      <3> QED BY <3>1, ChipSetByHolder
    <2> QED BY <1>1, <2>1, <2>2 DEF SpiDeviceSetBitJustification
  <1>4. CASE \/ \E request : ListSpiBuses(request)
             \/ \E request, bus : \/ SpiDeviceWriteByte(request, bus)
                                  \/ SpiDeviceWriteBuffer(request, bus)
             \/ \E request, bus, sent, size :
                  SpiDeviceTransfer(request, bus, sent, size)
    BY <1>1, <1>4
       DEF ListSpiBuses, SpiDeviceWriteByte, SpiDeviceWriteBuffer,
           SpiDeviceTransfer, spiUnchanged
  <1>5. CASE \E request, bus : \/ OpenSpiDevice(request, bus)
                               \/ ReleaseSpiDevice(request, bus)
    BY <1>1, <1>5 DEF OpenSpiDevice, ReleaseSpiDevice
  <1>6. CASE \E request, bus, n : \/ SpiDeviceSetFrequency(request, bus, n)
                                  \/ SpiDeviceSetBitsPerWord(request, bus, n)
                                  \/ SpiDeviceSetDelay(request, bus, n)
    BY <1>1, <1>6
       DEF SpiDeviceSetFrequency, SpiDeviceSetBitsPerWord, SpiDeviceSetDelay
  <1>7. CASE SpiDie \/ (Reboot /\ SpiReboot) \/ UNCHANGED SpiSpecVars
    BY <1>1, <1>7 DEF SpiDie, SpiReboot, spiUnchanged, SpiSpecVars, spiVars
  <1> QED
    BY <1>2, <1>3, <1>4, <1>5, <1>6, <1>7 DEF SpiSpecNext, SpiNext

\* A chip's mode and bit order change only in a call that names its bus while
\* the bus is open: for every board, what SpiChipOnlyByHolder says.
THEOREM SpiChipsCorrect == SpiSpec => SpiChipOnlyByHolder
  <1>1. SpiInv /\ [SpiSpecNext]_SpiSpecVars => [ChipStep]_SpiSpecVars
    BY SpiNextChipStep
  <1> QED BY <1>1, SpiInvariant, PTL DEF SpiSpec, SpiChipOnlyByHolder, ChipStep
-----------------------------------------------------------------------------
\* What SpiFailureChangesNothing says of one step.
SpiFailureStep ==
  running /\ running' /\ reply'.code # "ok" => UNCHANGED <<baseVars, spiVars>>

\* An open or a release that is answered with an error leaves the maps alone,
\* and so do the calls that set what a chip or a driver keeps.
LEMMA SpiChangeIsAnsweredOk ==
  ASSUME NEW request, NEW bus, NEW n,
         \/ OpenSpiDevice(request, bus) \/ ReleaseSpiDevice(request, bus)
         \/ SpiDeviceSetMode(request, bus, n)
         \/ SpiDeviceSetBitJustification(request, bus, n)
         \/ SpiDeviceSetFrequency(request, bus, n)
         \/ SpiDeviceSetBitsPerWord(request, bus, n)
         \/ SpiDeviceSetDelay(request, bus, n)
  PROVE  SpiFailureStep
  <1>1. CASE OpenSpiDevice(request, bus)
    <2>1. \/ reply'.code = "ok"
          \/ UNCHANGED muxVars /\ UNCHANGED <<fdTable, spiDriver, spis>>
      BY <1>1
         DEF OpenSpiDevice, ClientOpenSpiDevice, SpiDriverInitFails, Reply
    <2> QED
      BY <1>1, <2>1
         DEF OpenSpiDevice, SpiFailureStep, baseVars, muxVars, spiVars
  <1>2. CASE ReleaseSpiDevice(request, bus)
    <2>1. \/ reply'.code = "ok"
          \/ UNCHANGED muxVars /\ UNCHANGED <<fdTable, spiDriver, spis>>
      BY <1>2 DEF ReleaseSpiDevice, ClientReleaseSpiDevice, Reply
    <2> QED
      BY <1>2, <2>1
         DEF ReleaseSpiDevice, SpiFailureStep, baseVars, muxVars, spiVars
  <1>3. CASE SpiDeviceSetMode(request, bus, n)
    <2>1. reply'.code = "ok" \/ UNCHANGED spiChip
      BY <1>3 DEF SpiDeviceSetMode, ClientSetMode, Reply
    <2> QED BY <1>3, <2>1 DEF SpiDeviceSetMode, SpiFailureStep, spiVars
  <1>4. CASE SpiDeviceSetBitJustification(request, bus, n)
    <2>1. reply'.code = "ok" \/ UNCHANGED spiChip
      BY <1>4 DEF SpiDeviceSetBitJustification, ClientSetBitJustification, Reply
    <2> QED BY <1>4, <2>1 DEF SpiDeviceSetBitJustification, SpiFailureStep,
                                     spiVars
  <1>5. CASE SpiDeviceSetFrequency(request, bus, n)
    <2>1. reply'.code = "ok" \/ UNCHANGED spiDriver
      BY <1>5 DEF SpiDeviceSetFrequency, ClientSetFrequency, Reply
    <2> QED BY <1>5, <2>1 DEF SpiDeviceSetFrequency, SpiFailureStep, spiVars
  <1>6. CASE SpiDeviceSetBitsPerWord(request, bus, n)
    <2>1. reply'.code = "ok" \/ UNCHANGED spiDriver
      BY <1>6 DEF SpiDeviceSetBitsPerWord, ClientSetBitsPerWord, Reply
    <2> QED BY <1>6, <2>1 DEF SpiDeviceSetBitsPerWord, SpiFailureStep, spiVars
  <1>7. CASE SpiDeviceSetDelay(request, bus, n)
    <2>1. reply'.code = "ok" \/ UNCHANGED spiDriver
      BY <1>7 DEF SpiDeviceSetDelay, ClientSetDelay, Reply
    <2> QED BY <1>7, <2>1 DEF SpiDeviceSetDelay, SpiFailureStep, spiVars
  <1> QED BY <1>1, <1>2, <1>3, <1>4, <1>5, <1>6, <1>7

\* The other calls change nothing but the loop, and that only by ending it.
LEMMA SpiNextFailureStep ==
  ASSUME [SpiSpecNext]_SpiSpecVars
  PROVE  SpiFailureStep
  <1>1. CASE UNCHANGED SpiSpecVars
    BY <1>1 DEF SpiSpecVars, SpiFailureStep
  <1>2. CASE \/ \E request : ListSpiBuses(request)
             \/ \E request, bus : \/ SpiDeviceWriteByte(request, bus)
                                  \/ SpiDeviceWriteBuffer(request, bus)
    BY <1>2 DEF ListSpiBuses, SpiDeviceWriteByte, SpiDeviceWriteBuffer,
                SpiFailureStep, spiUnchanged, spiVars
  <1>3. CASE \E request, bus, sent, size :
               SpiDeviceTransfer(request, bus, sent, size)
    <2>1. UNCHANGED muxVars /\ UNCHANGED fdTable /\ UNCHANGED spiVars
      BY <1>3 DEF SpiDeviceTransfer, spiUnchanged, spiVars
    <2>2. UNCHANGED loop \/ loop' = "down"
      BY <1>3 DEF SpiDeviceTransfer, ClientTransfer
    <2> QED BY <2>1, <2>2 DEF SpiFailureStep, running, baseVars, muxVars
  <1>4. CASE \E request, bus, n :
               \/ OpenSpiDevice(request, bus) \/ ReleaseSpiDevice(request, bus)
               \/ SpiDeviceSetMode(request, bus, n)
               \/ SpiDeviceSetBitJustification(request, bus, n)
               \/ SpiDeviceSetFrequency(request, bus, n)
               \/ SpiDeviceSetBitsPerWord(request, bus, n)
               \/ SpiDeviceSetDelay(request, bus, n)
    BY <1>4, SpiChangeIsAnsweredOk
  <1>5. CASE SpiDie \/ Reboot
    BY <1>5 DEF SpiDie, Die, Reboot, SpiFailureStep, running, alive
  <1> QED BY <1>1, <1>2, <1>3, <1>4, <1>5 DEF SpiSpecNext, SpiNext

\* An SPI call that is answered with an error has changed nothing, on any board.
THEOREM SpiFailureCorrect == SpiSpec => SpiFailureChangesNothing
  <1>1. [SpiSpecNext]_SpiSpecVars => [SpiFailureStep]_SpiSpecVars
    BY SpiNextFailureStep
  <1> QED BY <1>1, PTL DEF SpiSpec, SpiFailureChangesNothing, SpiFailureStep
=============================================================================
