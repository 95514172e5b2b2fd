----------------------------- MODULE I2cProofs -----------------------------
(***************************************************************************)
(* For any buses, addresses, muxes and descriptors: handles, drivers and   *)
(* descriptors agree, no descriptor and no pin is left behind, and an      *)
(* error has changed nothing.                                              *)
(***************************************************************************)
EXTENDS I2c, ServiceProofs

\* The pins a device with this mux asks the registry for: a device without a
\* mux asks for none, whatever is registered under the empty name.
ClaimedPins(mux) == IF mux = NoMux THEN {} ELSE SourcePins(mux)

\* Of I2cNoPinLeaks what is inductive: the pins in use were asked for.
I2cPinsAskedFor ==
  \A p \in inUse : \E dev \in DOMAIN i2cDriver : p \in ClaimedPins(I2cMux[dev[1]])

I2cInv == /\ I2cTypeOK
          /\ I2cHandlesMatchDrivers
          /\ I2cDriversOwnDescriptors

\* What holds only where there is no other kind of device.
I2cAloneInv == I2cNoDescriptorLeaks /\ I2cPinsAskedFor

\* A bus bound to a slave is the file of one address.
LEMMA I2cDevInjective ==
  ASSUME NEW d \in I2cBus \X Address, NEW e \in I2cBus \X Address,
         I2cDev(d) = I2cDev(e)
  PROVE  d = e
  BY DEF I2cDev

\* The invariant holds when the process starts for the first time.
LEMMA I2cInitInv == I2cSpecInit => I2cInv
  <1> SUFFICES ASSUME ServiceInit, I2cInit PROVE I2cInv
    BY DEF I2cSpecInit
  <1>1. KernelTypeOK
    BY EmptyMapLemma DEF ServiceInit, KernelTypeOK, EmptyMap
  <1>2. MuxTypeOK
    BY DEF ServiceInit, MuxInit, MuxTypeOK
  <1>3. ReplyTypeOK
    BY DEF ServiceInit, ReplyTypeOK, Code, Payload
  <1>4. DOMAIN i2cDriver = {} /\ DOMAIN fdTable = {} /\ i2cs = {}
    BY EmptyMapLemma DEF I2cInit, ServiceInit
  <1>5. I2cTypeOK
    BY <1>1, <1>2, <1>3, <1>4 DEF I2cTypeOK, ServiceTypeOK, ServiceInit
  <1> QED
    BY <1>4, <1>5 DEF I2cInv, I2cHandlesMatchDrivers, I2cDriversOwnDescriptors

\* A call that only answers, or the end of the process, keeps the invariant.
LEMMA I2cAnswerKeepsInv ==
  ASSUME I2cInv, ReplyTypeOK', loop' \in {loop, "down"}, UNCHANGED fdTable,
         UNCHANGED muxVars, UNCHANGED i2cVars
  PROVE  I2cInv'
  BY DEF I2cInv, I2cTypeOK, ServiceTypeOK, KernelTypeOK, MuxTypeOK, muxVars,
         I2cHandlesMatchDrivers, I2cDriversOwnDescriptors, i2cVars

\* An access to a device ends in one of the codes.
LEMMA I2cAccessType ==
  ASSUME NEW dev, NEW n
  PROVE  /\ I2cAccess(dev) \in SUBSET Code
         /\ I2cBlockAccess(dev, n) \in SUBSET Code
         /\ I2cReadCodes(dev) \in SUBSET Code
         /\ I2cReadRegBufferCodes(dev, n) \in SUBSET Code
  BY DEF I2cAccess, I2cBlockAccess, I2cReadCodes, I2cReadRegBufferCodes, Code
-----------------------------------------------------------------------------
\* SetSource claims the pins that were asked for, or none.
LEMMA ClaimMuxPins ==
  ASSUME NEW mux, ClaimMux(mux)
  PROVE  inUse' \subseteq inUse \cup ClaimedPins(mux)
  BY DEF ClaimMux, SetSource, muxVars, ClaimedPins, SourcePins

\* ReleaseSource leaves none of them in use.
LEMMA DropMuxPins ==
  ASSUME NEW mux, DropMux(mux)
  PROVE  inUse' = inUse \ ClaimedPins(mux)
  BY DEF DropMux, ReleaseSource, muxVars, ClaimedPins, SourcePins

\* A successful open: a descriptor that was free.
LEMMA OpenI2cSlaveKeepsInv ==
  ASSUME I2cInv, NEW dev \in I2cBus \X Address, dev \notin DOMAIN i2cDriver,
         OpenI2cSlave(dev), i2cs' = i2cs \cup {dev}, ReplyTypeOK', UNCHANGED loop
  PROVE  I2cInv'
  <1>1. PICK fd \in FreeFds : I2cDriverInit(dev, fd)
    BY DEF OpenI2cSlave
  <1>2. KernelTypeOK /\ MuxTypeOK
    BY DEF I2cInv, I2cTypeOK, ServiceTypeOK
  <1>3. /\ KernelTypeOK'
        /\ fd \in Fd /\ fd \notin DOMAIN fdTable
        /\ DOMAIN fdTable' = DOMAIN fdTable \cup {fd}
        /\ fdTable'[fd] = I2cDev(dev)
        /\ \A other \in DOMAIN fdTable : fdTable'[other] = fdTable[other]
    BY <1>1, <1>2, OpenFdLemma DEF I2cDriverInit
  <1>4. MuxTypeOK'
    BY <1>2, MuxStepType DEF OpenI2cSlave
  <1>5. /\ DOMAIN i2cDriver' = DOMAIN i2cDriver \cup {dev}
        /\ i2cDriver'[dev] = fd
        /\ \A d \in DOMAIN i2cDriver : i2cDriver'[d] = i2cDriver[d]
    BY <1>1 DEF I2cDriverInit, Bind
  <1>6. I2cTypeOK'
    BY <1>3, <1>4, <1>5 DEF I2cInv, I2cTypeOK, ServiceTypeOK
  <1>7. I2cHandlesMatchDrivers'
    BY <1>5 DEF I2cInv, I2cHandlesMatchDrivers
  <1>8. I2cDriversOwnDescriptors'
    BY <1>3, <1>5 DEF I2cInv, I2cDriversOwnDescriptors
  <1> QED BY <1>6, <1>7, <1>8 DEF I2cInv

\* A release closes the descriptor of its own address and of no other.
LEMMA I2cOthersDescriptor ==
  ASSUME I2cInv, NEW dev \in DOMAIN i2cDriver
  PROVE  \A d \in DOMAIN i2cDriver \ {dev} : i2cDriver[d] # i2cDriver[dev]
  <1> SUFFICES ASSUME NEW d \in DOMAIN i2cDriver \ {dev},
                      i2cDriver[d] = i2cDriver[dev]
               PROVE  FALSE
    OBVIOUS
  <1>1. I2cDev(d) = I2cDev(dev)
    BY DEF I2cInv, I2cDriversOwnDescriptors
  <1>2. d \in I2cBus \X Address /\ dev \in I2cBus \X Address
    BY DEF I2cInv, I2cTypeOK
  <1> QED BY <1>1, <1>2, I2cDevInjective

\* So the others' stay open.
LEMMA CloseI2cSlaveKeepsInv ==
  ASSUME I2cInv, NEW dev \in i2cs, CloseI2cSlave(dev), i2cs' = i2cs \ {dev},
         ReplyTypeOK', UNCHANGED loop
  PROVE  I2cInv'
  <1> DEFINE fd == i2cDriver[dev]
  <1>1. KernelTypeOK /\ MuxTypeOK /\ dev \in DOMAIN i2cDriver
    BY DEF I2cInv, I2cTypeOK, ServiceTypeOK, I2cHandlesMatchDrivers
  <1>2. /\ KernelTypeOK'
        /\ DOMAIN fdTable' = DOMAIN fdTable \ {fd}
        /\ \A other \in DOMAIN fdTable \ {fd} : fdTable'[other] = fdTable[other]
    BY <1>1, CloseFdLemma DEF CloseI2cSlave
  <1>3. MuxTypeOK'
    BY <1>1, MuxStepType DEF CloseI2cSlave
  <1>4. /\ DOMAIN i2cDriver' = DOMAIN i2cDriver \ {dev}
        /\ \A d \in DOMAIN i2cDriver \ {dev} : i2cDriver'[d] = i2cDriver[d]
    BY DEF CloseI2cSlave, Unbind, Restrict
  <1>5. I2cTypeOK'
    BY <1>2, <1>3, <1>4 DEF I2cInv, I2cTypeOK, ServiceTypeOK
  <1>6. I2cHandlesMatchDrivers'
    BY <1>4 DEF I2cInv, I2cHandlesMatchDrivers
  <1>7. \A d \in DOMAIN i2cDriver \ {dev} : i2cDriver[d] # fd
    BY <1>1, I2cOthersDescriptor
  <1>8. I2cDriversOwnDescriptors'
    BY <1>2, <1>4, <1>7 DEF I2cInv, I2cDriversOwnDescriptors
  <1> QED BY <1>5, <1>6, <1>8 DEF I2cInv
-----------------------------------------------------------------------------
(***************************************************************************)
(* The handlers.                                                           *)
(***************************************************************************)
\* OpenI2cDevice: refused, busy, failed half-way, or done.
LEMMA OpenI2cDeviceKeepsInv ==
  ASSUME I2cInv, NEW request, NEW dev \in I2cName \X Address,
         OpenI2cDevice(request, dev)
  PROVE  I2cInv'
  <1> DEFINE verdict == Verdict(request, I2cKeys, I2cKeys)
  <1>1. verdict \in Code /\ {"ok", "ENODEV", "EBUSY"} \subseteq Code
        /\ "none" \in Payload
    BY VerdictType DEF Code, Payload
  <1>2. ReplyTypeOK' /\ UNCHANGED loop
    BY <1>1, ReplyType DEF OpenI2cDevice, ClientOpenI2cDevice
  <1>3. CASE UNCHANGED muxVars /\ UNCHANGED fdTable /\ UNCHANGED i2cVars
    BY <1>2, <1>3, I2cAnswerKeepsInv
  <1>4. CASE /\ dev[1] \in I2cBus /\ dev \notin DOMAIN i2cDriver
             /\ OpenI2cSlave(dev) /\ i2cs' = i2cs \cup {dev}
    <2>1. dev \in I2cBus \X Address
      BY <1>4
    <2> QED BY <1>2, <1>4, <2>1, OpenI2cSlaveKeepsInv
  <1> QED
    BY <1>3, <1>4
       DEF OpenI2cDevice, ClientOpenI2cDevice, I2cDriverInitFails, i2cUnchanged,
           i2cVars

\* ReleaseI2cDevice, of an open address or of one that is not.
LEMMA ReleaseI2cDeviceKeepsInv ==
  ASSUME I2cInv, NEW request, NEW dev, ReleaseI2cDevice(request, dev)
  PROVE  I2cInv'
  <1> DEFINE verdict == Verdict(request, I2cKeys, I2cKeys)
  <1>1. verdict \in Code /\ {"ok", "EPERM"} \subseteq Code /\ "none" \in Payload
    BY VerdictType DEF Code, Payload
  <1>2. ReplyTypeOK' /\ UNCHANGED loop
    BY <1>1, ReplyType DEF ReleaseI2cDevice, ClientReleaseI2cDevice
  <1>3. CASE UNCHANGED muxVars /\ UNCHANGED fdTable /\ UNCHANGED i2cVars
    BY <1>2, <1>3, I2cAnswerKeepsInv
  <1>4. CASE dev \in i2cs /\ CloseI2cSlave(dev) /\ i2cs' = i2cs \ {dev}
    BY <1>2, <1>4, CloseI2cSlaveKeepsInv
  <1> QED
    BY <1>3, <1>4
       DEF ReleaseI2cDevice, ClientReleaseI2cDevice, i2cUnchanged, i2cVars

\* Geti2cPollingFd gives away a number, not a descriptor.
LEMMA Geti2cPollingFdKeepsInv ==
  ASSUME I2cInv, NEW request, NEW dev, Geti2cPollingFd(request, dev)
  PROVE  I2cInv'
  <1> DEFINE verdict == Verdict(request, I2cKeys, I2cKeys)
  <1>1. verdict \in Code /\ {"ok", "ENODEV"} \subseteq Code
        /\ "none" \in Payload /\ Fd \subseteq Payload
    BY VerdictType DEF Code, Payload
  <1>2. dev \in i2cs => i2cDriver[dev] \in Fd
    BY DEF I2cInv, I2cTypeOK, I2cHandlesMatchDrivers
  <1>3. ReplyTypeOK'
    BY <1>1, <1>2, ReplyType DEF Geti2cPollingFd, ClientGeti2cPollingFd
  <1> QED
    BY <1>3, I2cAnswerKeepsInv
       DEF Geti2cPollingFd, ClientGeti2cPollingFd, i2cUnchanged, i2cVars

\* The list, the reads and the writes only answer.
I2cTransfer(request, dev, n) ==
  \/ ListI2cBuses(request) \/ I2cRead(request, dev, n)
  \/ I2cReadRegByte(request, dev) \/ I2cReadRegWord(request, dev)
  \/ I2cReadRegBuffer(request, dev, n) \/ I2cWrite(request, dev)
  \/ I2cWriteRegByte(request, dev) \/ I2cWriteRegWord(request, dev)
  \/ I2cWriteRegBuffer(request, dev, n)

\* They change nothing else.
LEMMA I2cTransferChangesNothing ==
  ASSUME NEW request, NEW dev, NEW n, I2cTransfer(request, dev, n)
  PROVE  UNCHANGED baseVars /\ UNCHANGED i2cVars
  BY DEF I2cTransfer, ListI2cBuses, I2cRead, I2cReadRegByte, I2cReadRegWord,
         I2cReadRegBuffer, I2cWrite, I2cWriteRegByte, I2cWriteRegWord,
         I2cWriteRegBuffer, i2cUnchanged, i2cVars

\* Their answers are of the right type.
LEMMA I2cTransferKeepsInv ==
  ASSUME I2cInv, NEW request, NEW dev, NEW n, I2cTransfer(request, dev, n)
  PROVE  I2cInv'
  <1>1. /\ {"none", "received", "garbage"} \subseteq Payload
        /\ {"ok"} \in SUBSET Code /\ {"unknown"} \in SUBSET Code
    BY DEF Code, Payload
  <1>2. ReplyTypeOK'
    <2>1. CASE ListI2cBuses(request)
      BY <1>1, <2>1, AnswerType DEF ListI2cBuses
    <2>2. CASE I2cRead(request, dev, n)
      <3>1. PICK codes \in SUBSET Code :
              Answer("I2cRead", dev,
                     Verdict(request, I2cKeys \cup {"size"}, I2cKeys), codes,
                     "received")
        BY <1>1, <2>2, I2cAccessType DEF I2cRead
      <3> QED BY <1>1, <3>1, AnswerType
    <2>3. CASE I2cReadRegByte(request, dev) \/ I2cReadRegWord(request, dev)
      BY <1>1, <2>3, AnswerType, I2cAccessType DEF I2cReadRegByte, I2cReadRegWord
    <2>4. CASE I2cReadRegBuffer(request, dev, n)
      BY <1>1, <2>4, AnswerType, I2cAccessType DEF I2cReadRegBuffer
    <2>5. CASE \/ I2cWrite(request, dev) \/ I2cWriteRegByte(request, dev)
               \/ I2cWriteRegWord(request, dev)
      BY <1>1, <2>5, AnswerType, I2cAccessType
         DEF I2cWrite, I2cWriteRegByte, I2cWriteRegWord
    <2>6. CASE I2cWriteRegBuffer(request, dev, n)
      BY <1>1, <2>6, AnswerType, I2cAccessType DEF I2cWriteRegBuffer
    <2> QED BY <2>1, <2>2, <2>3, <2>4, <2>5, <2>6 DEF I2cTransfer
  <1> QED
    BY <1>2, I2cTransferChangesNothing, I2cAnswerKeepsInv DEF baseVars, muxVars
-----------------------------------------------------------------------------
\* The steps of I2cNext by what they may do.
LEMMA I2cSteps ==
  ASSUME I2cNext
  PROVE  \/ \E request : \E dev \in I2cName \X Address : OpenI2cDevice(request, dev)
         \/ \E request, dev : ReleaseI2cDevice(request, dev)
         \/ \E request, dev : Geti2cPollingFd(request, dev)
         \/ \E request, dev, n : I2cTransfer(request, dev, n)
  BY DEF I2cNext, I2cTransfer

\* The end of the process leaves the maps to be read; its restart empties them.
LEMMA I2cRestartKeepsInv ==
  ASSUME I2cInv, I2cDie \/ (Reboot /\ I2cReboot)
  PROVE  I2cInv'
  <1>1. CASE I2cDie
    BY <1>1, I2cAnswerKeepsInv
       DEF I2cDie, Die, i2cUnchanged, i2cVars, muxVars, I2cInv, I2cTypeOK,
           ServiceTypeOK, ReplyTypeOK
  <1>2. CASE Reboot /\ I2cReboot
    <2>1. KernelTypeOK'
      BY <1>2 DEF Reboot, KernelTypeOK, EmptyMap
    <2>2. MuxTypeOK' /\ ReplyTypeOK'
      BY <1>2 DEF Reboot, MuxTypeOK, ReplyTypeOK, I2cInv, I2cTypeOK, ServiceTypeOK
    <2>3. DOMAIN i2cDriver' = {} /\ i2cs' = {}
      BY <1>2, EmptyMapLemma DEF I2cReboot, Reboot
    <2>4. I2cTypeOK'
      BY <1>2, <2>1, <2>2, <2>3 DEF Reboot, I2cTypeOK, ServiceTypeOK
    <2> QED
      BY <2>3, <2>4
         DEF I2cInv, I2cHandlesMatchDrivers, I2cDriversOwnDescriptors
  <1> QED BY <1>1, <1>2

\* The invariant is inductive: a step or a stutter keeps it.
LEMMA I2cNextKeepsInv ==
  ASSUME I2cInv, [I2cSpecNext]_I2cSpecVars
  PROVE  I2cInv'
  <1>1. CASE UNCHANGED I2cSpecVars
    BY <1>1, I2cAnswerKeepsInv
       DEF I2cSpecVars, baseVars, i2cVars, muxVars, I2cInv, I2cTypeOK,
           ServiceTypeOK, ReplyTypeOK
  <1>2. CASE I2cNext
    BY <1>2, I2cSteps, OpenI2cDeviceKeepsInv, ReleaseI2cDeviceKeepsInv,
       Geti2cPollingFdKeepsInv, I2cTransferKeepsInv
  <1> QED BY <1>1, <1>2, I2cRestartKeepsInv DEF I2cSpecNext

\* The invariant holds throughout: of every board and every number of
\* descriptors, what MCI2c shows of one.
THEOREM I2cInvariant == I2cSpec => []I2cInv
  <1>1. I2cSpecInit => I2cInv
    BY I2cInitInv
  <1>2. I2cInv /\ [I2cSpecNext]_I2cSpecVars => I2cInv'
    BY I2cNextKeepsInv
  <1> QED BY <1>1, <1>2, PTL DEF I2cSpec

\* I2C's variables keep their types.
THEOREM I2cTypeCorrect == I2cSpec => []I2cTypeOK
  <1>1. I2cInv => I2cTypeOK
    BY DEF I2cInv
  <1> QED BY <1>1, I2cInvariant, PTL

\* The client's handles are the buses' drivers: the lookup of I2cDevice, which
\* makes an entry where there is none, always finds one.
THEOREM I2cHandlesCorrect == I2cSpec => []I2cHandlesMatchDrivers
  <1>1. I2cInv => I2cHandlesMatchDrivers
    BY DEF I2cInv
  <1> QED BY <1>1, I2cInvariant, PTL

\* The descriptor of an address leads to its own bus and slave.
THEOREM I2cDescriptorsCorrect == I2cSpec => []I2cDriversOwnDescriptors
  <1>1. I2cInv => I2cDriversOwnDescriptors
    BY DEF I2cInv
  <1> QED BY <1>1, I2cInvariant, PTL

-----------------------------------------------------------------------------
\* An open adds its own descriptor and pins that were asked for.
LEMMA OpenI2cSlaveAlone ==
  ASSUME I2cAloneInv, NEW dev, dev \notin DOMAIN i2cDriver, OpenI2cSlave(dev)
  PROVE  I2cAloneInv'
  <1>1. PICK fd \in FreeFds : I2cDriverInit(dev, fd)
    BY DEF OpenI2cSlave
  <1>2. /\ DOMAIN fdTable' = DOMAIN fdTable \cup {fd}
        /\ DOMAIN i2cDriver' = DOMAIN i2cDriver \cup {dev}
        /\ i2cDriver'[dev] = fd
        /\ \A d \in DOMAIN i2cDriver \ {dev} : i2cDriver'[d] = i2cDriver[d]
    BY <1>1 DEF I2cDriverInit, OpenFd, Bind
  <1>3. I2cNoDescriptorLeaks'
    BY <1>2 DEF I2cAloneInv, I2cNoDescriptorLeaks
  <1>4. inUse' \subseteq inUse \cup ClaimedPins(I2cMux[dev[1]])
    BY ClaimMuxPins DEF OpenI2cSlave
  <1>5. I2cPinsAskedFor'
    BY <1>2, <1>4
       DEF I2cAloneInv, I2cPinsAskedFor, ClaimedPins, SourcePins, Registered
  <1> QED BY <1>3, <1>5 DEF I2cAloneInv

\* A release takes away its descriptor and the pins of its bus.
LEMMA CloseI2cSlaveAlone ==
  ASSUME I2cInv, I2cAloneInv, NEW dev \in i2cs, CloseI2cSlave(dev)
  PROVE  I2cAloneInv'
  <1> DEFINE fd == i2cDriver[dev]
  <1>1. /\ DOMAIN fdTable' = DOMAIN fdTable \ {fd}
        /\ DOMAIN i2cDriver' = DOMAIN i2cDriver \ {dev}
        /\ \A d \in DOMAIN i2cDriver \ {dev} : i2cDriver'[d] = i2cDriver[d]
    BY DEF CloseI2cSlave, CloseFd, Unbind, Restrict
  <1>2. \A d \in DOMAIN i2cDriver \ {dev} : i2cDriver[d] # fd
    BY I2cOthersDescriptor DEF I2cInv, I2cHandlesMatchDrivers
  <1>3. I2cNoDescriptorLeaks'
    BY <1>1, <1>2 DEF I2cAloneInv, I2cNoDescriptorLeaks
  <1>4. I2cPinsAskedFor'
    <2>1. inUse' = inUse \ ClaimedPins(I2cMux[dev[1]])
      BY DropMuxPins DEF CloseI2cSlave
    <2> SUFFICES ASSUME NEW p \in inUse'
                 PROVE  \E d \in DOMAIN i2cDriver' : p \in ClaimedPins(I2cMux[d[1]])
      BY DEF I2cPinsAskedFor, ClaimedPins, SourcePins, Registered
    <2>2. PICK d \in DOMAIN i2cDriver : p \in ClaimedPins(I2cMux[d[1]])
      BY <2>1 DEF I2cAloneInv, I2cPinsAskedFor
    <2>3. d # dev
      BY <2>1, <2>2
    <2> QED BY <1>1, <2>2, <2>3
  <1> QED BY <1>3, <1>4 DEF I2cAloneInv

\* No other step touches either.
LEMMA I2cNextKeepsAlone ==
  ASSUME I2cInv, I2cAloneInv, [I2cSpecNext]_I2cSpecVars
  PROVE  I2cAloneInv'
  <1>1. ASSUME UNCHANGED fdTable, UNCHANGED inUse, UNCHANGED i2cDriver
        PROVE  I2cAloneInv'
    BY <1>1 DEF I2cAloneInv, I2cNoDescriptorLeaks, I2cPinsAskedFor
  <1>2. ASSUME NEW request, NEW dev, OpenI2cDevice(request, dev)
        PROVE  I2cAloneInv'
    BY <1>1, <1>2, OpenI2cSlaveAlone
       DEF OpenI2cDevice, ClientOpenI2cDevice, I2cDriverInitFails, i2cUnchanged,
           muxVars
  <1>3. ASSUME NEW request, NEW dev, ReleaseI2cDevice(request, dev)
        PROVE  I2cAloneInv'
    BY <1>1, <1>3, CloseI2cSlaveAlone
       DEF ReleaseI2cDevice, ClientReleaseI2cDevice, i2cUnchanged, muxVars
  <1>4. ASSUME NEW request, NEW dev, Geti2cPollingFd(request, dev)
        PROVE  I2cAloneInv'
    BY <1>1, <1>4
       DEF Geti2cPollingFd, ClientGeti2cPollingFd, i2cUnchanged, baseVars, muxVars
  <1>5. ASSUME NEW request, NEW dev, NEW n, I2cTransfer(request, dev, n)
        PROVE  I2cAloneInv'
    BY <1>1, <1>5, I2cTransferChangesNothing DEF baseVars, i2cVars
  <1>6. CASE I2cNext
    BY <1>2, <1>3, <1>4, <1>5, <1>6, I2cSteps
  <1>7. CASE Reboot /\ I2cReboot
    <2>1. DOMAIN i2cDriver' = {} /\ DOMAIN fdTable' = {} /\ inUse' = {}
      BY <1>7, EmptyMapLemma DEF Reboot, I2cReboot
    <2> QED BY <2>1 DEF I2cAloneInv, I2cNoDescriptorLeaks, I2cPinsAskedFor
  <1>8. CASE I2cDie \/ UNCHANGED I2cSpecVars
    BY <1>1, <1>8 DEF I2cDie, i2cUnchanged, I2cSpecVars, baseVars, i2cVars
  <1> QED BY <1>6, <1>7, <1>8 DEF I2cSpecNext

\* Both hold throughout, where I2C is the only kind of device.
THEOREM I2cAloneInvariant == I2cSpec => []I2cAloneInv
  <1>1. I2cSpecInit => I2cAloneInv
    <2> SUFFICES ASSUME I2cSpecInit PROVE I2cAloneInv
      OBVIOUS
    <2>1. DOMAIN i2cDriver = {} /\ DOMAIN fdTable = {} /\ inUse = {}
      BY EmptyMapLemma DEF I2cSpecInit, I2cInit, ServiceInit, MuxInit
    <2> QED BY <2>1 DEF I2cAloneInv, I2cNoDescriptorLeaks, I2cPinsAskedFor
  <1>2. I2cInv /\ I2cAloneInv /\ [I2cSpecNext]_I2cSpecVars => I2cAloneInv'
    BY I2cNextKeepsAlone
  <1> QED BY <1>1, <1>2, I2cInvariant, PTL DEF I2cSpec

\* I2C leaves no descriptor open that no driver has, ever.
THEOREM I2cDescriptorsReturned == I2cSpec => []I2cNoDescriptorLeaks
  <1>1. I2cAloneInv => I2cNoDescriptorLeaks
    BY DEF I2cAloneInv
  <1> QED BY <1>1, I2cAloneInvariant, PTL

\* Nor a pin in use that no open address's bus has, even on a board where buses
\* share pins or a source is registered under the empty name.
THEOREM I2cPinsReturned == I2cSpec => []I2cNoPinLeaks
  <1>1. I2cAloneInv => I2cNoPinLeaks
    <2> SUFFICES ASSUME I2cAloneInv, NEW p \in inUse
                 PROVE  p \in UNION {SourcePins(I2cMux[dev[1]]) :
                                       dev \in DOMAIN i2cDriver}
      BY DEF I2cNoPinLeaks
    <2>1. PICK dev \in DOMAIN i2cDriver : p \in ClaimedPins(I2cMux[dev[1]])
      BY DEF I2cAloneInv, I2cPinsAskedFor
    <2>2. p \in SourcePins(I2cMux[dev[1]])
      BY <2>1 DEF ClaimedPins
    <2> QED BY <2>2
  <1> QED BY <1>1, I2cAloneInvariant, PTL
-----------------------------------------------------------------------------
\* What I2cFailureChangesNothing says of one call.
I2cFailureStep ==
  /\ UNCHANGED loop
  /\ reply'.code # "ok" => UNCHANGED <<baseVars, i2cVars>>

\* Only an open or a release changes anything, and answers "ok" when it does.
LEMMA I2cNextFailureStep ==
  ASSUME I2cNext
  PROVE  I2cFailureStep
  <1>1. ASSUME NEW request, NEW dev, OpenI2cDevice(request, dev)
        PROVE  I2cFailureStep
    <2>1. \/ reply'.code = "ok"
          \/ UNCHANGED muxVars /\ UNCHANGED fdTable /\ UNCHANGED i2cVars
      BY <1>1 DEF OpenI2cDevice, ClientOpenI2cDevice, I2cDriverInitFails, Reply,
                  i2cUnchanged, i2cVars
    <2> QED BY <1>1, <2>1 DEF OpenI2cDevice, I2cFailureStep, baseVars, muxVars
  <1>2. ASSUME NEW request, NEW dev, ReleaseI2cDevice(request, dev)
        PROVE  I2cFailureStep
    <2>1. \/ reply'.code = "ok"
          \/ UNCHANGED muxVars /\ UNCHANGED fdTable /\ UNCHANGED i2cVars
      BY <1>2 DEF ReleaseI2cDevice, ClientReleaseI2cDevice, Reply, i2cUnchanged,
                  i2cVars
    <2> QED BY <1>2, <2>1 DEF ReleaseI2cDevice, I2cFailureStep, baseVars, muxVars
  <1>3. ASSUME NEW request, NEW dev, Geti2cPollingFd(request, dev)
        PROVE  I2cFailureStep
    BY <1>3 DEF Geti2cPollingFd, ClientGeti2cPollingFd, i2cUnchanged, i2cVars,
                I2cFailureStep, baseVars, muxVars
  <1>4. ASSUME NEW request, NEW dev, NEW n, I2cTransfer(request, dev, n)
        PROVE  I2cFailureStep
    BY <1>4, I2cTransferChangesNothing DEF I2cFailureStep, baseVars
  <1> QED BY <1>1, <1>2, <1>3, <1>4, I2cSteps

\* An I2C call that is answered with an error has changed nothing, and no call ends
\* the process, on any board.
THEOREM I2cFailureCorrect == I2cSpec => I2cFailureChangesNothing
  <1> DEFINE Answered == /\ running'
                         /\ reply'.code # "ok" => UNCHANGED <<baseVars, i2cVars>>
  <1>1. [I2cSpecNext]_I2cSpecVars => [I2cNext => Answered]_I2cSpecVars
    BY I2cNextFailureStep DEF I2cFailureStep, I2cNext, running
  <1> QED BY <1>1, PTL DEF I2cSpec, I2cFailureChangesNothing
=============================================================================
